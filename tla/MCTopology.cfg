SPECIFICATION Spec
CONSTANTS
    Nicknames = {"a", "b"}
    Ports = {"p1", "p2"}
    SlaveIds = {1, 2}
    GroupNames = {"g", "h"}
    Channels = {0}
    Aliases = {"CH0", "x"}
    defaultChannelAlias <- MCDefaultAlias
    NoAlias = NoAlias
    Files = {"f1", "f2"}
    NoFile = NoFile
    StartTopologies <- MCStartTopologies
    MaxEdits = 8
INVARIANTS EndpointsUnique OneGroupUnlessMerged
CHECK_DEADLOCK FALSE
