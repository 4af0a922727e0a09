CONSTANTS
    SlaveValues = {0, 1, 2}
    BaudValues = {0, 3, 4}
    Default <- MCDefault
    Commissioned <- MCCommissioned
    NoRecord = NoRecord
    Down = Down
    NoConfig = NoConfig
SPECIFICATION FairSpec
INVARIANTS NextBootIsStored DownOnlyIfRefused
PROPERTIES LinkSpec ChangesAndResetsEnd
