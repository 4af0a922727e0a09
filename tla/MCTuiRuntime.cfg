CONSTANTS
    b1 = b1  b2 = b2  b3 = b3  p1 = p1  p2 = p2
    Boards = {b1, b2, b3}
    Initial = {b1, b2}
    Ports = {p1}
    PortOf <- MCPortOf
    NoPort = NoPort
    Workers = {w1, w2}
    MaxClicks = 3
    MaxQueue = 2
    None = None
SPECIFICATION FairSpec
INVARIANTS PollUsesLiveSessions PendingNamesWorker OneDriverPerPort PolledPortIsOpen
PROPERTIES RequestsEnd
CHECK_DEADLOCK FALSE
