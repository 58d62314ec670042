SPECIFICATION FairSpec
CONSTANTS
    Servers = {s1, s2}
    NoServer = NoServer
    Commanders = {c1, c2}
    Magnitudes = {1, 3}
    TuneCnt = 3
    CmdSize = 2
    Room = 2
CHECK_DEADLOCK FALSE
INVARIANTS
    ReadComplete
    PlayedAsAsked
    PidfileNamesServer
PROPERTIES
    FifoDrained
