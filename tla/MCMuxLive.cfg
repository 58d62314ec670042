SPECIFICATION FairSpec
CONSTANTS
    MaxId = 1
    Fds = {5, 6}
    Backlog = 1
    SndBuf = 1
    MaxRx = 1
    MaxCmd = 0
    MaxChunk = 2
    Signals = FALSE
    SigpipeIgnored = TRUE
PROPERTIES
    CommanderElected
    DeadCommanderReplaced
    FanOutEnds
