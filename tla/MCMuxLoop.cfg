SPECIFICATION Spec
CONSTANTS
    MaxId = 1
    Fds = {5, 6}
    Backlog = 2
    SndBuf = 1
    MaxRx = 1
    MaxCmd = 1
    MaxChunk = 2
    Signals = TRUE
    SigpipeIgnored = FALSE
INVARIANTS
    IInv
