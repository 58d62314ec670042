SPECIFICATION Spec
CONSTANTS
    MaxId = 1
    Fds = {5, 6}
    Backlog = 1
    SndBuf = 1
    MaxRx = 1
    MaxCmd = 0
    MaxChunk = 0
    Signals = TRUE
    SigpipeIgnored = TRUE
INVARIANTS
    GracefulExit
