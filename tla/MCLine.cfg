SPECIFICATION FairSpec
CONSTANT
    Sizes = {1, 2, 3}
INVARIANTS
    MutexReadyWhenUsed
PROPERTIES
    FramesWhole
    LineImplemented
    EverySendReturns
    Connects
