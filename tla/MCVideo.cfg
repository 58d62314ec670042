SPECIFICATION FairSpec
CONSTANTS
    Positions = {0, 1, 2}
    MaxSecond = 1
    StreamMayEnd = TRUE
INVARIANTS
    FileGetsTheRecording
    StatusTellsRecording
    CommandsObeyed
PROPERTIES
    SavingUndisturbed
    RecorderImplemented
    SavingEnds
    SnapshotServed
