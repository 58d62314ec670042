SPECIFICATION StartupSpec
CONSTANTS
    CameraNumMax = 2
    Ports = {"ttyUSB0", "ttyUSB1"}
    Numbers = {8, 9600}
    Words = {"N", "O", "E", "one", "one_half", "two"}
    Types = {"siyi", "none", "other"}
    Urls = {"a", "b"}
    Modulus = 32
    MaxPort = 2
    MaxLength = 2
INVARIANTS
    LineAsWritten
    OwnStream
    CamerasStarted
    PortAccepted
    PortBeforeLine
