SPECIFICATION FairSpec
CONSTANTS
    Raw = {1102, 1515, 1927}
    Buttons = {1102, 1927}
    Rc <- Channels
    Inc = 1
    YawMax = 2
    PitchDown = 2
    PitchMax = 1
    ZoomMin = 10
    ZoomMax = 15
    ZoomInc = 5
    MaxSlack = 1
INVARIANTS
    ZoomAgrees
    AttitudeAgrees
    NoHalfDevice
PROPERTIES
    NoJump
    AttitudeRecovers
