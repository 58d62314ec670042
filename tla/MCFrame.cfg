SPECIFICATION Spec
CONSTANTS
    Angles = {0, 1, 127, 128, 255, 256, 257, 900, 1350}
    Ratios = {10, 15, 20, 25, 30, 35, 40}
INVARIANTS
    CrcIsRemainder
    CallUnderstood
