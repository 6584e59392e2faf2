SPECIFICATION Spec
CONSTANTS
    MaxSkip = 2
    MaxSkippedTotal = 3
    MaxFrames = 6
INVARIANTS StillReadable AtMostOnce UsedKeysGone BankBounded
CHECK_DEADLOCK FALSE
