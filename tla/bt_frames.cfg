SPECIFICATION Spec
CONSTANTS
    BuffLen = 9
    Residue <- NewlineOrZero
    Buses <- SciOnly
    Ends <- MaybeNewline
    Data <- OneByte
    Commands <- SomeCommands
    MaxFrames = 3
INVARIANTS TypeOK DoneAsAsked
CHECK_DEADLOCK FALSE
