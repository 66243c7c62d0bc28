SPECIFICATION Spec
CONSTANTS
    Size = 49
    Word = 65536
    MaxLen = 1
    MaxBare = 60
    Byte <- MCByte
    Payloads <- EmptyOrShort
    Protocols <- SciOnly
    Codes <- NoBytes
    Foreign <- NoBytes
    Paced = FALSE
PROPERTY OverflowMeansFull
