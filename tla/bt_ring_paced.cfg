SPECIFICATION Spec
CONSTANTS
    Size = 12
    Word = 65536
    MaxLen = 1
    MaxBare = 0
    Byte <- MCByte
    Payloads <- EmptyOrShort
    Protocols <- SciOnly
    Codes <- Success
    Foreign <- OneForeign
    Paced = TRUE
PROPERTY ImplementsQueue
