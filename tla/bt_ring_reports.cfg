SPECIFICATION Spec
CONSTANTS
    Size = 55
    Word = 65536
    MaxLen = 1
    MaxBare = 6
    Byte <- MCByte
    Payloads <- EmptyOrShort
    Protocols <- SciOnly
    Codes <- NoBytes
    Foreign <- NoBytes
    Paced = FALSE
INVARIANTS TypeOK FillCoversLive CheckIsSound
PROPERTY ImplementsQueue
VIEW Counts
