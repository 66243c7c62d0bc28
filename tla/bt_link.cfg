SPECIFICATION LinkSpec
CONSTANTS
    Size = 18
    Word = 65536
    MaxLen = 1
    MaxBare = 0
    Byte <- MCByte
    Payloads <- TwoReports
    Protocols <- SciOnly
    Codes <- NoBytes
    Foreign <- NoBytes
    Paced = TRUE
    Page = 8
    MaxReports = 3
INVARIANT SentInOrder
PROPERTY AllSent
