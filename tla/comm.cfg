SPECIFICATION Spec
CONSTANTS
    Protocols <- AllProtocols
    More = 2
    MaxCalls = 2
    MaxDisturbances = 1
INVARIANTS TypeOK AnswersItsRequest
PROPERTY EveryCallReturns
CHECK_DEADLOCK FALSE
