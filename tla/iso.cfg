SPECIFICATION Spec
CONSTANTS
    BuffSize = 12
    Messages <- MCMessages
    Answer <- MCAnswer
    Chatter <- MCChatter
    MaxAsks = 3
    MaxChatter = 1
INVARIANTS TypeOK InitOwnsTimer AddressInOrder AnsweredOnce SentAsAsked HeardOnce
PROPERTY UartOnAgain
CHECK_DEADLOCK FALSE
