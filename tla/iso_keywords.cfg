SPECIFICATION Spec
CONSTANTS
    BuffSize = 12
    Messages <- MCMessages
    Answer <- MCAnswer
    Chatter <- MCChatter
    MaxAsks = 2
    MaxChatter = 0
PROPERTY KeywordsSuffice
CHECK_DEADLOCK FALSE
