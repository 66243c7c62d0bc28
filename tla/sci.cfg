SPECIFICATION Spec
CONSTANTS
    BuffSize = 5
    Messages <- MCMessages
    Replies <- MCReplies
    MaxMsgs = 3
    MaxReplies = 1
INVARIANTS TypeOK OneByteOut RecvIsEcho HeardOnce
PROPERTIES ImplementsExchange Settles
CHECK_DEADLOCK FALSE
