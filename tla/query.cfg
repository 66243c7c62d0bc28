SPECIFICATION Spec
CONSTANTS
    h = h
    l = l
    None = None
    Items <- MCItems
    Readings <- MCReadings
    High = {h}
    Lists <- MCLists
INVARIANTS TypeOK AtMostOneBehind SpeedsAgree LowAtLow
PROPERTIES FirstShown Stops
CHECK_DEADLOCK FALSE
