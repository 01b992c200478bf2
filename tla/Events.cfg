SPECIFICATION EventsSpec
CONSTANTS
    None = None
    w1 = w1
    w2 = w2
    ask = ask
    look = look
INVARIANTS  UserlogTrue ActivitiesTrue 
PROPERTY UploadsEnd
CHECK_DEADLOCK FALSE
