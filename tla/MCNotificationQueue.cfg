SPECIFICATION Spec
CONSTANTS
    MaxMessages = 4
    SenderSlots = 2
    ChannelCapacity = 1
    Overtaking = 1
INVARIANTS
    TypeOK
    JobsInOrder
    RequestsSeeEarlier
    OneJobAtATime
    NoLostWakeup
    PermitsAccounted
PROPERTIES
    ImplementsOrder
CHECK_DEADLOCK FALSE
