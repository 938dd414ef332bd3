\* Every session of three messages: bodies may hang unless Fairness says not.
SPECIFICATION HangingSpec
CONSTANTS
    MaxMessages = 3
    SenderSlots = 2
    ChannelCapacity = 1
    Overtaking = 1
PROPERTIES
    RequestNeedsOnlyEarlier
    NobodyStranded
CHECK_DEADLOCK FALSE
