SPECIFICATION FairSpec
CONSTANTS
    Streams = {1, 2}
    MaxLog = 5
    MaxInits = 2
    MaxFaults = 2
    MaxManyFaults = 1
    NoStream = 0
INVARIANTS
    ConnectionInv
    DeliveryInv
PROPERTIES
    MessageForwarded
    ConnectionsEnd
CHECK_DEADLOCK FALSE
