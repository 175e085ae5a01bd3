SPECIFICATION Spec
CONSTANTS
    Base = 20
    Code <- MCCode
    Epoch = 3
    Handler = {h1, h2}
    NoHandler = NoHandler
    Address <- MCAddress
    Packet <- MCPackets
    MaxPacket = 72
    Thread = {t1}
    MaxMapped = 2
    MaxTime = 3
INVARIANTS
    TypeOK
    NothingMisread
    CalledInTurn
    NotBeforeDue
    AllOrNothing
PROPERTIES
    PacketsEnd
CHECK_DEADLOCK FALSE
