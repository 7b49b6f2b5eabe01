CONSTANTS
    Conns = {c1, c2, c3}
    RoomKeys = {r1}
    RoomsList = RoomsList
    Notifiers = {n1, n2}
    None = None
    Notes = {m1, m2, m3}
    NoNote = NoNote
SPECIFICATION DSpec
SYMMETRY Symmetry
CHECK_DEADLOCK FALSE
INVARIANTS
    HubInv
    DeliveryInv
    RegisteredWhileServed
    NoWriteAfterLeave
    OneWriterAtATime
    OnlyDeadAreDropped
    NothingMissed
    NoGaps
PROPERTIES
    ImplementsBroadcast
