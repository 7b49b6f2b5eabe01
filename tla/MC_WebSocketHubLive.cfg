CONSTANTS
    Conns = {c1, c2}
    RoomKeys = {r1}
    RoomsList = RoomsList
    Notifiers = {n1, n2}
    None = None
SPECIFICATION FairSpec
PROPERTIES
    CancelledIsClosed
    NotifyReturns
    DeadIsForgotten
