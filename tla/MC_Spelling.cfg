CONSTANTS
    q1 = q1
    q2 = q2
    g1 = g1
    c1 = c1
    u1 = u1
    u2 = u2
    roomA = roomA
    keyA = keyA
    keyB = keyB
    m1 = m1
    Requests = {q1}
    Readers = {}
    Conns = {c1}
    Users = {u1, u2}
    SeedRooms = {roomA}
    SeedMessages = {m1}
    SeedRoomOf <- MCSeedRoomOf
    RoomKeys = {keyA, keyB}
    Denotes <- TwoSpellings
    RoomsList = RoomsList
    Inputs <- PostInputs
    Asks <- ListAsks
    None = None
SPECIFICATION ASpec
CHECK_DEADLOCK FALSE
PROPERTIES
    RoomHears
