CONSTANTS
    q1 = q1
    q2 = q2
    q3 = q3
    q4 = q4
    u1 = u1
    u2 = u2
    roomA = roomA
    roomB = roomB
    keyA = keyA
    keyB = keyB
    keyNew = keyNew
    m1 = m1
    m2 = m2
    Requests = {q1, q2, q3}
    Users = {u1, u2}
    SeedRooms <- MCSeedRooms
    SeedMessages = {m1, m2}
    SeedRoomOf <- MCSeedRoomOf
    RoomKeys = {keyA, keyB, keyNew}
    Denotes <- MCDenotes
    RoomsList = RoomsList
    Inputs <- BoardInputs
    None = None
SPECIFICATION Spec
CHECK_DEADLOCK FALSE
INVARIANTS
    NoticeReachesTheRoom
