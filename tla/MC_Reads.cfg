CONSTANTS
    q1 = q1
    q2 = q2
    g1 = g1
    g2 = g2
    u1 = u1
    u2 = u2
    roomA = roomA
    keyA = keyA
    keyNew = keyNew
    m1 = m1
    Requests = {q1, q2}
    Readers = {g1, g2}
    Users = {u1, u2}
    SeedRooms = {roomA}
    SeedMessages = {m1}
    SeedRoomOf <- MCSeedRoomOf
    RoomKeys = {keyA, keyNew}
    Denotes <- MCDenotes
    RoomsList = RoomsList
    Inputs <- WriteInputs
    Asks <- ReadAsks
    None = None
SPECIFICATION RSpec
SYMMETRY ReaderSymmetry
CHECK_DEADLOCK FALSE
INVARIANTS
    ReadInv
    ReadYourWrites
    MonotonicReads
PROPERTIES
    ImplementsAtomicReads
