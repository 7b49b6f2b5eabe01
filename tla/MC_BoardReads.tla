---------------------------- MODULE MC_BoardReads ----------------------------
(* An instance of BoardReads: writers of rooms, messages, answers and         *)
(* reactions beside two readers.                                               *)
EXTENDS BoardReads, TLC

CONSTANTS q1, q2, g1, g2, u1, u2, roomA, keyA, keyNew, m1

MCSeedRoomOf == m1 :> roomA
\* keyNew spells the id of the room that q1 creates, if it does.
MCDenotes == (keyA :> roomA) @@ (keyNew :> q1)

Write(op, key, msg, user) ==
    [op |-> op, key |-> key, msg |-> msg, user |-> user, flaw |-> "none"]
Read(op, key, msg) == [op |-> op, key |-> key, msg |-> msg, flaw |-> "none"]

WriteInputs ==
    {Write("create_room", keyA, m1, u1), Write("create_message", keyNew, m1, u1),
     Write("answer", keyA, m1, u1), Write("react", keyA, m1, u1)}

ReadAsks ==
    {Read("get_rooms", keyA, m1), Read("get_room", keyNew, m1),
     Read("get_messages", keyA, m1), Read("get_messages", keyNew, m1),
     Read("get_message", keyNew, q2)}

\* WriteInputs tells requests apart; readers are alike.
ReaderSymmetry == Permutations(Readers)
=============================================================================
