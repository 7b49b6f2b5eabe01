---------------------------- MODULE MC_AmaServer ----------------------------
(* Instances of AmaServer: writers of every kind beside a reader and a        *)
(* subscriber, and a room whose id is spelled in two ways.                    *)
EXTENDS AmaServer, TLC

CONSTANTS q1, q2, g1, c1, u1, u2, roomA, keyA, keyB, m1

MCSeedRoomOf == m1 :> roomA
OneKey == keyA :> roomA
TwoSpellings == (keyA :> roomA) @@ (keyB :> roomA)

Write(op, msg, user) ==
    [op |-> op, key |-> keyA, msg |-> msg, user |-> user, flaw |-> "none"]

PostInputs == {Write("create_message", m1, u1), Write("answer", m1, u1)}
PostAndRoomInputs == PostInputs \cup {Write("create_room", m1, u1)}
ListAsks ==
    {[op |-> "get_messages", key |-> keyA, msg |-> m1, flaw |-> f] : f \in {"none", "ids"}}
\* Two adds and a remove on one message are enough for counts to race; answers
\* are given beside readers in MC_BoardReads.
ServerInputs ==
    {Write("create_message", m1, u1), Write("unreact", m1, u1)}
        \cup {Write("react", m1, u) : u \in {u1, u2}}

RequestSymmetry == Permutations(Requests) \cup Permutations(Conns)
=============================================================================
