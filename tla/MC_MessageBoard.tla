--------------------------- MODULE MC_MessageBoard ---------------------------
(* Instances of MessageBoard.  Each run lets requests ask for the operations *)
(* that interfere with each other: reactions to one message, and answers,    *)
(* messages and rooms.                                                       *)
EXTENDS MessageBoard, TLC

CONSTANTS q1, q2, q3, q4, u1, u2, roomA, roomB, keyA, keyB, keyNew, m1, m2

MCSeedRooms == {roomA, roomB}
MCSeedRoomOf == (m1 :> roomA) @@ (m2 :> roomB)
\* keyNew spells the id of a room that only exists once q1 has created it.
MCDenotes == (keyA :> roomA) @@ (keyB :> roomB) @@ (keyNew :> q1)
OneKey == keyA :> roomA

Ask(op, key, msg, user, flaw) ==
    [op |-> op, key |-> key, msg |-> msg, user |-> user, flaw |-> flaw]

ReactionInputs ==
    {Ask(op, keyA, m1, u, "none") : op \in {"react", "unreact"}, u \in {u1, u2}}

BoardInputs ==
    {Ask("create_room", keyA, m1, u1, f) : f \in {"none", "user"}}
    \cup {Ask("create_message", k, m1, u1, "none") : k \in {keyA, keyNew}}
    \cup {Ask("answer", k, m, u1, "none") : k \in {keyA}, m \in {m1, q2}}
    \cup {Ask("answer", keyA, m1, u1, "ids"), Ask("react", keyB, m1, u1, "body"),
          Ask("react", keyB, m1, u1, "none"), Ask("unreact", keyA, m1, u1, "none"),
          Ask("react", keyA, q2, u2, "none")}

\* For ReactionInputs only: BoardInputs tells requests apart.
Symmetry == Permutations(Requests) \cup Permutations(Users)
=============================================================================
