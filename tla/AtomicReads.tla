----------------------------- MODULE AtomicReads -----------------------------
(***************************************************************************)
(* What the reading side of the rooms and messages API promises: whoever   *)
(* asks gets one look at the board of AtomicBoard, all of it as it is at   *)
(* one instant between the question and the answer, or no answer.          *)
(***************************************************************************)
EXTENDS AtomicBoard

CONSTANTS Readers, Asks, Denotes

VARIABLES asked,   \* what each reader asks, None before
          answer   \* what it is answered

reads == <<asked, answer>>

Rows(rs, ms, cs) == [rooms |-> rs, messages |-> ms, counts |-> cs]
NoRows == [m \in {} |-> None]
Answered(status, rows) == [status |-> status, rows |-> rows]
Without(status) == Answered(status, Rows({}, NoRows, NoRows))
Found(rs, ms, cs) == Answered("found", Rows(rs, ms, cs))

InRoom(room) == {m \in DOMAIN messages : messages[m].room = room}
Copies(ms) == [m \in ms |-> messages[m]]
Counts(ms) == [m \in ms |-> Cardinality({x \in reacted : x[1] = m})]

\* What there is to see for someone who asks i.
Sight(i) ==
    LET room == Denotes[i.key]
    IN  CASE i.op = "get_rooms" -> Found(rooms, NoRows, NoRows)
          [] i.op = "get_room" /\ room \in rooms -> Found({room}, NoRows, NoRows)
          [] i.op = "get_messages" /\ room \in rooms ->
                 Found({}, Copies(InRoom(room)), Counts(InRoom(room)))
          [] i.op = "get_message" /\ room \in rooms /\ i.msg \in DOMAIN messages ->
                 Found({}, Copies({i.msg}), NoRows)
          [] OTHER -> Without("missing")

Ask(q, i) ==
    /\ asked[q] = None
    /\ asked' = [asked EXCEPT ![q] = i]
    /\ UNCHANGED answer

Look(q) ==
    /\ asked[q] # None /\ answer[q] = Without("pending")
    /\ answer' = [answer EXCEPT ![q] = Sight(asked[q])]
    /\ UNCHANGED asked

\* Some are not answered, or their answers are lost.
Lose(qs) ==
    /\ \A q \in qs : asked[q] # None
    /\ answer' = [q \in Readers |-> IF q \in qs THEN Without("none") ELSE answer[q]]
    /\ UNCHANGED asked

ReadsInit ==
    /\ Init
    /\ asked = [q \in Readers |-> None]
    /\ answer = [q \in Readers |-> Without("pending")]

ReadsNext ==
    \/ /\ UNCHANGED vars
       /\ \/ \E qs \in SUBSET Readers : Lose(qs)
          \/ \E q \in Readers : Look(q) \/ \E i \in Asks : Ask(q, i)
    \/ UNCHANGED reads /\ Next

ReadsSpec == ReadsInit /\ [][ReadsNext]_<<vars, reads>>
=============================================================================
