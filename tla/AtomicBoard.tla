----------------------------- MODULE AtomicBoard -----------------------------
(***************************************************************************)
(* What the rooms and messages API promises to whoever looks at the data:  *)
(* each request takes effect at most once, in one step, and only if the    *)
(* step is allowed at that instant; a change is announced at most once and *)
(* only after it has been made.  Nothing is promised about being announced *)
(* at all.                                                                 *)
(***************************************************************************)
EXTENDS FiniteSets

CONSTANTS Requests, Users, Topics, SeedRooms, SeedMessages, SeedRoomOf, None

VARIABLES rooms,      \* the rooms there are
          messages,   \* message -> its room and its answer
          reacted,    \* pairs <<message, user>>
          done,       \* the requests that have taken effect
          announced   \* the announcements made, each with its topic

vars == <<rooms, messages, reacted, done, announced>>

Init ==
    /\ rooms = SeedRooms
    /\ messages = [m \in SeedMessages |-> [room |-> SeedRoomOf[m], answer |-> None]]
    /\ reacted = {}
    /\ done = {}
    /\ announced = {}

TakeEffect(r) ==
    /\ r \notin done
    /\ done' = done \cup {r}
    /\ UNCHANGED announced

AddRoom(r) ==
    /\ TakeEffect(r)
    /\ r \notin rooms
    /\ rooms' = rooms \cup {r}
    /\ UNCHANGED <<messages, reacted>>

AddMessage(r, room) ==
    /\ TakeEffect(r)
    /\ room \in rooms /\ r \notin DOMAIN messages
    /\ messages' = [m \in DOMAIN messages \cup {r} |->
                      IF m = r THEN [room |-> room, answer |-> None] ELSE messages[m]]
    /\ UNCHANGED <<rooms, reacted>>

React(r, m, u) ==
    /\ TakeEffect(r)
    /\ m \in DOMAIN messages /\ <<m, u>> \notin reacted
    /\ reacted' = reacted \cup {<<m, u>>}
    /\ UNCHANGED <<rooms, messages>>

Unreact(r, m, u) ==
    /\ TakeEffect(r)
    /\ <<m, u>> \in reacted
    /\ reacted' = reacted \ {<<m, u>>}
    /\ UNCHANGED <<rooms, messages>>

Answer(r, m) ==
    /\ TakeEffect(r)
    /\ m \in DOMAIN messages /\ messages[m].answer = None
    /\ messages' = [messages EXCEPT ![m].answer = r]
    /\ UNCHANGED <<rooms, reacted>>

Announce(r, t) ==
    /\ r \in done
    /\ \A x \in announced : x.by # r
    /\ announced' = announced \cup {[topic |-> t, by |-> r]}
    /\ UNCHANGED <<rooms, messages, reacted, done>>

Next ==
    \E r \in Requests :
        \/ AddRoom(r)
        \/ \E room \in rooms : AddMessage(r, room)
        \/ \E m \in DOMAIN messages, u \in Users : React(r, m, u) \/ Unreact(r, m, u)
        \/ \E m \in DOMAIN messages : Answer(r, m)
        \/ \E t \in Topics : Announce(r, t)

Spec == Init /\ [][Next]_vars
=============================================================================
