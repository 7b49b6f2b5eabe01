---------------------------- MODULE RoomBroadcast ----------------------------
(***************************************************************************)
(* What the notification service promises, with no mutex, loop or network: *)
(* each topic is a stream of notes; a connection that joins a topic gets   *)
(* every later note of the stream, in order, from the moment it joins to   *)
(* the moment it breaks; a broken connection gets nothing more.            *)
(***************************************************************************)
EXTENDS Naturals, Sequences

CONSTANTS Conns, Topics, Notes

VARIABLES topic,   \* the topic of each connection
          state,   \* "out", "in", "broken" or "left"
          stream,  \* the notes published to each topic
          got      \* the notes each connection has been given

vars == <<topic, state, stream, got>>

Init ==
    /\ topic \in [Conns -> Topics]
    /\ state = [c \in Conns |-> "out"]
    /\ stream = [t \in Topics |-> <<>>]
    /\ got = [c \in Conns |-> <<>>]

Join(c) ==
    /\ state[c] = "out"
    /\ state' = [state EXCEPT ![c] = "in"]
    /\ UNCHANGED <<topic, stream, got>>

\* A note reaches everyone who is in its topic, and nobody else, at once.
\* No note is published twice.
Publish(t, m) ==
    /\ \A u \in Topics : \A i \in 1..Len(stream[u]) : stream[u][i] # m
    /\ stream' = [stream EXCEPT ![t] = Append(@, m)]
    /\ got' = [c \in Conns |-> IF state[c] = "in" /\ topic[c] = t
                               THEN Append(got[c], m) ELSE got[c]]
    /\ UNCHANGED <<topic, state>>

Break(c) ==
    /\ state[c] = "in"
    /\ state' = [state EXCEPT ![c] = "broken"]
    /\ UNCHANGED <<topic, stream, got>>

Leave(c) ==
    /\ state[c] = "broken"
    /\ state' = [state EXCEPT ![c] = "left"]
    /\ UNCHANGED <<topic, stream, got>>

Next ==
    \/ \E c \in Conns : Join(c) \/ Break(c) \/ Leave(c)
    \/ \E t \in Topics, m \in Notes : Publish(t, m)

Spec == Init /\ [][Next]_vars
=============================================================================
