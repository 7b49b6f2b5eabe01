----------------------------- MODULE HubDelivery -----------------------------
(***************************************************************************)
(* WebSocketHub with the notes that travel through it.  Each notification  *)
(* carries a note; history variables record the order in which the rounds  *)
(* of a topic took the mutex, what was written to each connection and      *)
(* where in the topic's stream the connection joined.  The hub then        *)
(* implements RoomBroadcast: a loop of writes, which joins, failed writes  *)
(* and other topics' notifications can fall between, looks like one        *)
(* atomic broadcast.                                                       *)
(***************************************************************************)
EXTENDS WebSocketHub, Naturals, Sequences, SequencesExt

CONSTANTS Notes,   \* the notifications handlers may send, each once
          NoNote

ASSUME DeliveryAssumption == NoNote \notin Notes

VARIABLES note,    \* the note a notifier carries
          unused,  \* the notes not yet sent
          log,     \* topic -> the notes whose rounds are over, in order
          sent,    \* connection -> the notes written to it without an error
          joined   \* connection -> the length of its topic's log when it joined

history == <<unused, log, sent, joined>>
dvars == <<vars, note, history>>

DTypeOK ==
    /\ TypeOK
    /\ note \in [Notifiers -> Notes \cup {NoNote}]
    /\ unused \subseteq Notes
    /\ log \in [Topics -> Seq(Notes)]
    /\ sent \in [Conns -> Seq(Notes)]
    /\ joined \in [Conns -> Nat]

DInit ==
    /\ Init
    /\ note = [n \in Notifiers |-> NoNote]
    /\ unused = Notes
    /\ log = [t \in Topics |-> <<>>]
    /\ sent = [c \in Conns |-> <<>>]
    /\ joined = [c \in Conns |-> 0]

\* A handler whose commit succeeded starts a goroutine for its note.
DSpawn(n, t, m) ==
    /\ Spawn(n, t)
    /\ m \in unused
    /\ note' = [note EXCEPT ![n] = m]
    /\ unused' = unused \ {m}
    /\ UNCHANGED <<log, sent, joined>>

\* Mutant of EndRound: the note is forgotten before it is recorded.
EndRoundLate(n) ==
    /\ NotifyNobody(n) \/ Unlock(n)
    /\ note' = [note EXCEPT ![n] = NoNote]
    /\ log' = [log EXCEPT ![job[n]] = Append(@, note'[n])]
    /\ UNCHANGED <<unused, sent, joined>>

\* A round is over: after the early return or the last write.
EndRound(n) ==
    /\ NotifyNobody(n) \/ Unlock(n)
    /\ log' = [log EXCEPT ![job[n]] = Append(@, note[n])]
    /\ note' = [note EXCEPT ![n] = NoNote]
    /\ UNCHANGED <<unused, sent, joined>>

DStartLoop(n) ==
    /\ NotifyRoomClient(n) \/ NotifyRoomsListClients(n)
    /\ UNCHANGED <<note, history>>

DWriteOk(n, c) ==
    /\ WriteOk(n, c)
    /\ sent' = [sent EXCEPT ![c] = Append(@, note[n])]
    /\ UNCHANGED <<note, unused, log, joined>>

DWriteErr(n, c) == WriteErr(n, c) /\ UNCHANGED <<note, history>>

DRegister(c) ==
    /\ Register(c)
    /\ joined' = [joined EXCEPT ![c] = Len(log[topic[c]])]
    /\ UNCHANGED <<note, unused, log, sent>>

DOther(c) ==
    /\ RejectDial(c) \/ Upgrade(c) \/ Unregister(c) \/ CloseConn(c) \/ Client(c)
    /\ UNCHANGED <<note, history>>

DNext ==
    \/ \E c \in Conns : DRegister(c) \/ DOther(c)
    \/ \E n \in Notifiers : DStartLoop(n) \/ EndRound(n)
    \/ \E n \in Notifiers, c \in Conns : DWriteOk(n, c) \/ DWriteErr(n, c)
    \/ \E n \in Notifiers, t \in Topics, m \in Notes : DSpawn(n, t, m)

DSpec == DInit /\ [][DNext]_dvars

-----------------------------------------------------------------------------
\* The note a round has already written to c but not yet finished.
Pending(c) ==
    LET rounds == {n \in Notifiers : /\ pc[n] = "writing"
                                     /\ job[n] = topic[c]
                                     /\ c \in subscribers[topic[c]] \ todo[n]}
    IN  IF rounds = {} THEN <<>> ELSE <<note[CHOOSE n \in rounds : TRUE]>>

\* What c should have been written so far.
Due(c) == SubSeq(log[topic[c]], joined[c] + 1, Len(log[topic[c]])) \o Pending(c)

\* A live subscriber has been written every note of its topic since it joined,
\* in the topic's order, once each: no gap, no duplicate, no note of another
\* topic, nothing from before it joined.
NothingMissed ==
    \A c \in Conns : at[c] = "subscribed" /\ ~cancelled[c] => sent[c] = Due(c)

\* Whatever became of a connection, what it was written is an unbroken run of
\* its topic's stream: losing the connection can only cut off the end.
NoGaps == \A c \in Conns : IsPrefix(sent[c], Due(c))

-----------------------------------------------------------------------------
(* What an invariant has to say besides, to be inductive.                   *)

\* A note is unsent, with one notifier, or in one place of one log.
NotesTravelOnce ==
    /\ \A n \in Notifiers : note[n] = NoNote <=> pc[n] = "idle"
    /\ \A n \in Notifiers : note[n] \notin unused
    /\ \A m, n \in Notifiers : note[m] = note[n] /\ note[m] # NoNote => m = n
    /\ \A t \in Topics : \A i \in 1..Len(log[t]) :
           log[t][i] \notin unused /\ \A n \in Notifiers : log[t][i] # note[n]

\* Nothing is written before a connection joins, and it joins a log that is there.
JoinsInOrder ==
    \A c \in Conns :
        /\ joined[c] <= Len(log[topic[c]])
        /\ at[c] \in {"dialing", "rejected", "upgraded"} =>
               sent[c] = <<>> /\ ~cancelled[c]

DeliveryInv ==
    /\ DTypeOK
    /\ HubInv
    /\ NotesTravelOnce
    /\ JoinsInOrder
    /\ NothingMissed
    /\ NoGaps

-----------------------------------------------------------------------------
(* The hub implements RoomBroadcast.  A note is published when its round    *)
(* ends, so a connection that has been written to in a round that is still  *)
(* going on has not officially got the note yet.                            *)
AbsState ==
    [c \in Conns |->
        CASE at[c] \in {"dialing", "rejected", "upgraded"} -> "out"
          [] at[c] = "subscribed" /\ ~cancelled[c] -> "in"
          [] at[c] = "subscribed" /\ cancelled[c] -> "broken"
          [] OTHER -> "left"]

AbsGot ==
    [c \in Conns |-> IF AbsState[c] = "in" /\ Pending(c) # <<>>
                     THEN SubSeq(sent[c], 1, Len(sent[c]) - 1) ELSE sent[c]]

Broadcast == INSTANCE RoomBroadcast
                 WITH state <- AbsState, stream <- log, got <- AbsGot

\* The detailed specification implements the abstract one.
ImplementsBroadcast == Broadcast!Spec
=============================================================================
