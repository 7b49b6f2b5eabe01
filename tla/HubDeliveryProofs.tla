-------------------------- MODULE HubDeliveryProofs --------------------------
(* What a connection is written is its topic's stream, for any number of     *)
(* connections, rooms, notifications and notes.                              *)
EXTENDS HubDelivery, WebSocketHubProofs, SequenceTheorems

-----------------------------------------------------------------------------
(* Sequences.                                                               *)

\* What follows position j of a log grows by the note the log grows by.
LEMMA DueGrows ==
  ASSUME NEW S, NEW s \in Seq(S), NEW m \in S, NEW j \in Nat, j <= Len(s)
  PROVE  SubSeq(Append(s, m), j + 1, Len(Append(s, m)))
            = SubSeq(s, j + 1, Len(s)) \o <<m>>
  <1> DEFINE a == SubSeq(Append(s, m), j + 1, Len(s) + 1)
             b == SubSeq(s, j + 1, Len(s))
  <1>1. Append(s, m) \in Seq(S) /\ Len(Append(s, m)) = Len(s) + 1 /\ Len(s) \in Nat
    OBVIOUS
  <1>2. a \in Seq(S) /\ Len(a) = Len(s) + 1 - j
        /\ \A i \in 1..Len(s) + 1 - j : a[i] = Append(s, m)[j + i]
    <2>1. \A i \in (j + 1)..(Len(s) + 1) : Append(s, m)[i] \in S
      OBVIOUS
    <2>2. \A i \in 1..Len(s) + 1 - j : (j + 1) + i - 1 = j + i
      OBVIOUS
    <2>3. (Len(s) + 1) - (j + 1) + 1 = Len(s) + 1 - j
      OBVIOUS
    <2> QED
      BY <1>1, <2>1, <2>2, <2>3, SubSeqProperties
  <1>3. b \in Seq(S) /\ Len(b) = Len(s) - j
        /\ \A i \in 1..Len(s) - j : b[i] = s[j + i]
    <2>1. \A i \in (j + 1)..Len(s) : s[i] \in S
      OBVIOUS
    <2> QED
      BY <1>1, <2>1, SubSeqProperties
  <1>4. b \o <<m>> \in Seq(S) /\ Len(b \o <<m>>) = Len(s) - j + 1
        /\ \A i \in 1..Len(s) - j + 1 :
              (b \o <<m>>)[i] = IF i <= Len(s) - j THEN s[j + i] ELSE m
    BY <1>1, <1>3
  <1>5. \A i \in 1..Len(a) : a[i] = (b \o <<m>>)[i]
    <2> TAKE i \in 1..Len(a)
    <2>1. i \in Nat /\ 1 <= i /\ i <= Len(s) + 1 - j
      BY <1>1, <1>2
    <2>2. a[i] = Append(s, m)[j + i]
      BY <1>1, <1>2, <2>1
    <2>3. Append(s, m)[j + i] = IF i <= Len(s) - j THEN s[j + i] ELSE m
      BY <1>1, <2>1
    <2>4. (b \o <<m>>)[i] = IF i <= Len(s) - j THEN s[j + i] ELSE m
      BY <1>1, <1>4, <2>1
    <2> QED
      BY <2>2, <2>3, <2>4
  <1> HIDE DEF a, b
  <1>6. Len(a) = Len(b \o <<m>>)
    BY <1>1, <1>2, <1>4
  <1>7. a = b \o <<m>>
    BY <1>2, <1>4, <1>5, <1>6, SeqEqual
  <1> QED
    BY <1>1, <1>7 DEF a, b

\* An append is taken back by dropping the last element.
LEMMA TakeBack ==
  ASSUME NEW S, NEW s \in Seq(S), NEW m \in S
  PROVE  /\ SubSeq(s \o <<m>>, 1, Len(s \o <<m>>) - 1) = s
         /\ s \o <<m>> = Append(s, m)
         /\ s \o <<m>> \in Seq(S)
  <1>1. s \o <<m>> = Append(s, m)
    OBVIOUS
  <1>2. Len(s \o <<m>>) - 1 = Len(s) /\ Len(s) \in Nat /\ s \o <<m>> \in Seq(S)
    OBVIOUS
  <1>3. SubSeq(s \o <<m>>, 1, Len(s)) \in Seq(S)
        /\ Len(SubSeq(s \o <<m>>, 1, Len(s))) = Len(s)
        /\ \A i \in 1..Len(s) : SubSeq(s \o <<m>>, 1, Len(s))[i] = s[i]
    <2>1. \A i \in 1..Len(s) : (s \o <<m>>)[i] = s[i] /\ s[i] \in S
      OBVIOUS
    <2> QED
      BY <1>2, <2>1, SubSeqProperties
  <1>4. SubSeq(s \o <<m>>, 1, Len(s)) = s
    BY <1>3, SeqEqual
  <1> QED
    BY <1>1, <1>2, <1>4

\* A prefix stays one when the longer sequence grows, and a sequence is one of
\* itself.
LEMMA PrefixGrows ==
  ASSUME NEW S, NEW s \in Seq(S), NEW t \in Seq(S), NEW m \in S, IsPrefix(s, t)
  PROVE  IsPrefix(s, t \o <<m>>)
  <1>1. Len(s) \in Nat /\ Len(t) \in Nat /\ Len(s) <= Len(t)
        /\ Len(t \o <<m>>) = Len(t) + 1
    BY DEF IsPrefix
  <1>2. SubSeq(t \o <<m>>, 1, Len(s)) = SubSeq(t, 1, Len(s))
    <2> DEFINE a == SubSeq(t \o <<m>>, 1, Len(s))
               b == SubSeq(t, 1, Len(s))
    <2>1. \A i \in 1..Len(s) : (t \o <<m>>)[i] = t[i] /\ t[i] \in S
      BY <1>1
    <2>2. a \in Seq(S) /\ Len(a) = Len(s) /\ \A i \in 1..Len(s) : a[i] = t[i]
      BY <1>1, <2>1, SubSeqProperties
    <2>3. b \in Seq(S) /\ Len(b) = Len(s) /\ \A i \in 1..Len(s) : b[i] = t[i]
      BY <1>1, <2>1, SubSeqProperties
    <2> HIDE DEF a, b
    <2>4. a = b
      BY <2>2, <2>3, SeqEqual
    <2> QED
      BY <2>4 DEF a, b
  <1> QED
    BY <1>1, <1>2 DEF IsPrefix

\* A sequence is a prefix of itself.
LEMMA PrefixOfItself ==
  ASSUME NEW S, NEW s \in Seq(S)
  PROVE  IsPrefix(s, s)
  BY DEF IsPrefix

\* The empty sequence is a prefix of every sequence.
LEMMA EmptyPrefix ==
  ASSUME NEW S, NEW s \in Seq(S)
  PROVE  IsPrefix(<<>>, s)
  <1>1. Len(<<>>) = 0 /\ Len(s) \in Nat
    OBVIOUS
  <1>2. SubSeq(<<>>, 1, 0) = <<>> /\ SubSeq(s, 1, 0) = <<>>
    BY SubSeqEmpty
  <1> QED
    BY <1>1, <1>2 DEF IsPrefix

-----------------------------------------------------------------------------
(* What a round in progress has written.                                    *)

\* The round of n has written its note to c and is not over.
Wrote(n, c) ==
    pc[n] = "writing" /\ job[n] = topic[c] /\ c \in subscribers[topic[c]] \ todo[n]

Live(c) == at[c] = "subscribed" /\ ~cancelled[c]

\* The part of its topic's log that a connection was in time for.
Heard(c) == SubSeq(log[topic[c]], joined[c] + 1, Len(log[topic[c]]))

\* Nothing is pending for a connection no round in progress has written to.
LEMMA NothingPending ==
  ASSUME NEW c \in Conns
  PROVE  /\ (\A n \in Notifiers : ~Wrote(n, c)) => Pending(c) = <<>>
         /\ (\A n \in Notifiers : ~Wrote(n, c)') => Pending(c)' = <<>>
  BY DEF Pending, Wrote

\* The only round that has written to a connection says what is pending.
LEMMA NotePending ==
  ASSUME NEW c \in Conns, NEW n \in Notifiers
  PROVE  /\ Wrote(n, c) /\ (\A m \in Notifiers : Wrote(m, c) => m = n)
                => Pending(c) = <<note[n]>>
         /\ Wrote(n, c)' /\ (\A m \in Notifiers : Wrote(m, c)' => m = n)
                => Pending(c)' = <<note'[n]>>
  <1>1. ASSUME Wrote(n, c), \A m \in Notifiers : Wrote(m, c) => m = n
        PROVE  Pending(c) = <<note[n]>>
    <2> DEFINE rounds == {m \in Notifiers : /\ pc[m] = "writing"
                                            /\ job[m] = topic[c]
                                            /\ c \in subscribers[topic[c]] \ todo[m]}
    <2>1. rounds = {n}
      BY <1>1 DEF Wrote
    <2>2. (CHOOSE m \in rounds : TRUE) = n
      BY <2>1
    <2> QED
      BY <2>1, <2>2 DEF Pending
  <1>2. ASSUME Wrote(n, c)', \A m \in Notifiers : Wrote(m, c)' => m = n
        PROVE  Pending(c)' = <<note'[n]>>
    <2> DEFINE rounds == {m \in Notifiers : /\ pc'[m] = "writing"
                                            /\ job'[m] = topic'[c]
                                            /\ c \in subscribers'[topic'[c]] \ todo'[m]}
    <2>1. rounds = {n}
      BY <1>2 DEF Wrote
    <2>2. (CHOOSE m \in rounds : TRUE) = n
      BY <2>1
    <2> QED
      BY <2>1, <2>2 DEF Pending
  <1> QED
    BY <1>1, <1>2

\* Nothing pending changes when no round begins, ends or writes to c.
LEMMA SamePending ==
  ASSUME NEW c \in Conns,
         \A n \in Notifiers : Wrote(n, c)' <=> Wrote(n, c),
         \A n \in Notifiers : Wrote(n, c) => note'[n] = note[n]
  PROVE  Pending(c)' = Pending(c)
  <1> DEFINE rounds == {m \in Notifiers : /\ pc[m] = "writing"
                                          /\ job[m] = topic[c]
                                          /\ c \in subscribers[topic[c]] \ todo[m]}
             after == {m \in Notifiers : /\ pc'[m] = "writing"
                                         /\ job'[m] = topic'[c]
                                         /\ c \in subscribers'[topic'[c]] \ todo'[m]}
  <1>1. after = rounds
    BY DEF Wrote
  <1>2. Pending(c) = IF rounds = {} THEN <<>> ELSE <<note[CHOOSE n \in rounds : TRUE]>>
    BY DEF Pending
  <1>3. Pending(c)' = IF after = {} THEN <<>> ELSE <<note'[CHOOSE n \in after : TRUE]>>
    BY DEF Pending
  <1>4. CASE rounds = {}
    BY <1>1, <1>2, <1>3, <1>4
  <1>5. CASE rounds # {}
    <2> DEFINE n == CHOOSE n \in rounds : TRUE
    <2>1. n \in rounds
      BY <1>5
    <2>2. n \in Notifiers /\ Wrote(n, c)
      BY <2>1 DEF Wrote
    <2>3. note'[n] = note[n]
      BY <2>2
    <2>4. (CHOOSE m \in after : TRUE) = n
      BY <1>1
    <2>5. Pending(c) = <<note[n]>>
      BY <1>2, <1>5
    <2>6. Pending(c)' = <<note'[n]>>
      BY <1>1, <1>3, <1>5, <2>4
    <2> QED
      BY <2>3, <2>5, <2>6
  <1> QED
    BY <1>4, <1>5

-----------------------------------------------------------------------------
(* What a step may do to one connection's share of the stream.              *)

Kept(c) == sent'[c] = sent[c] /\ Due(c)' = Due(c) /\ (Live(c)' => Live(c))

Passed(c) ==
    sent'[c] = sent[c] /\ ~Live(c)' /\ \E m \in Notes : Due(c)' = Due(c) \o <<m>>

Given(c) ==
    Live(c) /\ \E m \in Notes : /\ sent'[c] = sent[c] \o <<m>>
                                /\ Due(c)' = Due(c) \o <<m>>

Begun(c) == sent'[c] = <<>> /\ Due(c)' = <<>>

\* The pieces of Due, and that nothing is pending while the mutex is free.
LEMMA Pieces ==
  ASSUME DeliveryInv, NEW c \in Conns
  PROVE  /\ Heard(c) \in Seq(Notes)
         /\ Pending(c) \in Seq(Notes)
         /\ Due(c) = Heard(c) \o Pending(c)
         /\ Due(c) \in Seq(Notes)
  <1>1. Heard(c) \in Seq(Notes)
    <2>1. topic[c] \in Topics /\ log[topic[c]] \in Seq(Notes) /\ joined[c] \in Nat
      BY DEF DeliveryInv, DTypeOK, TypeOK
    <2> QED
      BY <2>1 DEF Heard
  <1>2. Pending(c) \in Seq(Notes)
    <2>1. CASE \A n \in Notifiers : ~Wrote(n, c)
      <3>1. Pending(c) = <<>>
        BY <2>1, NothingPending
      <3> QED
        BY <3>1
    <2>2. CASE \E n \in Notifiers : Wrote(n, c)
      <3>1. PICK n \in Notifiers : Wrote(n, c)
        BY <2>2
      <3>2. \A m \in Notifiers : Wrote(m, c) => m = n
        BY <3>1 DEF DeliveryInv, HubInv, OneWriterAtATime, Wrote
      <3>3. note[n] \in Notes
        BY <3>1 DEF Wrote, DeliveryInv, DTypeOK, NotesTravelOnce
      <3>4. Pending(c) = <<note[n]>>
        BY <3>1, <3>2, NotePending
      <3> QED
        BY <3>3, <3>4
    <2> QED
      BY <2>1, <2>2
  <1>3. Due(c) = Heard(c) \o Pending(c)
    BY DEF Due, Heard
  <1> QED
    BY <1>1, <1>2, <1>3

\* While the mutex is free no round is in progress.
LEMMA FreeMutex ==
  ASSUME HubInv, ~locked, NEW c \in Conns, NEW n \in Notifiers
  PROVE  ~Wrote(n, c)
  BY DEF HubInv, OneWriterAtATime, Wrote

\* While a round is in its loop it is the only one.
LEMMA OneRound ==
  ASSUME HubInv, NEW n \in Notifiers, pc[n] = "writing", NEW c \in Conns,
         NEW m \in Notifiers, Wrote(m, c)
  PROVE  m = n
  BY DEF HubInv, OneWriterAtATime, Wrote

\* A step that leaves the rounds, the logs and the writes alone changes nobody's
\* share.
LEMMA SameShare ==
  ASSUME NEW c \in Conns, Pending(c)' = Pending(c),
         UNCHANGED <<topic, log, sent>>, joined'[c] = joined[c], Live(c)' => Live(c)
  PROVE  Kept(c)
  BY DEF Kept, Due

\* Joining starts a connection's share at the end of the log.
LEMMA RegisterShares ==
  ASSUME DeliveryInv, NEW r \in Conns, DRegister(r), NEW c \in Conns
  PROVE  Kept(c) \/ Begun(c)
  <1> USE DEF DeliveryInv, DRegister, Register, notifierVars
  <1>1. Pending(c) = <<>> /\ Pending(c)' = <<>>
    <2>1. \A n \in Notifiers : ~Wrote(n, c)
      BY FreeMutex
    <2>2. \A n \in Notifiers : ~Wrote(n, c)'
      BY DEF Wrote, HubInv, OneWriterAtATime
    <2> QED
      BY <2>1, <2>2, NothingPending
  <1>2. CASE c = r
    <2>1. joined'[c] = Len(log[topic[c]]) /\ log[topic[c]] \in Seq(Notes)
      BY <1>2 DEF DTypeOK, TypeOK
    <2>2. Heard(c)' = <<>>
      BY <2>1, SubSeqEmpty DEF Heard
    <2>3. Due(c)' = <<>>
      BY <1>1, <2>2 DEF Due, Heard
    <2>4. sent'[c] = <<>>
      BY <1>2 DEF JoinsInOrder
    <2> QED
      BY <2>3, <2>4 DEF Begun
  <1>3. CASE c # r
    <2>1. joined'[c] = joined[c] /\ (Live(c)' => Live(c))
      BY <1>3 DEF DTypeOK, TypeOK, Live
    <2> QED
      BY <1>1, <2>1, SameShare
  <1> QED
    BY <1>2, <1>3

\* What handlers and clients do besides changes nobody's share.
LEMMA OtherShares ==
  ASSUME DeliveryInv, NEW r \in Conns, DOther(r), NEW c \in Conns
  PROVE  Kept(c)
  <1> USE DEF DOther, history
  <1>1. UNCHANGED <<topic, note, log, sent, joined, pc, job, todo>>
    BY DEF RejectDial, Upgrade, Unregister, CloseConn, Client, Stall, Resume,
       Disconnect, handlerVars, notifierVars
  <1>2. Live(c)' => Live(c)
    BY DEF DeliveryInv, HubInv, TypeOK, Live, RejectDial, Upgrade, Unregister,
       CloseConn, Client, Stall, Resume, Disconnect, handlerVars, notifierVars
  <1>3. Pending(c)' = Pending(c)
    <2>1. CASE Unregister(r)
      <3>1. \A n \in Notifiers : ~Wrote(n, c)
        BY <2>1, FreeMutex DEF Unregister, DeliveryInv
      <3>2. \A n \in Notifiers : ~Wrote(n, c)'
        BY <1>1, <2>1 DEF Wrote, Unregister, DeliveryInv, HubInv, OneWriterAtATime
      <3> QED
        BY <3>1, <3>2, NothingPending
    <2>2. CASE ~Unregister(r)
      <3>1. subscribers' = subscribers
        BY <2>2 DEF RejectDial, Upgrade, CloseConn, Client, Stall, Resume, Disconnect
      <3> QED
        BY <1>1, <3>1, SamePending DEF Wrote
    <2> QED
      BY <2>1, <2>2
  <1> QED
    BY <1>1, <1>2, <1>3, SameShare

\* A new goroutine has written nothing.
LEMMA SpawnShares ==
  ASSUME DeliveryInv, NEW n \in Notifiers, NEW t \in Topics, NEW m \in Notes,
         DSpawn(n, t, m), NEW c \in Conns
  PROVE  Kept(c)
  <1> USE DEF DSpawn, Spawn, handlerVars
  <1>1. \A k \in Notifiers : /\ Wrote(k, c)' <=> Wrote(k, c)
                             /\ Wrote(k, c) => note'[k] = note[k]
    BY DEF Wrote, DeliveryInv, DTypeOK, TypeOK
  <1>2. Pending(c)' = Pending(c)
    BY <1>1, SamePending
  <1> QED
    BY <1>2, SameShare DEF Live

\* Nor has a round that takes the mutex.
LEMMA StartShares ==
  ASSUME DeliveryInv, NEW n \in Notifiers, DStartLoop(n), NEW c \in Conns
  PROVE  Kept(c)
  <1>1. StartLoop(n) /\ UNCHANGED <<note, history>>
    BY DEF DStartLoop, NotifyRoomClient, NotifyRoomsListClients
  <1> USE <1>1 DEF StartLoop, handlerVars, history
  <1>2. \A k \in Notifiers : ~Wrote(k, c)
    BY FreeMutex DEF DeliveryInv
  <1>3. \A k \in Notifiers : ~Wrote(k, c)'
    BY <1>2 DEF Wrote, DeliveryInv, DTypeOK, TypeOK, HubInv, OneWriterAtATime
  <1>4. Pending(c)' = Pending(c)
    BY <1>2, <1>3, NothingPending
  <1> QED
    BY <1>4, SameShare DEF Live

\* A write to c, whatever its result, moves c's share by the note of the round,
\* and nobody else's.
LEMMA WriteMoves ==
  ASSUME DeliveryInv, NEW n \in Notifiers, NEW r \in Conns,
         pc[n] = "writing", r \in todo[n],
         todo' = [todo EXCEPT ![n] = @ \ {r}],
         UNCHANGED <<subscribers, at, topic, pc, job, note, log, joined>>,
         NEW c \in Conns
  PROVE  /\ note[n] \in Notes
         /\ c = r => Due(c)' = Due(c) \o <<note[n]>>
         /\ c # r => Pending(c)' = Pending(c)
  <1>1. note[n] \in Notes
    BY DEF DeliveryInv, DTypeOK, NotesTravelOnce
  <1>2. \A m \in Notifiers : /\ todo'[m] = IF m = n THEN todo[m] \ {r} ELSE todo[m]
                             /\ pc'[m] = pc[m] /\ job'[m] = job[m]
    BY DEF DeliveryInv, DTypeOK, TypeOK
  <1>3. ASSUME c = r PROVE Due(c)' = Due(c) \o <<note[n]>>
    <2>1. \A m \in Notifiers : ~Wrote(m, c)
      BY <1>3, OneRound DEF DeliveryInv, Wrote
    <2>2. Pending(c) = <<>>
      BY <2>1, NothingPending
    <2>3. at[c] = "subscribed" /\ topic[c] = job[n]
      BY <1>3 DEF DeliveryInv, HubInv, NoWriteAfterLeave
    <2>4. c \in subscribers[topic[c]]
      BY <2>3 DEF DeliveryInv, HubInv, TypeOK, RegisteredWhileServed
    <2>5. Wrote(n, c)'
      BY <1>2, <1>3, <2>3, <2>4 DEF Wrote
    <2>6. \A m \in Notifiers : Wrote(m, c)' => m = n
      BY <1>2 DEF Wrote, DeliveryInv, HubInv, OneWriterAtATime
    <2>7. Pending(c)' = <<note[n]>>
      BY <2>5, <2>6, NotePending
    <2>8. Heard(c)' = Heard(c) /\ Heard(c) \in Seq(Notes)
      BY Pieces DEF Heard
    <2>9. Due(c) = Heard(c)
      BY <2>2, <2>8 DEF Due, Heard
    <2>10. Due(c)' = Heard(c)' \o Pending(c)'
      BY DEF Due, Heard
    <2> QED
      BY <2>7, <2>8, <2>9, <2>10
  <1>4. ASSUME c # r PROVE Pending(c)' = Pending(c)
    <2>1. \A m \in Notifiers : Wrote(m, c)' <=> Wrote(m, c)
      BY <1>2, <1>4 DEF Wrote
    <2> QED
      BY <2>1, SamePending
  <1> QED
    BY <1>1, <1>3, <1>4

\* A write that succeeds gives a live subscriber the note.
LEMMA WriteOkShares ==
  ASSUME DeliveryInv, NEW n \in Notifiers, NEW r \in Conns, DWriteOk(n, r),
         NEW c \in Conns
  PROVE  Kept(c) \/ Given(c)
  <1> USE DEF DWriteOk, WriteOk, handlerVars
  <1>1. /\ note[n] \in Notes
        /\ c = r => Due(c)' = Due(c) \o <<note[n]>>
        /\ c # r => Pending(c)' = Pending(c)
    BY WriteMoves
  <1>2. CASE c = r
    <2>1. sent[c] \in Seq(Notes) /\ sent'[c] = Append(sent[c], note[n])
      BY <1>2 DEF DeliveryInv, DTypeOK
    <2>2. sent'[c] = sent[c] \o <<note[n]>>
      BY <1>1, <2>1, TakeBack
    <2>3. Live(c)
      BY <1>2 DEF Live, DeliveryInv, HubInv, NoWriteAfterLeave
    <2> QED
      BY <1>1, <1>2, <2>2, <2>3 DEF Given
  <1>3. CASE c # r
    <2>1. sent'[c] = sent[c]
      BY <1>3 DEF DeliveryInv, DTypeOK
    <2>2. Due(c)' = Due(c)
      BY <1>1, <1>3 DEF Due
    <2> QED
      BY <2>1, <2>2 DEF Kept, Live
  <1> QED
    BY <1>2, <1>3

\* A write that fails passes the subscriber by, and ends it.
LEMMA WriteErrShares ==
  ASSUME DeliveryInv, NEW n \in Notifiers, NEW r \in Conns, DWriteErr(n, r),
         NEW c \in Conns
  PROVE  Kept(c) \/ Passed(c)
  <1> USE DEF DWriteErr, WriteErr, history
  <1>1. /\ note[n] \in Notes
        /\ c = r => Due(c)' = Due(c) \o <<note[n]>>
        /\ c # r => Pending(c)' = Pending(c)
    BY WriteMoves
  <1>2. CASE c = r
    <2>1. ~Live(c)'
      BY <1>2 DEF Live, DeliveryInv, DTypeOK, TypeOK
    <2> QED
      BY <1>1, <1>2, <2>1 DEF Passed
  <1>3. CASE c # r
    <2>1. Live(c)' => Live(c)
      BY <1>3 DEF Live, DeliveryInv, DTypeOK, TypeOK
    <2> QED
      BY <1>1, <1>3, <2>1, SameShare
  <1> QED
    BY <1>2, <1>3

\* The end of a round takes its note into the log.
LEMMA LogGrows ==
  ASSUME DeliveryInv, NEW n \in Notifiers, EndRound(n)
  PROVE  /\ note[n] \in Notes /\ job[n] \in Topics
         /\ \A t \in Topics : log'[t] = IF t = job[n] THEN Append(log[t], note[n])
                                        ELSE log[t]
         /\ \A c \in Conns : Heard(c)' = IF topic[c] = job[n]
                                         THEN Heard(c) \o <<note[n]>> ELSE Heard(c)
  <1>1. pc[n] # "idle" /\ UNCHANGED <<topic, joined>>
    BY DEF EndRound, NotifyNobody, Unlock, handlerVars
  <1>2. note[n] \in Notes /\ job[n] \in Topics
    BY <1>1 DEF DeliveryInv, DTypeOK, TypeOK, HubInv, NotesTravelOnce
  <1>3. \A t \in Topics : log'[t] = IF t = job[n] THEN Append(log[t], note[n])
                                    ELSE log[t]
    BY <1>2 DEF EndRound, DeliveryInv, DTypeOK
  <1>4. ASSUME NEW c \in Conns
        PROVE  Heard(c)' = IF topic[c] = job[n] THEN Heard(c) \o <<note[n]>>
                           ELSE Heard(c)
    <2>1. /\ topic[c] \in Topics /\ joined[c] \in Nat /\ log[topic[c]] \in Seq(Notes)
          /\ joined[c] <= Len(log[topic[c]])
      BY DEF DeliveryInv, DTypeOK, TypeOK, JoinsInOrder
    <2>2. CASE topic[c] = job[n]
      <3>1. log'[topic[c]] = Append(log[topic[c]], note[n])
        BY <1>3, <2>1, <2>2
      <3> QED
        BY <1>1, <1>2, <2>1, <2>2, <3>1, DueGrows DEF Heard
    <2>3. CASE topic[c] # job[n]
      BY <1>1, <1>3, <2>1, <2>3 DEF Heard
    <2> QED
      BY <2>2, <2>3
  <1> QED
    BY <1>2, <1>3, <1>4

\* The end of a round: its subscribers have been served, whoever is not one is
\* passed by.
LEMMA EndShares ==
  ASSUME DeliveryInv, NEW n \in Notifiers, EndRound(n), NEW c \in Conns
  PROVE  Kept(c) \/ Passed(c)
  <1>1. UNCHANGED <<subscribers, at, topic, cancelled, sent, joined, todo>>
    BY DEF EndRound, NotifyNobody, Unlock, handlerVars
  <1>2. \A m \in Notifiers : ~Wrote(m, c)'
    <2>1. \A m \in Notifiers : m # n => pc[m] # "writing"
      BY DEF EndRound, NotifyNobody, Unlock, DeliveryInv, HubInv, OneWriterAtATime
    <2> QED
      BY <2>1 DEF EndRound, NotifyNobody, Unlock, Return, DeliveryInv, DTypeOK, TypeOK,
         Wrote
  <1>3. Pending(c)' = <<>>
    BY <1>2, NothingPending
  <1>4. /\ Heard(c) \in Seq(Notes) /\ Due(c) = Heard(c) \o Pending(c)
        /\ note[n] \in Notes /\ job[n] \in Topics
        /\ Heard(c)' = IF topic[c] = job[n] THEN Heard(c) \o <<note[n]>> ELSE Heard(c)
    BY Pieces, LogGrows
  <1>5. Due(c)' = Heard(c)'
    <2>1. Heard(c)' \in Seq(Notes)
      BY <1>4
    <2>2. Due(c)' = Heard(c)' \o Pending(c)'
      BY DEF Due, Heard
    <2> QED
      BY <1>3, <2>1, <2>2
  <1>6. CASE topic[c] = job[n] /\ at[c] = "subscribed"
    <2>1. c \in subscribers[topic[c]]
      BY <1>6 DEF DeliveryInv, HubInv, TypeOK, RegisteredWhileServed
    <2>2. Unlock(n)
      BY <1>6, <2>1 DEF EndRound, NotifyNobody
    <2>3. Wrote(n, c)
      BY <1>6, <2>1, <2>2 DEF Unlock, Wrote
    <2>4. Pending(c) = <<note[n]>>
      BY <2>2, <2>3, OneRound, NotePending DEF Unlock, DeliveryInv
    <2> QED
      BY <1>1, <1>4, <1>5, <1>6, <2>4 DEF Kept, Live
  <1>7. CASE topic[c] = job[n] /\ at[c] # "subscribed"
    <2>1. \A m \in Notifiers : ~Wrote(m, c)
      BY <1>7 DEF Wrote, DeliveryInv, HubInv, TypeOK, RegisteredWhileServed
    <2>2. Pending(c) = <<>>
      BY <2>1, NothingPending
    <2>3. Due(c) = Heard(c)
      BY <1>4, <2>2
    <2>4. Due(c)' = Due(c) \o <<note[n]>>
      BY <1>4, <1>5, <1>7, <2>3
    <2> QED
      BY <1>1, <1>4, <1>7, <2>4 DEF Passed, Live
  <1>8. CASE topic[c] # job[n]
    <2>1. \A m \in Notifiers : ~Wrote(m, c)
      BY <1>8 DEF Wrote, EndRound, NotifyNobody, Unlock, DeliveryInv, HubInv,
         OneWriterAtATime
    <2>2. Pending(c) = <<>>
      BY <2>1, NothingPending
    <2>3. Due(c) = Heard(c)
      BY <1>4, <2>2
    <2> QED
      BY <1>1, <1>4, <1>5, <1>8, <2>3 DEF Kept, Live
  <1> QED
    BY <1>6, <1>7, <1>8

\* Every step does one of the four things to a connection's share.
LEMMA AllShares ==
  ASSUME DeliveryInv, DNext, NEW c \in Conns
  PROVE  Kept(c) \/ Passed(c) \/ Given(c) \/ Begun(c)
  BY RegisterShares, OtherShares, SpawnShares, StartShares, WriteOkShares,
     WriteErrShares, EndShares DEF DNext

\* Each of which keeps what was written in step with what was due.
LEMMA SharesAgree ==
  ASSUME DeliveryInv, DNext, NEW c \in Conns
  PROVE  /\ Live(c)' => sent'[c] = Due(c)'
         /\ IsPrefix(sent'[c], Due(c)')
  <1>1. /\ sent[c] \in Seq(Notes) /\ Due(c) \in Seq(Notes)
        /\ Live(c) => sent[c] = Due(c)
        /\ IsPrefix(sent[c], Due(c))
    BY Pieces DEF DeliveryInv, DTypeOK, NothingMissed, NoGaps, Live
  <1>2. CASE Kept(c)
    BY <1>1, <1>2 DEF Kept
  <1>3. CASE Passed(c)
    BY <1>1, <1>3, PrefixGrows DEF Passed
  <1>4. CASE Given(c)
    <2>1. PICK m \in Notes : sent'[c] = sent[c] \o <<m>> /\ Due(c)' = Due(c) \o <<m>>
      BY <1>4 DEF Given
    <2>2. sent[c] = Due(c)
      BY <1>1, <1>4 DEF Given
    <2>3. sent'[c] = Due(c)'
      BY <2>1, <2>2
    <2>4. sent'[c] \in Seq(Notes)
      BY <1>1, <2>1
    <2>5. IsPrefix(sent'[c], sent'[c])
      BY <2>4, PrefixOfItself
    <2> QED
      BY <2>3, <2>5
  <1>5. CASE Begun(c)
    <2>1. IsPrefix(<<>>, <<>>)
      BY DEF IsPrefix
    <2> QED
      BY <1>5, <2>1 DEF Begun
  <1> QED
    BY <1>2, <1>3, <1>4, <1>5, AllShares

-----------------------------------------------------------------------------
(* DeliveryInv is inductive.                                                *)

\* A step of the hub with notes is a step of the hub.
LEMMA HubMoves ==
  ASSUME TypeOK, DNext
  PROVE  Next
  <1>1. ASSUME NEW c \in Conns, DRegister(c) \/ DOther(c) PROVE Next
    <2>1. topic[c] \in RoomKeys \/ topic[c] = RoomsList
      BY DEF TypeOK, Topics
    <2> QED
      BY <1>1, <2>1 DEF DRegister, DOther, Next, Handler, SubscribeToRoom,
         SubscribeToRoomsList
  <1>2. ASSUME NEW n \in Notifiers, DStartLoop(n) \/ EndRound(n) PROVE Next
    BY <1>2 DEF DStartLoop, EndRound, Next, Notifier, Acquire
  <1>3. ASSUME NEW n \in Notifiers, NEW c \in Conns, DWriteOk(n, c) \/ DWriteErr(n, c)
        PROVE  Next
    BY <1>3 DEF DWriteOk, DWriteErr, Next, Notifier, Write
  <1>4. ASSUME NEW n \in Notifiers, NEW t \in Topics, NEW m \in Notes, DSpawn(n, t, m)
        PROVE  Next
    BY <1>4 DEF DSpawn, Next
  <1> QED
    BY <1>1, <1>2, <1>3, <1>4 DEF DNext

\* The history variables keep their types.
LEMMA DTypesKept ==
  ASSUME DeliveryInv, DNext, TypeOK'
  PROVE  DTypeOK'
  <1> USE DEF DTypeOK
  <1>1. ASSUME NEW r \in Conns, DRegister(r) PROVE DTypeOK'
    <2>1. Len(log[topic[r]]) \in Nat
      BY DEF DeliveryInv, TypeOK
    <2> QED
      BY <1>1, <2>1 DEF DRegister, DeliveryInv
  <1>2. ASSUME NEW r \in Conns, DOther(r) PROVE DTypeOK'
    BY <1>2 DEF DOther, DeliveryInv, history
  <1>3. ASSUME NEW n \in Notifiers, NEW t \in Topics, NEW m \in Notes, DSpawn(n, t, m)
        PROVE  DTypeOK'
    BY <1>3 DEF DSpawn, DeliveryInv
  <1>4. ASSUME NEW n \in Notifiers, DStartLoop(n) PROVE DTypeOK'
    BY <1>4 DEF DStartLoop, DeliveryInv, history
  <1>5. ASSUME NEW n \in Notifiers, NEW r \in Conns, DWriteOk(n, r) PROVE DTypeOK'
    <2>1. note[n] \in Notes
      BY <1>5 DEF DWriteOk, WriteOk, DeliveryInv, NotesTravelOnce
    <2> QED
      BY <1>5, <2>1 DEF DWriteOk, DeliveryInv
  <1>6. ASSUME NEW n \in Notifiers, NEW r \in Conns, DWriteErr(n, r) PROVE DTypeOK'
    BY <1>6 DEF DWriteErr, DeliveryInv, history
  <1>7. ASSUME NEW n \in Notifiers, EndRound(n) PROVE DTypeOK'
    <2>1. /\ note[n] \in Notes /\ job[n] \in Topics
          /\ \A t \in Topics : log'[t] = IF t = job[n] THEN Append(log[t], note[n])
                                         ELSE log[t]
      BY <1>7, LogGrows
    <2>2. ASSUME NEW t \in Topics PROVE log'[t] \in Seq(Notes)
      <3>1. log[t] \in Seq(Notes)
        BY DEF DeliveryInv
      <3>2. Append(log[t], note[n]) \in Seq(Notes)
        BY <2>1, <3>1
      <3> QED
        BY <2>1, <3>1, <3>2
    <2>3. log' = [t \in Topics |-> log'[t]]
      BY <1>7 DEF EndRound, DeliveryInv
    <2>4. log' \in [Topics -> Seq(Notes)]
      BY <2>2, <2>3
    <2> QED
      BY <1>7, <2>4 DEF EndRound, DeliveryInv
  <1> QED
    BY <1>1, <1>2, <1>3, <1>4, <1>5, <1>6, <1>7 DEF DNext

\* A note goes from unsent to one notifier and from there to one log.
LEMMA NotesTravelOn ==
  ASSUME DeliveryInv, DNext, DTypeOK'
  PROVE  NotesTravelOnce'
  <1> USE DeliveryAssumption DEF DeliveryInv, DTypeOK, TypeOK, NotesTravelOnce
  <1>1. ASSUME UNCHANGED <<note, unused, log>>,
               \A n \in Notifiers : pc'[n] = "idle" <=> pc[n] = "idle"
        PROVE  NotesTravelOnce'
    BY <1>1
  <1>2. ASSUME NEW r \in Conns, DRegister(r) \/ DOther(r) PROVE NotesTravelOnce'
    BY <1>1, <1>2 DEF DRegister, Register, DOther, RejectDial, Upgrade, Unregister,
       CloseConn, Client, Stall, Resume, Disconnect, notifierVars, history
  <1>3. ASSUME NEW n \in Notifiers, NEW t \in Topics, NEW m \in Notes, DSpawn(n, t, m)
        PROVE  NotesTravelOnce'
    <2>1. \A k \in Notifiers : note'[k] = IF k = n THEN m ELSE note[k]
      BY <1>3 DEF DSpawn
    <2>2. unused' = unused \ {m} /\ m \in unused /\ log' = log
      BY <1>3 DEF DSpawn
    <2>3. \A k \in Notifiers : pc'[k] = IF k = n THEN "locking" ELSE pc[k]
      BY <1>3 DEF DSpawn, Spawn
    <2>4. \A u \in Topics : \A i \in 1..Len(log[u]) : log[u][i] # m
      BY <2>2
    <2>5. m # NoNote /\ pc[n] = "idle" /\ \A k \in Notifiers : note[k] # m
      BY <1>3, <2>2 DEF DSpawn, Spawn
    <2>6. \A k \in Notifiers : note'[k] = NoNote <=> pc'[k] = "idle"
      BY <2>1, <2>3, <2>5
    <2>7. \A k \in Notifiers : note'[k] \notin unused'
      BY <2>1, <2>2
    <2>8. \A k, l \in Notifiers : note'[k] = note'[l] /\ note'[k] # NoNote => k = l
      <3> SUFFICES ASSUME NEW k \in Notifiers, NEW l \in Notifiers,
                          note'[k] = note'[l], note'[k] # NoNote
                   PROVE  k = l
        OBVIOUS
      <3>1. CASE k # n /\ l # n
        BY <2>1, <3>1
      <3> QED
        BY <2>1, <2>5, <3>1
    <2>9. ASSUME NEW u \in Topics, NEW i \in 1..Len(log'[u])
          PROVE  log'[u][i] \notin unused' /\ \A k \in Notifiers : log'[u][i] # note'[k]
      <3>1. log[u][i] \notin unused /\ (\A k \in Notifiers : log[u][i] # note[k])
            /\ log'[u][i] = log[u][i] /\ log[u][i] # m
        BY <2>2, <2>4
      <3> QED
        BY <2>1, <2>2, <3>1
    <2> QED
      BY <2>6, <2>7, <2>8, <2>9
  <1>4. ASSUME NEW n \in Notifiers, DStartLoop(n) PROVE NotesTravelOnce'
    <2>1. \A k \in Notifiers : pc'[k] = "idle" <=> pc[k] = "idle"
      BY <1>4 DEF DStartLoop, NotifyRoomClient, NotifyRoomsListClients, StartLoop
    <2> QED
      BY <1>1, <1>4, <2>1 DEF DStartLoop, history
  <1>5. ASSUME NEW n \in Notifiers, NEW r \in Conns, DWriteOk(n, r) \/ DWriteErr(n, r)
        PROVE  NotesTravelOnce'
    BY <1>1, <1>5 DEF DWriteOk, DWriteErr, WriteOk, WriteErr, history
  <1>6. ASSUME NEW n \in Notifiers, EndRound(n) PROVE NotesTravelOnce'
    <2>1. /\ note[n] \in Notes /\ job[n] \in Topics
          /\ \A t \in Topics : log'[t] = IF t = job[n] THEN Append(log[t], note[n])
                                         ELSE log[t]
      BY <1>6, LogGrows
    <2>2. \A k \in Notifiers : /\ note'[k] = IF k = n THEN NoNote ELSE note[k]
                               /\ pc'[k] = IF k = n THEN "idle" ELSE pc[k]
      BY <1>6 DEF EndRound, NotifyNobody, Unlock, Return
    <2>3. unused' = unused
      BY <1>6 DEF EndRound
    <2>4. ASSUME NEW t \in Topics, NEW i \in 1..Len(log'[t])
          PROVE  /\ log'[t][i] \in Notes \ unused
                 /\ \A k \in Notifiers : log'[t][i] # note'[k]
      <3>1. CASE t = job[n] /\ i = Len(log[t]) + 1
        <4>1. log'[t][i] = note[n]
          BY <2>1, <3>1
        <4>2. note[n] \notin unused /\ note[n] # NoNote
          BY <2>1
        <4>3. \A k \in Notifiers : note'[k] # note[n]
          BY <2>2, <4>2
        <4> QED
          BY <2>1, <4>1, <4>2, <4>3
      <3>2. CASE ~(t = job[n] /\ i = Len(log[t]) + 1)
        <4>1. i \in 1..Len(log[t]) /\ log'[t][i] = log[t][i] /\ log[t][i] \in Notes
          BY <2>1, <3>2
        <4>2. log[t][i] \notin unused /\ \A k \in Notifiers : log[t][i] # note[k]
          BY <4>1
        <4>3. log[t][i] # NoNote
          BY <4>1
        <4> QED
          BY <2>2, <4>1, <4>2, <4>3
      <3> QED
        BY <3>1, <3>2
    <2>5. \A k \in Notifiers : note'[k] \notin unused'
      BY <2>2, <2>3
    <2>6. \A k \in Notifiers : note'[k] = NoNote <=> pc'[k] = "idle"
      BY <2>1, <2>2
    <2>7. \A k, m \in Notifiers : note'[k] = note'[m] /\ note'[k] # NoNote => k = m
      BY <2>2
    <2> QED
      BY <2>3, <2>4, <2>5, <2>6, <2>7
  <1> QED
    BY <1>2, <1>3, <1>4, <1>5, <1>6 DEF DNext

\* Logs only grow, and nothing is written before a connection joins.
LEMMA JoinsKeepOrder ==
  ASSUME DeliveryInv, DNext, DTypeOK'
  PROVE  JoinsInOrder'
  <1> USE DEF DeliveryInv, DTypeOK, TypeOK, JoinsInOrder
  <1> DEFINE Before == {"dialing", "rejected", "upgraded"}
  <1>1. ASSUME NEW r \in Conns, DRegister(r) PROVE JoinsInOrder'
    <2>1. \A c \in Conns : /\ joined'[c] = IF c = r THEN Len(log[topic[c]]) ELSE joined[c]
                           /\ at'[c] = IF c = r THEN "subscribed" ELSE at[c]
      BY <1>1 DEF DRegister, Register
    <2>2. UNCHANGED <<topic, cancelled, log, sent>>
      BY <1>1 DEF DRegister, Register
    <2>3. \A c \in Conns : Len(log[topic[c]]) \in Nat
      OBVIOUS
    <2> QED
      BY <2>1, <2>2, <2>3
  <1>2. ASSUME NEW r \in Conns, DOther(r) PROVE JoinsInOrder'
    <2>1. UNCHANGED <<topic, cancelled, log, sent, joined>>
      BY <1>2 DEF DOther, RejectDial, Upgrade, Unregister, CloseConn, Client, Stall,
         Resume, Disconnect, handlerVars, history
    <2>2. \A c \in Conns : at'[c] \in Before => at[c] \in Before
      <3> HIDE DEF JoinsInOrder, DeliveryInv
      <3>1. at \in [Conns -> {"dialing", "rejected", "upgraded", "subscribed",
                              "unsubscribed", "closed"}]
        BY DEF DeliveryInv
      <3> QED
        BY <1>2, <3>1 DEF DOther, RejectDial, Upgrade, Unregister, CloseConn, Client,
           Stall, Resume, Disconnect, handlerVars
    <2> QED
      BY <2>1, <2>2
  <1>3. ASSUME NEW n \in Notifiers, NEW t \in Topics, NEW m \in Notes, DSpawn(n, t, m)
        PROVE  JoinsInOrder'
    BY <1>3 DEF DSpawn, Spawn, handlerVars
  <1>4. ASSUME NEW n \in Notifiers, DStartLoop(n) PROVE JoinsInOrder'
    BY <1>4 DEF DStartLoop, NotifyRoomClient, NotifyRoomsListClients, StartLoop,
       handlerVars, history
  <1>5. ASSUME NEW n \in Notifiers, NEW r \in Conns, DWriteOk(n, r) PROVE JoinsInOrder'
    <2>1. at[r] = "subscribed"
      BY <1>5 DEF DWriteOk, WriteOk, HubInv, NoWriteAfterLeave
    <2>2. UNCHANGED <<at, topic, cancelled, log, joined>>
          /\ \A c \in Conns : c # r => sent'[c] = sent[c]
      BY <1>5 DEF DWriteOk, WriteOk, handlerVars
    <2> QED
      BY <2>1, <2>2
  <1>6. ASSUME NEW n \in Notifiers, NEW r \in Conns, DWriteErr(n, r) PROVE JoinsInOrder'
    <2>1. at[r] = "subscribed"
      BY <1>6 DEF DWriteErr, WriteErr, HubInv, NoWriteAfterLeave
    <2>2. UNCHANGED <<at, topic, log, sent, joined>>
          /\ \A c \in Conns : c # r => cancelled'[c] = cancelled[c]
      BY <1>6 DEF DWriteErr, WriteErr, history
    <2> QED
      BY <2>1, <2>2
  <1>7. ASSUME NEW n \in Notifiers, EndRound(n) PROVE JoinsInOrder'
    <2>1. UNCHANGED <<at, topic, cancelled, sent, joined>>
      BY <1>7 DEF EndRound, NotifyNobody, Unlock, handlerVars
    <2>2. \A t \in Topics : log'[t] = IF t = job[n] THEN Append(log[t], note[n])
                                      ELSE log[t]
      BY <1>7, LogGrows
    <2>3. ASSUME NEW t \in Topics
          PROVE  Len(log'[t]) \in Nat /\ Len(log'[t]) >= Len(log[t])
      <3>1. log[t] \in Seq(Notes) /\ Len(log[t]) \in Nat
        OBVIOUS
      <3>2. Len(Append(log[t], note[n])) = Len(log[t]) + 1
        BY <3>1
      <3>3. CASE t = job[n]
        <4>1. log'[t] = Append(log[t], note[n])
          BY <2>2, <3>3
        <4>2. Len(log'[t]) = Len(log[t]) + 1
          BY <3>2, <4>1
        <4> HIDE DEF DTypeOK
        <4> QED
          BY <3>1, <4>2
      <3>4. CASE t # job[n]
        <4>1. log'[t] = log[t]
          BY <2>2, <3>4
        <4> QED
          BY <3>1, <4>1
      <3> QED
        BY <3>3, <3>4
    <2> QED
      BY <2>1, <2>3
  <1> QED
    BY <1>1, <1>2, <1>3, <1>4, <1>5, <1>6, <1>7 DEF DNext

\* DeliveryInv holds initially: nobody has joined and nothing has been sent.
LEMMA DeliveryInit == DInit => DeliveryInv
  <1> SUFFICES ASSUME DInit PROVE DeliveryInv
    OBVIOUS
  <1>1. HubInv /\ TypeOK
    BY HubInit DEF DInit, HubInv
  <1>2. DTypeOK
    <2>1. <<>> \in Seq(Notes) /\ 0 \in Nat
      OBVIOUS
    <2> QED
      BY <1>1, <2>1 DEF DInit, DTypeOK
  <1>3. \A c \in Conns : topic[c] \in Topics /\ log[topic[c]] = <<>>
    BY <1>1 DEF DInit, TypeOK
  <1>4. NotesTravelOnce
    <2>1. \A n \in Notifiers : note[n] = NoNote /\ pc[n] = "idle"
      BY DEF DInit, Init
    <2>2. \A t \in Topics : log[t] = <<>>
      BY DEF DInit
    <2> QED
      BY <2>1, <2>2, DeliveryAssumption DEF DInit, NotesTravelOnce
  <1>5. JoinsInOrder
    <2>1. Len(<<>>) = 0 /\ 0 <= 0
      OBVIOUS
    <2> QED
      BY <1>3, <2>1 DEF DInit, Init, JoinsInOrder
  <1>6. NothingMissed
    BY DEF DInit, Init, NothingMissed
  <1>7. NoGaps
    <2> SUFFICES ASSUME NEW c \in Conns PROVE IsPrefix(sent[c], Due(c))
      BY DEF NoGaps
    <2>1. \A n \in Notifiers : ~Wrote(n, c)
      BY DEF DInit, Init, Wrote
    <2>2. Pending(c) = <<>>
      BY <2>1, NothingPending
    <2>3. Heard(c) = <<>>
      BY <1>3, SubSeqEmpty DEF DInit, Heard
    <2>4. Due(c) = <<>> /\ sent[c] = <<>>
      BY <2>2, <2>3 DEF Due, Heard, DInit
    <2> QED
      BY <2>4 DEF IsPrefix
  <1> QED
    BY <1>1, <1>2, <1>4, <1>5, <1>6, <1>7 DEF DeliveryInv

\* DeliveryInv is inductive.
LEMMA DeliveryStep == DeliveryInv /\ [DNext]_dvars => DeliveryInv'
  <1> SUFFICES ASSUME DeliveryInv, [DNext]_dvars PROVE DeliveryInv'
    OBVIOUS
  <1>1. CASE DNext
    <2>1. HubInv' /\ TypeOK'
      <3>1. Next
        BY <1>1, HubMoves DEF DeliveryInv, HubInv
      <3> QED
        BY <3>1, HubStep DEF DeliveryInv, HubInv
    <2>2. DTypeOK'
      BY <1>1, <2>1, DTypesKept
    <2>3. NotesTravelOnce' /\ JoinsInOrder'
      BY <1>1, <2>2, NotesTravelOn, JoinsKeepOrder
    <2>4. NothingMissed' /\ NoGaps'
      BY <1>1, SharesAgree DEF NothingMissed, NoGaps, Live
    <2> QED
      BY <2>1, <2>2, <2>3, <2>4 DEF DeliveryInv
  <1>2. CASE UNCHANGED dvars
    <2> USE <1>2 DEF dvars, vars, history, handlerVars, notifierVars
    <2>1. HubInv'
      BY HubStep DEF DeliveryInv
    <2>2. DTypeOK' /\ NotesTravelOnce' /\ JoinsInOrder'
      BY DEF DeliveryInv, DTypeOK, TypeOK, NotesTravelOnce, JoinsInOrder
    <2>3. NothingMissed' /\ NoGaps'
      <3>1. ASSUME NEW c \in Conns PROVE Due(c)' = Due(c)
        <4>1. Pending(c)' = Pending(c)
          BY SamePending DEF Wrote
        <4> QED
          BY <4>1 DEF Due
      <3> QED
        BY <3>1 DEF DeliveryInv, NothingMissed, NoGaps
    <2> QED
      BY <2>1, <2>2, <2>3 DEF DeliveryInv
  <1> QED
    BY <1>1, <1>2

\* The invariant of the hub with notes, for any number of clients and notes.
THEOREM DeliveryCorrect == DSpec => []DeliveryInv
  BY DeliveryInit, DeliveryStep, PTL DEF DSpec

\* A live subscriber has been written all of its topic's stream since it joined.
THEOREM EverySubscriberServed == DSpec => []NothingMissed
  <1>1. DeliveryInv => NothingMissed
    BY DEF DeliveryInv
  <1> QED
    BY <1>1, DeliveryCorrect, PTL

\* A connection that is lost loses the end of the stream, never its middle.
THEOREM StreamUnbroken == DSpec => []NoGaps
  <1>1. DeliveryInv => NoGaps
    BY DEF DeliveryInv
  <1> QED
    BY <1>1, DeliveryCorrect, PTL

-----------------------------------------------------------------------------
(* The hub implements RoomBroadcast.                                        *)

\* Where a connection stands in the broadcast.
StateIs ==
    \A c \in Conns :
        AbsState[c] = IF at[c] \in {"dialing", "rejected", "upgraded"} THEN "out"
                      ELSE IF Live(c) THEN "in"
                      ELSE IF at[c] = "subscribed" THEN "broken" ELSE "left"

\* What it has been given there: its share of the log while it lives, and
\* afterwards what it was written.
GotIs == \A c \in Conns : AbsGot[c] = IF Live(c) THEN Heard(c) ELSE sent[c]

\* The refinement mapping read off the invariant.
LEMMA MappingIs == DeliveryInv => StateIs /\ GotIs
  <1> SUFFICES ASSUME DeliveryInv PROVE StateIs /\ GotIs
    OBVIOUS
  <1>1. StateIs
    BY DEF StateIs, AbsState, Live
  <1>2. ASSUME NEW c \in Conns
        PROVE  AbsGot[c] = IF Live(c) THEN Heard(c) ELSE sent[c]
    <2>1. AbsState[c] = "in" <=> Live(c)
      BY <1>1 DEF StateIs, Live
    <2>2. AbsGot[c] = IF Live(c) /\ Pending(c) # <<>>
                      THEN SubSeq(sent[c], 1, Len(sent[c]) - 1) ELSE sent[c]
      BY <2>1 DEF AbsGot
    <2>3. CASE ~Live(c)
      BY <2>2, <2>3
    <2>4. CASE Live(c)
      <3>1. sent[c] = Heard(c) \o Pending(c) /\ Heard(c) \in Seq(Notes)
        BY <2>4, Pieces DEF DeliveryInv, NothingMissed, Live
      <3>2. CASE \A n \in Notifiers : ~Wrote(n, c)
        <4>1. Pending(c) = <<>>
          BY <3>2, NothingPending
        <4>2. sent[c] = Heard(c)
          BY <3>1, <4>1
        <4> QED
          BY <2>2, <2>4, <4>1, <4>2
      <3>3. CASE \E n \in Notifiers : Wrote(n, c)
        <4>1. PICK n \in Notifiers : Wrote(n, c)
          BY <3>3
        <4>2. \A m \in Notifiers : Wrote(m, c) => m = n
          BY <4>1 DEF DeliveryInv, HubInv, OneWriterAtATime, Wrote
        <4>3. note[n] \in Notes
          BY <4>1 DEF Wrote, DeliveryInv, DTypeOK, NotesTravelOnce
        <4>4. Pending(c) = <<note[n]>>
          BY <4>1, <4>2, NotePending
        <4>5. SubSeq(sent[c], 1, Len(sent[c]) - 1) = Heard(c)
          BY <3>1, <4>3, <4>4, TakeBack
        <4> QED
          BY <2>2, <2>4, <4>4, <4>5
      <3> QED
        BY <3>2, <3>3
    <2> QED
      BY <2>3, <2>4
  <1> QED
    BY <1>1, <1>2 DEF GotIs

\* And after a step.
LEMMA MappingWillBe == DeliveryInv' => StateIs' /\ GotIs'
  BY MappingIs, PTL

\* A step nobody outside can tell.
LEMMA Unseen ==
  ASSUME DeliveryInv, DeliveryInv', UNCHANGED <<topic, log>>,
         \A c \in Conns : /\ AbsState'[c] = AbsState[c]
                          /\ AbsGot'[c] = AbsGot[c]
  PROVE  UNCHANGED Broadcast!vars
  <1>1. AbsState' = AbsState
    <2>1. AbsState = [c \in Conns |-> AbsState[c]]
      BY DEF AbsState
    <2>2. AbsState' = [c \in Conns |-> AbsState'[c]]
      BY DEF AbsState
    <2> QED
      BY <2>1, <2>2
  <1>2. AbsGot' = AbsGot
    <2>1. AbsGot = [c \in Conns |-> AbsGot[c]]
      BY DEF AbsGot
    <2>2. AbsGot' = [c \in Conns |-> AbsGot'[c]]
      BY DEF AbsGot
    <2> QED
      BY <2>1, <2>2
  <1> QED
    BY <1>1, <1>2 DEF Broadcast!vars

\* A change of one connection's place, with nothing given.
LEMMA Moved ==
  ASSUME UNCHANGED <<topic, log>>, NEW r \in Conns, NEW s,
         \A c \in Conns : /\ AbsState'[c] = IF c = r THEN s ELSE AbsState[c]
                          /\ AbsGot'[c] = AbsGot[c]
  PROVE  /\ AbsState' = [AbsState EXCEPT ![r] = s]
         /\ AbsGot' = AbsGot
  <1>1. AbsState' = [AbsState EXCEPT ![r] = s]
    <2>1. AbsState = [c \in Conns |-> AbsState[c]]
      BY DEF AbsState
    <2>2. AbsState' = [c \in Conns |-> AbsState'[c]]
      BY DEF AbsState
    <2> QED
      BY <2>1, <2>2
  <1>2. AbsGot' = AbsGot
    <2>1. AbsGot = [c \in Conns |-> AbsGot[c]]
      BY DEF AbsGot
    <2>2. AbsGot' = [c \in Conns |-> AbsGot'[c]]
      BY DEF AbsGot
    <2> QED
      BY <2>1, <2>2
  <1> QED
    BY <1>1, <1>2

\* Registering is joining.
LEMMA RegisterJoins ==
  ASSUME DeliveryInv, DeliveryInv', NEW r \in Conns, DRegister(r)
  PROVE  Broadcast!Join(r)
  <1>1. StateIs /\ GotIs /\ StateIs' /\ GotIs'
    BY MappingIs, MappingWillBe
  <1>2. /\ UNCHANGED <<topic, cancelled, log, sent>> /\ at[r] = "upgraded"
        /\ \A c \in Conns : /\ at'[c] = IF c = r THEN "subscribed" ELSE at[c]
                            /\ joined'[c] = IF c = r THEN Len(log[topic[c]]) ELSE joined[c]
    BY DEF DRegister, Register, DeliveryInv, DTypeOK, TypeOK
  <1>3. ~cancelled[r] /\ sent[r] = <<>>
    BY <1>2 DEF DeliveryInv, JoinsInOrder
  <1>4. ASSUME NEW c \in Conns
        PROVE  /\ AbsState'[c] = IF c = r THEN "in" ELSE AbsState[c]
               /\ AbsGot'[c] = AbsGot[c]
    <2>1. CASE c = r
      <3>1. Live(c)' /\ ~Live(c)
        BY <1>2, <1>3, <2>1 DEF Live
      <3>2. Heard(c)' = <<>>
        <4>1. joined'[c] = Len(log'[topic'[c]]) /\ joined'[c] \in Nat
          BY <1>2, <2>1 DEF DeliveryInv, DTypeOK
        <4> QED
          BY <4>1, SubSeqEmpty DEF Heard
      <3>3. AbsGot'[c] = <<>> /\ AbsGot[c] = <<>>
        BY <1>1, <1>3, <2>1, <3>1, <3>2 DEF GotIs
      <3> QED
        BY <1>1, <1>2, <2>1, <3>1, <3>3 DEF StateIs
    <2>2. CASE c # r
      <3>1. (Live(c)' <=> Live(c)) /\ Heard(c)' = Heard(c)
        BY <1>2, <2>2 DEF Live, Heard
      <3> QED
        BY <1>1, <1>2, <2>2, <3>1 DEF StateIs, GotIs
    <2> QED
      BY <2>1, <2>2
  <1>5. AbsState' = [AbsState EXCEPT ![r] = "in"] /\ AbsGot' = AbsGot
    BY <1>2, <1>4, Moved
  <1>6. AbsState[r] = "out"
    BY <1>1, <1>2 DEF StateIs
  <1> QED
    BY <1>2, <1>5, <1>6 DEF Broadcast!Join

\* Removing is leaving.
LEMMA UnregisterLeaves ==
  ASSUME DeliveryInv, DeliveryInv', NEW r \in Conns, DOther(r), Unregister(r)
  PROVE  Broadcast!Leave(r)
  <1>1. StateIs /\ GotIs /\ StateIs' /\ GotIs'
    BY MappingIs, MappingWillBe
  <1>2. /\ UNCHANGED <<topic, cancelled, log, sent, joined>>
        /\ at[r] = "subscribed" /\ cancelled[r]
        /\ \A c \in Conns : at'[c] = IF c = r THEN "unsubscribed" ELSE at[c]
    BY DEF DOther, Unregister, history, DeliveryInv, DTypeOK, TypeOK
  <1>3. \A c \in Conns : (Live(c)' <=> Live(c)) /\ Heard(c)' = Heard(c)
    BY <1>2 DEF Live, Heard
  <1>4. \A c \in Conns : /\ AbsState'[c] = IF c = r THEN "left" ELSE AbsState[c]
                         /\ AbsGot'[c] = AbsGot[c]
    BY <1>1, <1>2, <1>3 DEF StateIs, GotIs, Live
  <1>5. AbsState' = [AbsState EXCEPT ![r] = "left"] /\ AbsGot' = AbsGot
    BY <1>2, <1>4, Moved
  <1>6. AbsState[r] = "broken"
    BY <1>1, <1>2 DEF StateIs, Live
  <1> QED
    BY <1>2, <1>5, <1>6 DEF Broadcast!Leave

\* What a handler or a client does besides cannot be told from outside.
LEMMA OtherUnseen ==
  ASSUME DeliveryInv, DeliveryInv', NEW r \in Conns, DOther(r), ~Unregister(r)
  PROVE  UNCHANGED Broadcast!vars
  <1>1. StateIs /\ GotIs /\ StateIs' /\ GotIs'
    BY MappingIs, MappingWillBe
  <1>2. UNCHANGED <<topic, cancelled, log, sent, joined>>
    BY DEF DOther, RejectDial, Upgrade, CloseConn, Client, Stall, Resume, Disconnect,
       handlerVars, history
  <1>3. \A c \in Conns :
           \/ at'[c] = at[c]
           \/ at[c] = "dialing" /\ at'[c] \in {"rejected", "upgraded"}
           \/ at[c] = "unsubscribed" /\ at'[c] = "closed"
    <2>1. at \in [Conns -> {"dialing", "rejected", "upgraded", "subscribed",
                            "unsubscribed", "closed"}]
      BY DEF DeliveryInv, DTypeOK, TypeOK
    <2> QED
      BY <2>1 DEF DOther, RejectDial, Upgrade, CloseConn, Client, Stall, Resume,
         Disconnect, handlerVars
  <1>4. \A c \in Conns : (Live(c)' <=> Live(c)) /\ Heard(c)' = Heard(c)
    BY <1>2, <1>3 DEF Live, Heard
  <1>5. \A c \in Conns : AbsState'[c] = AbsState[c] /\ AbsGot'[c] = AbsGot[c]
    BY <1>1, <1>2, <1>3, <1>4 DEF StateIs, GotIs
  <1> QED
    BY <1>2, <1>5, Unseen

\* Nor can the start of a goroutine or of a loop.
LEMMA StartUnseen ==
  ASSUME DeliveryInv, DeliveryInv',
         UNCHANGED <<topic, at, cancelled, log, sent, joined>>
  PROVE  UNCHANGED Broadcast!vars
  <1>1. StateIs /\ GotIs /\ StateIs' /\ GotIs'
    BY MappingIs, MappingWillBe
  <1>2. \A c \in Conns : (Live(c)' <=> Live(c)) /\ Heard(c)' = Heard(c)
    BY DEF Live, Heard
  <1>3. \A c \in Conns : AbsState'[c] = AbsState[c] /\ AbsGot'[c] = AbsGot[c]
    BY <1>1, <1>2 DEF StateIs, GotIs
  <1> QED
    BY <1>3, Unseen

\* A write that succeeds is not told before the round is over.
LEMMA WriteOkUnseen ==
  ASSUME DeliveryInv, DeliveryInv', NEW n \in Notifiers, NEW r \in Conns, DWriteOk(n, r)
  PROVE  UNCHANGED Broadcast!vars
  <1>1. StateIs /\ GotIs /\ StateIs' /\ GotIs'
    BY MappingIs, MappingWillBe
  <1>2. /\ UNCHANGED <<topic, at, cancelled, log, joined>>
        /\ \A c \in Conns : c # r => sent'[c] = sent[c]
    BY DEF DWriteOk, WriteOk, handlerVars, DeliveryInv, DTypeOK
  <1>3. \A c \in Conns : (Live(c)' <=> Live(c)) /\ Heard(c)' = Heard(c)
    BY <1>2 DEF Live, Heard
  <1>4. Live(r)
    BY DEF DWriteOk, WriteOk, Live, DeliveryInv, HubInv, NoWriteAfterLeave
  <1>5. \A c \in Conns : AbsState'[c] = AbsState[c] /\ AbsGot'[c] = AbsGot[c]
    BY <1>1, <1>2, <1>3, <1>4 DEF StateIs, GotIs
  <1> QED
    BY <1>2, <1>5, Unseen

\* The first write that fails breaks a connection, a later one changes nothing.
LEMMA WriteErrBreaks ==
  ASSUME DeliveryInv, DeliveryInv', NEW n \in Notifiers, NEW r \in Conns, DWriteErr(n, r)
  PROVE  Broadcast!Break(r) \/ UNCHANGED Broadcast!vars
  <1>1. StateIs /\ GotIs /\ StateIs' /\ GotIs'
    BY MappingIs, MappingWillBe
  <1>2. /\ UNCHANGED <<topic, at, log, sent, joined>>
        /\ \A c \in Conns : cancelled'[c] = (c = r \/ cancelled[c])
    BY DEF DWriteErr, WriteErr, history, DeliveryInv, DTypeOK, TypeOK
  <1>3. /\ \A c \in Conns : Heard(c)' = Heard(c)
        /\ \A c \in Conns : Live(c)' <=> (Live(c) /\ c # r)
    BY <1>2 DEF Live, Heard
  <1>4. at[r] = "subscribed" /\ \A m \in Notifiers : ~Wrote(m, r)
    BY OneRound DEF DWriteErr, WriteErr, DeliveryInv, HubInv, NoWriteAfterLeave, Wrote
  <1>5. CASE Live(r)
    <2>1. Pending(r) = <<>>
      BY <1>4, NothingPending
    <2>2. sent[r] = Heard(r)
      <3>1. sent[r] = Due(r)
        BY <1>5 DEF DeliveryInv, NothingMissed, Live
      <3>2. Heard(r) \in Seq(Notes) /\ Due(r) = Heard(r) \o Pending(r)
        BY Pieces
      <3> QED
        BY <2>1, <3>1, <3>2
    <2>3. \A c \in Conns : /\ AbsState'[c] = IF c = r THEN "broken" ELSE AbsState[c]
                           /\ AbsGot'[c] = AbsGot[c]
      BY <1>1, <1>2, <1>3, <1>4, <1>5, <2>2 DEF StateIs, GotIs
    <2>4. AbsState' = [AbsState EXCEPT ![r] = "broken"] /\ AbsGot' = AbsGot
      BY <1>2, <2>3, Moved
    <2>5. AbsState[r] = "in"
      BY <1>1, <1>4, <1>5 DEF StateIs
    <2> QED
      BY <1>2, <2>4, <2>5 DEF Broadcast!Break
  <1>6. CASE ~Live(r)
    <2>1. \A c \in Conns : AbsState'[c] = AbsState[c] /\ AbsGot'[c] = AbsGot[c]
      BY <1>1, <1>2, <1>3, <1>6 DEF StateIs, GotIs
    <2> QED
      BY <1>2, <2>1, Unseen
  <1> QED
    BY <1>5, <1>6

\* The end of a round publishes its note, which was never published before.
LEMMA EndPublishes ==
  ASSUME DeliveryInv, DeliveryInv', NEW n \in Notifiers, EndRound(n)
  PROVE  Broadcast!Publish(job[n], note[n])
  <1>1. StateIs /\ GotIs /\ StateIs' /\ GotIs'
    BY MappingIs, MappingWillBe
  <1>2. UNCHANGED <<topic, at, cancelled, sent, joined>>
    BY DEF EndRound, NotifyNobody, Unlock, handlerVars
  <1>3. /\ note[n] \in Notes /\ job[n] \in Topics
        /\ \A c \in Conns : Heard(c)' = IF topic[c] = job[n]
                                        THEN Heard(c) \o <<note[n]>> ELSE Heard(c)
    BY LogGrows
  <1>4. \A c \in Conns : Live(c)' <=> Live(c)
    BY <1>2 DEF Live
  <1>5. AbsState' = AbsState
    <2>1. \A c \in Conns : AbsState'[c] = AbsState[c]
      BY <1>1, <1>2, <1>4 DEF StateIs
    <2>2. AbsState = [c \in Conns |-> AbsState[c]] /\ AbsState' = [c \in Conns |-> AbsState'[c]]
      BY DEF AbsState
    <2> QED
      BY <2>1, <2>2
  <1>6. ASSUME NEW c \in Conns
        PROVE  AbsGot'[c] = IF AbsState[c] = "in" /\ topic[c] = job[n]
                            THEN Append(AbsGot[c], note[n]) ELSE AbsGot[c]
    <2>1. AbsState[c] = "in" <=> Live(c)
      BY <1>1 DEF StateIs, Live
    <2>2. Heard(c) \in Seq(Notes)
      BY Pieces
    <2>3. Heard(c) \o <<note[n]>> = Append(Heard(c), note[n])
      BY <1>3, <2>2, TakeBack
    <2>4. CASE Live(c)
      <3>1. AbsGot[c] = Heard(c) /\ AbsGot'[c] = Heard(c)'
        BY <1>1, <1>4, <2>4 DEF GotIs
      <3> QED
        BY <1>3, <2>1, <2>3, <2>4, <3>1
    <2>5. CASE ~Live(c)
      <3>1. AbsGot[c] = sent[c] /\ AbsGot'[c] = sent[c]
        BY <1>1, <1>2, <1>4, <2>5 DEF GotIs
      <3> QED
        BY <2>1, <2>5, <3>1
    <2> QED
      BY <2>4, <2>5
  <1>7. AbsGot' = [c \in Conns |-> IF AbsState[c] = "in" /\ topic[c] = job[n]
                                   THEN Append(AbsGot[c], note[n]) ELSE AbsGot[c]]
    <2>1. AbsGot' = [c \in Conns |-> AbsGot'[c]]
      BY DEF AbsGot
    <2> QED
      BY <1>6, <2>1
  <1>8. log' = [log EXCEPT ![job[n]] = Append(@, note[n])]
    BY DEF EndRound
  <1>9. \A u \in Topics : \A i \in 1..Len(log[u]) : log[u][i] # note[n]
    BY DEF DeliveryInv, NotesTravelOnce
  <1> QED
    BY <1>2, <1>5, <1>7, <1>8, <1>9 DEF Broadcast!Publish

\* Every step of the hub is one of the broadcast or changes nothing there.
LEMMA BroadcastStep ==
  DeliveryInv /\ DeliveryInv' /\ [DNext]_dvars => [Broadcast!Next]_(Broadcast!vars)
  <1> SUFFICES ASSUME DeliveryInv, DeliveryInv', [DNext]_dvars
               PROVE  Broadcast!Next \/ UNCHANGED Broadcast!vars
    OBVIOUS
  <1>1. ASSUME NEW c \in Conns, DRegister(c) PROVE Broadcast!Next
    BY <1>1, RegisterJoins DEF Broadcast!Next
  <1>2. ASSUME NEW c \in Conns, DOther(c)
        PROVE  Broadcast!Next \/ UNCHANGED Broadcast!vars
    BY <1>2, UnregisterLeaves, OtherUnseen DEF Broadcast!Next
  <1>3. ASSUME NEW n \in Notifiers, DStartLoop(n) PROVE UNCHANGED Broadcast!vars
    BY <1>3, StartUnseen DEF DStartLoop, NotifyRoomClient, NotifyRoomsListClients,
       StartLoop, handlerVars, history
  <1>4. ASSUME NEW n \in Notifiers, EndRound(n) PROVE Broadcast!Next
    BY <1>4, EndPublishes, LogGrows DEF Broadcast!Next
  <1>5. ASSUME NEW n \in Notifiers, NEW c \in Conns, DWriteOk(n, c)
        PROVE  UNCHANGED Broadcast!vars
    BY <1>5, WriteOkUnseen
  <1>6. ASSUME NEW n \in Notifiers, NEW c \in Conns, DWriteErr(n, c)
        PROVE  Broadcast!Next \/ UNCHANGED Broadcast!vars
    BY <1>6, WriteErrBreaks DEF Broadcast!Next
  <1>7. ASSUME NEW n \in Notifiers, NEW t \in Topics, NEW m \in Notes, DSpawn(n, t, m)
        PROVE  UNCHANGED Broadcast!vars
    BY <1>7, StartUnseen DEF DSpawn, Spawn, handlerVars
  <1>8. CASE UNCHANGED dvars
    BY <1>8, StartUnseen DEF dvars, vars, handlerVars, history
  <1> QED
    BY <1>1, <1>2, <1>3, <1>4, <1>5, <1>6, <1>7, <1>8 DEF DNext

\* The initial states are those of the broadcast.
LEMMA BroadcastInit == DInit => Broadcast!Init
  <1> SUFFICES ASSUME DInit PROVE Broadcast!Init
    OBVIOUS
  <1>1. StateIs /\ GotIs
    BY DeliveryInit, MappingIs
  <1>2. \A c \in Conns : AbsState[c] = "out" /\ AbsGot[c] = <<>>
    BY <1>1 DEF StateIs, GotIs, DInit, Init, Live
  <1>3. AbsState = [c \in Conns |-> "out"]
    BY <1>2 DEF AbsState
  <1>4. AbsGot = [c \in Conns |-> <<>>]
    BY <1>2 DEF AbsGot
  <1> QED
    BY <1>3, <1>4 DEF Broadcast!Init, DInit, Init

\* The hub implements the broadcast: the loop of writes under the mutex, with
\* everything that falls between, looks like one atomic step.
THEOREM HubImplementsBroadcast == DSpec => ImplementsBroadcast
  BY BroadcastInit, BroadcastStep, DeliveryCorrect, PTL
  DEF DSpec, ImplementsBroadcast, Broadcast!Spec

-----------------------------------------------------------------------------
\* The notes only ride along: with them the hub is still WebSocketHub.
LEMMA HubStepsOnly == DeliveryInv /\ [DNext]_dvars => [Next]_vars
  <1> SUFFICES ASSUME DeliveryInv, [DNext]_dvars PROVE [Next]_vars
    OBVIOUS
  <1>1. ASSUME NEW c \in Conns, DRegister(c) \/ DOther(c)
        PROVE  Next
    <2>1. topic[c] \in Topics
      BY DEF DeliveryInv, HubInv, TypeOK
    <2> QED
      BY <1>1, <2>1 DEF DRegister, DOther, Topics, Next, Handler, SubscribeToRoom,
         SubscribeToRoomsList
  <1>2. ASSUME NEW n \in Notifiers, DStartLoop(n) \/ EndRound(n)
        PROVE  Next
    BY <1>2 DEF DStartLoop, EndRound, Next, Notifier, Acquire
  <1>3. ASSUME NEW n \in Notifiers, NEW c \in Conns, DWriteOk(n, c) \/ DWriteErr(n, c)
        PROVE  Next
    BY <1>3 DEF DWriteOk, DWriteErr, Next, Notifier, Write
  <1>4. ASSUME NEW n \in Notifiers, NEW t \in Topics, NEW m \in Notes, DSpawn(n, t, m)
        PROVE  Next
    BY <1>4 DEF DSpawn, Next
  <1>5. CASE UNCHANGED dvars
    BY <1>5 DEF dvars
  <1> QED
    BY <1>1, <1>2, <1>3, <1>4, <1>5 DEF DNext

\* What is proved of the hub holds of the hub that delivers.
THEOREM DeliveryIsHub == DSpec => Spec
  BY HubStepsOnly, DeliveryCorrect, PTL DEF DSpec, DInit, Spec
=============================================================================
