-------------------------- MODULE WebSocketHubProofs --------------------------
(* The safety of the hub for any sets of connections, rooms and notifiers.   *)
(* HubInv is inductive: one step per action below, then temporal reasoning.  *)
EXTENDS WebSocketHub, TLAPS

\* HubInv holds initially: nobody is registered and the mutex is free.
LEMMA HubInit == Init => HubInv
  <1> SUFFICES ASSUME Init PROVE HubInv
    OBVIOUS
  <1>1. TypeOK
    BY DEF Init, TypeOK
  <1>2. RegisteredWhileServed /\ OnlyDeadAreDropped
    BY DEF Init, RegisteredWhileServed, OnlyDeadAreDropped
  <1>3. NoWriteAfterLeave /\ OneWriterAtATime
    BY DEF Init, NoWriteAfterLeave, OneWriterAtATime
  <1>4. \A n \in Notifiers : /\ pc[n] # "writing" => todo[n] = {}
                             /\ pc[n] = "idle" <=> job[n] = None
    BY DEF Init
  <1> QED
    BY <1>1, <1>2, <1>3, <1>4 DEF HubInv

\* A step of a connection's handler (dial, registration, removal, close) keeps
\* HubInv: it changes a map only while no notifier is in its loop.
LEMMA HandlerStep ==
  ASSUME NEW c \in Conns, HubInv, Handler(c)
  PROVE  HubInv'
  <1> USE DEF TypeOK, handlerVars, notifierVars
  <1>1. CASE RejectDial(c)
    BY <1>1 DEF RejectDial, HubInv, RegisteredWhileServed, NoWriteAfterLeave,
       OneWriterAtATime, OnlyDeadAreDropped
  <1>2. CASE Upgrade(c)
    BY <1>2 DEF Upgrade, HubInv, RegisteredWhileServed, NoWriteAfterLeave,
       OneWriterAtATime, OnlyDeadAreDropped
  <1>3. CASE Register(c)
    BY <1>3 DEF Register, HubInv, RegisteredWhileServed, NoWriteAfterLeave,
       OneWriterAtATime, OnlyDeadAreDropped
  <1>4. CASE Unregister(c)
    BY <1>4 DEF Unregister, HubInv, RegisteredWhileServed, NoWriteAfterLeave,
       OneWriterAtATime, OnlyDeadAreDropped
  <1>5. CASE CloseConn(c)
    BY <1>5 DEF CloseConn, HubInv, RegisteredWhileServed, NoWriteAfterLeave,
       OneWriterAtATime, OnlyDeadAreDropped
  <1> QED
    BY <1>1, <1>2, <1>3, <1>4, <1>5 DEF Handler, SubscribeToRoom, SubscribeToRoomsList

\* A step of a client changes nothing but its own end, which once gone stays
\* gone.
LEMMA ClientStep ==
  ASSUME NEW c \in Conns, HubInv, Client(c)
  PROVE  HubInv'
  BY DEF Client, Stall, Resume, Disconnect, HubInv, TypeOK, RegisteredWhileServed,
     NoWriteAfterLeave, OneWriterAtATime, OnlyDeadAreDropped, handlerVars, notifierVars

\* A step of a notifier keeps HubInv.
LEMMA NotifierStep ==
  ASSUME NEW n \in Notifiers, HubInv, Notifier(n)
  PROVE  HubInv'
  <1> USE HubAssumption DEF TypeOK, handlerVars, notifierVars
  <1>1. CASE NotifyNobody(n)
    BY <1>1 DEF NotifyNobody, Return, HubInv, RegisteredWhileServed, NoWriteAfterLeave,
       OneWriterAtATime, OnlyDeadAreDropped
  <1>2. CASE StartLoop(n)
    <2>1. TypeOK' /\ RegisteredWhileServed' /\ OnlyDeadAreDropped'
      BY <1>2 DEF StartLoop, HubInv, RegisteredWhileServed, OnlyDeadAreDropped
    <2>2. NoWriteAfterLeave'
      BY <1>2 DEF StartLoop, HubInv, RegisteredWhileServed, NoWriteAfterLeave
    <2>3. OneWriterAtATime'
      BY <1>2 DEF StartLoop, HubInv, OneWriterAtATime
    <2> QED
      BY <1>2, <2>1, <2>2, <2>3 DEF StartLoop, HubInv
  <1>3. ASSUME NEW c \in Conns, WriteOk(n, c)
        PROVE  HubInv'
    BY <1>3 DEF WriteOk, HubInv, RegisteredWhileServed, NoWriteAfterLeave,
       OneWriterAtATime, OnlyDeadAreDropped
  <1>4. ASSUME NEW c \in Conns, WriteErr(n, c)
        PROVE  HubInv'
    BY <1>4 DEF WriteErr, HubInv, RegisteredWhileServed, NoWriteAfterLeave,
       OneWriterAtATime, OnlyDeadAreDropped
  <1>5. CASE Unlock(n)
    <2>0. TypeOK'
      BY <1>5 DEF Unlock, Return, HubInv
    <2>1. RegisteredWhileServed' /\ OnlyDeadAreDropped'
      BY <1>5 DEF Unlock, HubInv, RegisteredWhileServed, OnlyDeadAreDropped
    <2>2. NoWriteAfterLeave'
      <3> SUFFICES ASSUME NEW m \in Notifiers, NEW c \in todo'[m]
                   PROVE  at'[c] = "subscribed" /\ topic'[c] = job'[m]
        BY DEF NoWriteAfterLeave
      <3>1. m # n
        BY <1>5 DEF Unlock
      <3>2. job'[m] = job[m] /\ todo'[m] = todo[m] /\ at' = at /\ topic' = topic
        BY <1>5, <3>1 DEF Unlock, Return, HubInv
      <3> QED
        BY <3>2 DEF HubInv, NoWriteAfterLeave
    <2>3. OneWriterAtATime'
      BY <1>5 DEF Unlock, Return, HubInv, OneWriterAtATime
    <2>4. ASSUME NEW m \in Notifiers
          PROVE  /\ pc'[m] # "writing" => todo'[m] = {}
                 /\ pc'[m] = "idle" <=> job'[m] = None
      <3>1. CASE m = n
        BY <1>5, <3>1 DEF Unlock, Return, HubInv
      <3>2. CASE m # n
        BY <1>5, <3>2 DEF Unlock, Return, HubInv
      <3> QED
        BY <3>1, <3>2
    <2> QED
      BY <2>0, <2>1, <2>2, <2>3, <2>4 DEF HubInv
  <1> QED
    BY <1>1, <1>2, <1>3, <1>4, <1>5
    DEF Notifier, Acquire, NotifyRoomClient, NotifyRoomsListClients, Write

\* Starting a goroutine for a notification touches nothing but the goroutine.
LEMMA SpawnStep ==
  ASSUME NEW n \in Notifiers, NEW t \in Topics, HubInv, Spawn(n, t)
  PROVE  HubInv'
  BY HubAssumption DEF Spawn, HubInv, TypeOK, RegisteredWhileServed, NoWriteAfterLeave,
     OneWriterAtATime, OnlyDeadAreDropped, handlerVars

\* HubInv is inductive.
LEMMA HubStep == HubInv /\ [Next]_vars => HubInv'
  <1> SUFFICES ASSUME HubInv, [Next]_vars PROVE HubInv'
    OBVIOUS
  <1>1. CASE Next
    BY <1>1, HandlerStep, ClientStep, NotifierStep, SpawnStep DEF Next
  <1>2. CASE UNCHANGED vars
    BY <1>2 DEF vars, handlerVars, notifierVars, HubInv, TypeOK, RegisteredWhileServed,
       NoWriteAfterLeave, OneWriterAtATime, OnlyDeadAreDropped
  <1> QED
    BY <1>1, <1>2

\* The invariant of the hub, for any number of clients, rooms and notifications.
THEOREM HubCorrect == Spec => []HubInv
  BY HubInit, HubStep, PTL DEF Spec

\* The maps list exactly the connections being served.
THEOREM Registered == Spec => []RegisteredWhileServed
  <1>1. HubInv => RegisteredWhileServed
    BY DEF HubInv
  <1> QED
    BY <1>1, HubCorrect, PTL

\* No notification writes to a connection that has been removed or closed.
THEOREM NoLateWrite == Spec => []NoWriteAfterLeave
  <1>1. HubInv => NoWriteAfterLeave
    BY DEF HubInv
  <1> QED
    BY <1>1, HubCorrect, PTL

\* At most one goroutine writes at a time.
THEOREM WriterExclusion == Spec => []OneWriterAtATime
  <1>1. HubInv => OneWriterAtATime
    BY DEF HubInv
  <1> QED
    BY <1>1, HubCorrect, PTL

\* Only clients that are gone are dropped.
THEOREM LiveStay == Spec => []OnlyDeadAreDropped
  <1>1. HubInv => OnlyDeadAreDropped
    BY DEF HubInv
  <1> QED
    BY <1>1, HubCorrect, PTL
=============================================================================
