---------------------------- MODULE WebSocketHub ----------------------------
(***************************************************************************)
(* The web-socket service (src/internal/service/websocket.go) with the two *)
(* handlers that feed it (src/internal/web/handlers.go:721-761).  One      *)
(* goroutine serves each connection: it registers the connection under a   *)
(* topic, waits for its context and removes the connection again.  One     *)
(* short-lived goroutine per notification writes a message to every        *)
(* connection of a topic.  All of them share one mutex, which a notifier   *)
(* holds across its network writes.                                        *)
(*                                                                         *)
(* After the upgrade nobody reads from a connection, so the only thing     *)
(* that ever cancels its context is a failed write.                        *)
(***************************************************************************)
EXTENDS FiniteSets

CONSTANTS Conns,      \* connections, one per dial of a client
          RoomKeys,   \* the strings used as keys of RoomSubscribers
          RoomsList,  \* the topic of RoomsListSubscribers
          Notifiers,  \* goroutines running a Notify... call
          None        \* a notifier with nothing to do

Topics == RoomKeys \cup {RoomsList}

ASSUME HubAssumption == RoomsList \notin RoomKeys /\ None \notin Topics

VARIABLES subscribers,  \* RoomSubscribers and RoomsListSubscribers: the connections
                        \* of each topic, {} for a key never created
          locked,       \* Mutex
          topic,        \* the topic each client dials for
          at,           \* where the handler of a connection is
          cancelled,    \* the connection's context is done
          peer,         \* the client's end of the connection
          pc,           \* where a notifier is
          job,          \* the topic it notifies
          todo          \* the connections its loop has yet to visit

handlerVars == <<at, topic, cancelled>>
notifierVars == <<pc, job, todo>>
vars == <<subscribers, locked, handlerVars, peer, notifierVars>>

TypeOK ==
    /\ subscribers \in [Topics -> SUBSET Conns]
    /\ locked \in BOOLEAN
    /\ topic \in [Conns -> Topics]
    /\ at \in [Conns -> {"dialing", "rejected", "upgraded", "subscribed",
                         "unsubscribed", "closed"}]
    /\ cancelled \in [Conns -> BOOLEAN]
    /\ peer \in [Conns -> {"up", "stalled", "gone"}]
    /\ pc \in [Notifiers -> {"idle", "locking", "writing"}]
    /\ job \in [Notifiers -> Topics \cup {None}]
    /\ todo \in [Notifiers -> SUBSET Conns]

Init ==
    /\ subscribers = [t \in Topics |-> {}]
    /\ locked = FALSE
    /\ topic \in [Conns -> Topics]
    /\ at = [c \in Conns |-> "dialing"]
    /\ cancelled = [c \in Conns |-> FALSE]
    /\ peer = [c \in Conns |-> "up"]
    /\ pc = [n \in Notifiers |-> "idle"]
    /\ job = [n \in Notifiers |-> None]
    /\ todo = [n \in Notifiers |-> {}]

-----------------------------------------------------------------------------
(* The handler goroutine of a connection.  Its critical sections do nothing *)
(* that can block, so each is one step taken while the mutex is free.       *)

\* A bad or unknown room id, or a failed upgrade: the handler answers and
\* returns before it touches the service.
RejectDial(c) ==
    /\ at[c] = "dialing"
    /\ at' = [at EXCEPT ![c] = "rejected"]
    /\ UNCHANGED <<subscribers, locked, topic, cancelled, peer, notifierVars>>

Upgrade(c) ==
    /\ at[c] = "dialing"
    /\ at' = [at EXCEPT ![c] = "upgraded"]
    /\ UNCHANGED <<subscribers, locked, topic, cancelled, peer, notifierVars>>

\* Mutant of Register: a new inner map on every subscription.
RegisterFreshMap(c) ==
    /\ at[c] = "upgraded"
    /\ ~locked
    /\ subscribers' = [subscribers EXCEPT ![topic[c]] = {c}]
    /\ at' = [at EXCEPT ![c] = "subscribed"]
    /\ UNCHANGED <<locked, topic, cancelled, peer, notifierVars>>

Register(c) ==
    /\ at[c] = "upgraded"
    /\ ~locked
    /\ subscribers' = [subscribers EXCEPT ![topic[c]] = @ \cup {c}]
    /\ at' = [at EXCEPT ![c] = "subscribed"]
    /\ UNCHANGED <<locked, topic, cancelled, peer, notifierVars>>

\* Mutant of Unregister: without the mutex.
UnregisterUnlocked(c) ==
    /\ at[c] = "subscribed"
    /\ cancelled[c]
    /\ subscribers' = [subscribers EXCEPT ![topic[c]] = @ \ {c}]
    /\ at' = [at EXCEPT ![c] = "unsubscribed"]
    /\ UNCHANGED <<locked, topic, cancelled, peer, notifierVars>>

\* <-ctx.Done() returned: only the connection is deleted, never the topic.
Unregister(c) ==
    /\ at[c] = "subscribed"
    /\ cancelled[c]
    /\ ~locked
    /\ subscribers' = [subscribers EXCEPT ![topic[c]] = @ \ {c}]
    /\ at' = [at EXCEPT ![c] = "unsubscribed"]
    /\ UNCHANGED <<locked, topic, cancelled, peer, notifierVars>>

SubscribeToRoom(c) == topic[c] \in RoomKeys /\ (Register(c) \/ Unregister(c))
SubscribeToRoomsList(c) == topic[c] = RoomsList /\ (Register(c) \/ Unregister(c))

\* Mutant of CloseConn: no deferred Close.
NeverCloseConn(c) == FALSE /\ UNCHANGED vars

\* defer c.Close(), outside the mutex.
CloseConn(c) ==
    /\ at[c] = "unsubscribed"
    /\ at' = [at EXCEPT ![c] = "closed"]
    /\ UNCHANGED <<subscribers, locked, topic, cancelled, peer, notifierVars>>

-----------------------------------------------------------------------------
(* The notifier goroutines.                                                 *)

\* `go h.WebsocketService.Notify...(msg)` in a handler that has committed.
Spawn(n, t) ==
    /\ pc[n] = "idle"
    /\ pc' = [pc EXCEPT ![n] = "locking"]
    /\ job' = [job EXCEPT ![n] = t]
    /\ UNCHANGED <<subscribers, locked, handlerVars, peer, todo>>

\* The goroutine returns; in the model its name can be used again.
Return(n) ==
    /\ pc' = [pc EXCEPT ![n] = "idle"]
    /\ job' = [job EXCEPT ![n] = None]

\* NotifyRoomClient's early return: the room has no map, or an empty one.
NotifyNobody(n) ==
    /\ pc[n] = "locking"
    /\ job[n] \in RoomKeys
    /\ ~locked
    /\ subscribers[job[n]] = {}
    /\ Return(n)
    /\ UNCHANGED <<subscribers, locked, handlerVars, peer, todo>>

\* Mutant of StartLoop: RLock where Lock is needed.
StartLoopShared(n) ==
    /\ pc[n] = "locking"
    /\ locked' = TRUE
    /\ pc' = [pc EXCEPT ![n] = "writing"]
    /\ todo' = [todo EXCEPT ![n] = subscribers[job[n]]]
    /\ UNCHANGED <<subscribers, handlerVars, peer, job>>

\* Lock, and start ranging over the subscribers.
StartLoop(n) ==
    /\ pc[n] = "locking"
    /\ ~locked
    /\ locked' = TRUE
    /\ pc' = [pc EXCEPT ![n] = "writing"]
    /\ todo' = [todo EXCEPT ![n] = subscribers[job[n]]]
    /\ UNCHANGED <<subscribers, handlerVars, peer, job>>

NotifyRoomClient(n) ==
    job[n] \in RoomKeys /\ subscribers[job[n]] # {} /\ StartLoop(n)

NotifyRoomsListClients(n) == job[n] = RoomsList /\ StartLoop(n)

\* conn.WriteJSON returns nil: the bytes fit in the socket's buffer, which
\* says nothing of a client that is already gone.  A connection whose write
\* has failed once fails every later one.
WriteOk(n, c) ==
    /\ pc[n] = "writing"
    /\ c \in todo[n]
    /\ peer[c] # "stalled"
    /\ ~cancelled[c]
    /\ todo' = [todo EXCEPT ![n] = @ \ {c}]
    /\ UNCHANGED <<subscribers, locked, handlerVars, peer, pc, job>>

\* Mutants of WriteErr: a deadline that cuts off slow clients; no cancel();
\* trying the same connection again.
WriteDeadline(n, c) ==
    /\ pc[n] = "writing"
    /\ c \in todo[n]
    /\ peer[c] # "up"
    /\ cancelled' = [cancelled EXCEPT ![c] = TRUE]
    /\ todo' = [todo EXCEPT ![n] = @ \ {c}]
    /\ UNCHANGED <<subscribers, locked, at, topic, peer, pc, job>>

WriteErrIgnored(n, c) ==
    /\ pc[n] = "writing"
    /\ c \in todo[n]
    /\ peer[c] = "gone"
    /\ todo' = [todo EXCEPT ![n] = @ \ {c}]
    /\ UNCHANGED <<subscribers, locked, handlerVars, peer, pc, job>>

WriteErrRetried(n, c) ==
    /\ pc[n] = "writing"
    /\ c \in todo[n]
    /\ peer[c] = "gone"
    /\ cancelled' = [cancelled EXCEPT ![c] = TRUE]
    /\ UNCHANGED <<subscribers, locked, at, topic, peer, notifierVars>>

\* conn.WriteJSON fails, now or as it did before: cancel() ends the context of
\* that connection.
WriteErr(n, c) ==
    /\ pc[n] = "writing"
    /\ c \in todo[n]
    /\ peer[c] = "gone" \/ cancelled[c]
    /\ cancelled' = [cancelled EXCEPT ![c] = TRUE]
    /\ todo' = [todo EXCEPT ![n] = @ \ {c}]
    /\ UNCHANGED <<subscribers, locked, at, topic, peer, pc, job>>

\* The loop is over; the deferred Unlock runs.
Unlock(n) ==
    /\ pc[n] = "writing"
    /\ todo[n] = {}
    /\ locked' = FALSE
    /\ Return(n)
    /\ UNCHANGED <<subscribers, handlerVars, peer, todo>>

-----------------------------------------------------------------------------
(* The clients.                                                             *)

\* The client stops reading and the socket's buffers are full: a write
\* blocks, since the service sets no write deadline.
Stall(c) ==
    /\ peer[c] = "up"
    /\ peer' = [peer EXCEPT ![c] = "stalled"]
    /\ UNCHANGED <<subscribers, locked, handlerVars, notifierVars>>

Resume(c) ==
    /\ peer[c] = "stalled"
    /\ peer' = [peer EXCEPT ![c] = "up"]
    /\ UNCHANGED <<subscribers, locked, handlerVars, notifierVars>>

Disconnect(c) ==
    /\ peer[c] # "gone"
    /\ peer' = [peer EXCEPT ![c] = "gone"]
    /\ UNCHANGED <<subscribers, locked, handlerVars, notifierVars>>

-----------------------------------------------------------------------------
Handler(c) ==
    RejectDial(c) \/ Upgrade(c) \/ SubscribeToRoom(c) \/ SubscribeToRoomsList(c)
        \/ CloseConn(c)

Acquire(n) == NotifyNobody(n) \/ NotifyRoomClient(n) \/ NotifyRoomsListClients(n)
Write(n, c) == WriteOk(n, c) \/ WriteErr(n, c)
Notifier(n) == Acquire(n) \/ (\E c \in Conns : Write(n, c)) \/ Unlock(n)

\* What a client does once its handler is over concerns nobody.
Connected(c) == at[c] \notin {"rejected", "closed"}
Client(c) == Connected(c) /\ (Stall(c) \/ Resume(c) \/ Disconnect(c))

Next ==
    \/ \E c \in Conns : Handler(c) \/ Client(c)
    \/ \E n \in Notifiers : Notifier(n)
    \/ \E n \in Notifiers, t \in Topics : Spawn(n, t)

Spec == Init /\ [][Next]_vars

(***************************************************************************)
(* Fairness.  A goroutine that can run does; sync.RWMutex hands the lock   *)
(* to a waiter after a millisecond of waiting, so whoever keeps finding it *)
(* free gets it (SF).  A write to a reading client completes, and writing  *)
(* to a client that is gone fails sooner or later, when its host answers   *)
(* with a reset or the kernel gives up (SF).  The last conjunct is about   *)
(* the clients, not the code: nobody stays connected and stalled forever.  *)
(* Nothing obliges a client to leave or a handler to notify.               *)
(***************************************************************************)
Fairness ==
    /\ \A c \in Conns : SF_vars(Handler(c))
    /\ \A n \in Notifiers : SF_vars(Notifier(n))
    /\ \A c \in Conns : SF_vars(\E n \in Notifiers : WriteErr(n, c))

ClientsKeepReading ==
    \A c \in Conns : WF_vars(Connected(c) /\ (Resume(c) \/ Disconnect(c)))

FairSpec == Spec /\ Fairness /\ ClientsKeepReading

-----------------------------------------------------------------------------
(* Safety.                                                                  *)

\* The maps and the goroutines agree: a connection is a key of the map of its
\* topic, and of no other, exactly while its handler waits on <-ctx.Done().
\* A goroutine whose connection fell out of the map would wait forever.
RegisteredWhileServed ==
    \A c \in Conns, t \in Topics :
        c \in subscribers[t] <=> at[c] = "subscribed" /\ topic[c] = t

\* A notification never writes to a connection whose handler has removed or
\* closed it, whatever joins and leaves while the loop is running.
NoWriteAfterLeave ==
    \A n \in Notifiers : \A c \in todo[n] : at[c] = "subscribed" /\ topic[c] = job[n]

\* gorilla/websocket allows one writer at a time on a connection; the mutex
\* is the only thing that keeps two notifications from writing to the same
\* one.  It is held exactly while a notifier is in its loop.
OneWriterAtATime ==
    /\ \A m, n \in Notifiers : pc[m] = "writing" /\ pc[n] = "writing" => m = n
    /\ locked <=> \E n \in Notifiers : pc[n] = "writing"

\* The service lets go only of clients that are gone: a client that was
\* subscribed and is still there, slow or not, stays registered, whoever
\* else leaves its topic.
OnlyDeadAreDropped ==
    \A c \in Conns :
        /\ cancelled[c] => peer[c] = "gone"
        /\ at[c] \in {"unsubscribed", "closed"} => cancelled[c]

\* The inductive invariant behind the properties above.
HubInv ==
    /\ TypeOK
    /\ RegisteredWhileServed
    /\ NoWriteAfterLeave
    /\ OneWriterAtATime
    /\ OnlyDeadAreDropped
    /\ \A n \in Notifiers : /\ pc[n] # "writing" => todo[n] = {}
                            /\ pc[n] = "idle" <=> job[n] = None

-----------------------------------------------------------------------------
(* Liveness, under FairSpec.                                                *)

\* Once a write to it has failed, a connection is removed from its topic and
\* closed: no goroutine or socket is left behind.
CancelledIsClosed ==
    \A c \in Conns : cancelled[c] ~> at[c] = "closed"

\* Every notification is eventually written to all subscribers of its topic.
NotifyReturns ==
    \A n \in Notifiers : pc[n] = "locking" ~> pc[n] = "idle"

\* A client that is gone is not written to for ever: a topic that keeps being
\* notified gets rid of its dead subscribers.
DeadIsForgotten ==
    \A c \in Conns :
        <>(peer[c] = "gone") => <>[](\A n \in Notifiers : c \notin todo[n])
=============================================================================
