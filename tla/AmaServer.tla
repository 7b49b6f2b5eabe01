------------------------------ MODULE AmaServer ------------------------------
(***************************************************************************)
(* The server as a whole: the handlers of BoardReads, the web-socket        *)
(* service, of which RoomBroadcast is taken (HubDelivery implements it),    *)
(* the subscribe handlers in front of it (src/internal/web/handlers.go:     *)
(* 721-761), and main, which connects the stores, serves, and at an         *)
(* interrupt waits for the statements that are running and for nobody else. *)
(*                                                                          *)
(* A handler that has answered starts a goroutine for its notification; the *)
(* goroutines reach the service in any order, and with the process those    *)
(* that have not are lost, and so is every subscription.                    *)
(***************************************************************************)
EXTENDS BoardReads, Sequences

CONSTANT Conns

VARIABLES boot,    \* how far main is
          dial,    \* where the subscribe handler of a connection is
          topic, state, stream, got,  \* the service: see RoomBroadcast
          lost,    \* notifications that ended with their process
          heard,   \* history: the requests announced when a reader's came
          joined,  \* history: the connections being served when it came
          since    \* history: the changes of its message's reactions made since
                   \* a request's statement took its snapshot

service == <<topic, state, stream, got>>
history == <<heard, joined, since>>
avars == <<rvars, boot, dial, service, lost, history>>

Topics == RoomKeys \cup {RoomsList}
Notes == [topic : Topics, by : Requests]

Service == INSTANCE RoomBroadcast

Published == {x \in notices : \E i \in 1..Len(stream[x.topic]) : stream[x.topic][i] = x}

\* The goroutines that wait for the mutex.
Waiting == notices \ (Published \cup lost)

ATypeOK ==
    /\ boot \in {"down", "pool", "cache", "up", "closing"}
    /\ dial \in [Conns -> {"new", "room", "upgrade", "open", "served", "over"}]
    /\ topic \in [Conns -> Topics]
    /\ state \in [Conns -> {"out", "in", "broken", "left"}]
    /\ stream \in [Topics -> Seq(Notes)]
    /\ got \in [Conns -> Seq(Notes)]
    /\ lost \subseteq notices
    /\ heard \in [Readers -> SUBSET Requests]
    /\ joined \in [Readers -> SUBSET Conns]
    /\ since \in [Requests -> SUBSET Requests]

AInit ==
    /\ RInit
    /\ Service!Init
    /\ boot = "down"
    /\ dial = [c \in Conns |-> "new"]
    /\ lost = {}
    /\ heard = [q \in Readers |-> {}]
    /\ joined = [q \in Readers |-> {}]
    /\ since = [r \in Requests |-> {}]

-----------------------------------------------------------------------------
(* main.                                                                    *)

\* A store that does not answer makes main panic: it is down again.
ConnectToDB ==
    /\ boot = "down"
    /\ boot' = "pool"
    /\ UNCHANGED <<rvars, dial, service, lost, history>>

ConnectToCache ==
    /\ boot = "pool"
    /\ boot' \in {"cache", "down"}
    /\ UNCHANGED <<rvars, dial, service, lost, history>>

Serve ==
    /\ boot = "cache"
    /\ boot' = "up"
    /\ UNCHANGED <<rvars, dial, service, lost, history>>

\* The listener's goroutine lives until the process ends.
Serving == boot \in {"up", "closing"}

\* main returns: the deferred pool.Close() takes every connection to the
\* database that is free and waits for those in use.
Interrupt ==
    /\ boot = "up"
    /\ boot' = "closing"
    /\ UNCHANGED <<rvars, dial, service, lost, history>>

\* Mutant of End: a listener that only closes itself, in a process that lives.
EndListener ==
    /\ boot' = "down"
    /\ RRestart
    /\ UNCHANGED <<lost, dial, service, history>>

\* With the process go the handlers, the notifications that were not
\* delivered, and the subscriptions.
End ==
    /\ boot' = "down"
    /\ RRestart
    /\ lost' = lost \cup Waiting
    /\ dial' = [c \in Conns |-> IF dial[c] = "new" THEN "new" ELSE "over"]
    /\ state' = [c \in Conns |-> IF state[c] = "out" THEN "out" ELSE "left"]
    /\ UNCHANGED <<topic, stream, got, history>>

\* Mutant of Exit: a graceful end that waits for the subscribers to go.
ExitWhenAlone ==
    /\ boot = "closing"
    /\ \A r \in Requests : pc[r] # "sent"
    /\ \A c \in Conns : state[c] \in {"out", "left"}
    /\ End

Exit ==
    /\ boot = "closing"
    /\ \A r \in Requests : pc[r] # "sent"
    /\ End

\* A signal that main does not catch, or the listener's panic.
Crash == Serving /\ End

-----------------------------------------------------------------------------
(* The requests of MessageBoard and BoardReads.                             *)

Request(r, i) ==
    /\ Serving
    /\ Receive(r, i)
    /\ UNCHANGED <<readers, boot, dial, service, lost, history>>

Counts(r) == input[r].op \in {"react", "unreact"}

\* r changes the reactions of the message whose reactions s has counted.
Misses(s, r) ==
    /\ s # r /\ (Running(s) \/ s \in committed)
    /\ Counts(s) /\ Counts(r) /\ input[s].msg = input[r].msg

\* A handler goes on; when down, only a statement that was left behind can.
\* A closed pool gives out no connection for another statement.
Handle(r) ==
    /\ Handler(r)
    /\ boot = "closing" /\ pc[r] = "write" => pc'[r] # "sent"
    /\ since' = [s \in Requests |-> IF r \in committed' \ committed /\ Misses(s, r)
                                    THEN since[s] \cup {r} ELSE since[s]]
    /\ UNCHANGED <<readers, boot, dial, service, lost, heard, joined>>

RequestRead(q, i) ==
    /\ Serving
    /\ Get(q, i)
    /\ heard' = [heard EXCEPT ![q] = {x.by : x \in Published}]
    /\ joined' = [joined EXCEPT ![q] = {c \in Conns : state[c] = "in"}]
    /\ UNCHANGED <<vars, boot, dial, service, lost, since>>

HandleRead(q) ==
    /\ Reader(q)
    /\ UNCHANGED <<vars, boot, dial, service, lost, history>>

-----------------------------------------------------------------------------
(* The subscribe handlers.                                                  *)

Goto(c, place) ==
    /\ dial' = [dial EXCEPT ![c] = place]
    /\ UNCHANGED <<rvars, boot, lost, history>>

\* SubscribeToRoomsList has nothing to check.
Dial(c) ==
    /\ Serving /\ dial[c] = "new"
    /\ Goto(c, IF topic[c] = RoomsList THEN "upgrade" ELSE "room")
    /\ UNCHANGED service

\* uuid.Parse and CheckRoomExists, which may fail.
CheckDialed(c) ==
    /\ dial[c] = "room"
    /\ \/ Denotes[topic[c]] \in rooms /\ Goto(c, "upgrade")
       \/ Goto(c, "over")
    /\ UNCHANGED service

\* From here the client takes itself for subscribed.
Upgrade(c) ==
    /\ dial[c] = "upgrade"
    /\ Goto(c, "open") \/ Goto(c, "over")
    /\ UNCHANGED service

\* SubscribeToRoom of the service, with the raw id of the URL.
Register(c) ==
    /\ dial[c] = "open"
    /\ Service!Join(c)
    /\ Goto(c, "served")

-----------------------------------------------------------------------------
(* The notification goroutines.                                             *)

\* Mutant of Deliver: NotifyRoomClient returns early for a single subscriber.
DeliverToSeveral(x) ==
    LET subscribers == {c \in Conns : state[c] = "in" /\ topic[c] = x.topic}
    IN  /\ x \in Waiting
        /\ IF Cardinality(subscribers) = 1
           THEN /\ stream' = [stream EXCEPT ![x.topic] = Append(@, x)]
                /\ UNCHANGED <<topic, state, got>>
           ELSE Service!Publish(x.topic, x)
        /\ UNCHANGED <<rvars, boot, dial, lost, history>>

Deliver(x) ==
    /\ x \in Waiting
    /\ Service!Publish(x.topic, x)
    /\ UNCHANGED <<rvars, boot, dial, lost, history>>

\* A write failed; the handler removes and closes the connection.
Lose(c) ==
    /\ Service!Break(c) \/ Service!Leave(c)
    /\ UNCHANGED <<rvars, boot, dial, lost, history>>

-----------------------------------------------------------------------------
Main == ConnectToDB \/ ConnectToCache \/ Serve \/ Interrupt \/ Exit \/ Crash
Subscriber(c) == Dial(c) \/ CheckDialed(c) \/ Upgrade(c) \/ Register(c) \/ Lose(c)

ANext ==
    \/ Main
    \/ \E r \in Requests : Handle(r) \/ \E i \in Inputs : Request(r, i)
    \/ \E q \in Readers : HandleRead(q) \/ \E i \in Asks : RequestRead(q, i)
    \/ \E c \in Conns : Subscriber(c)
    \/ \E x \in notices : Deliver(x)

ASpec == AInit /\ [][ANext]_avars

(***************************************************************************)
(* Fairness.  Handlers and goroutines that can run do: queries end, and a   *)
(* notification gets the mutex and finishes its loop, which HubDelivery     *)
(* needs clients that keep reading for (NotifyReturns of WebSocketHub).     *)
(* main goes on once pool.Close() has returned.  Nothing obliges it to be   *)
(* started again, or anybody to ask.                                        *)
(***************************************************************************)
AFairSpec ==
    /\ ASpec
    /\ \A r \in Requests : WF_avars(Handle(r))
    /\ \A x \in [topic : Topics, by : Requests] : WF_avars(Deliver(x))
    /\ WF_avars(Exit)

-----------------------------------------------------------------------------
(* What a client can rely on.                                               *)

\* What a subscriber has been told shows in everything that anybody asks for
\* afterwards: the announcement never runs ahead of the data.
HeardThenRead == \A q \in Readers : \A r \in heard[q] : Shows(q, r)

\* The notice x says no more than the list that q returned.
InList(q, x) ==
    LET i == input[x.by]
    IN  CASE i.op = "create_message" -> x.by \in DOMAIN seen[q].messages
          [] i.op = "answer" -> /\ i.msg \in DOMAIN seen[q].messages
                                /\ seen[q].messages[i.msg].answer = x.by
          [] OTHER -> FALSE

\* First subscribe, then list: a client that does has, between the list and
\* what it is told, every new message and every answer that was ever announced
\* under its key, the ones of before a restart included; nothing falls between
\* the list and the stream.
NothingFallsBetween ==
    \A q \in Readers : \A c \in joined[q] :
        ask[q].op = "get_messages" /\ HasRows(q) /\ state[c] = "in"
            /\ topic[c] = ask[q].key =>
                \A x \in Published :
                    x.topic = topic[c] /\ ~Counts(x.by)
                    /\ (input[x.by].op = "answer" =>
                            messages[input[x.by].msg].room = Denotes[topic[c]])
                      => InList(q, x) \/ \E i \in 1..Len(got[c]) : got[c][i] = x

\* x announces a change of m's reactions; it is the last in a sequence to do so.
OfReactions(x, m) == Counts(x.by) /\ input[x.by].msg = m
LastOfReactions(notes, i, m) ==
    /\ OfReactions(notes[i], m)
    /\ \A j \in 1..Len(notes) : OfReactions(notes[j], m) => j <= i

\* Every change of m's reactions was announced under t.
AllAnnounced(t, m) ==
    \A r \in committed : Counts(r) /\ input[r].msg = m =>
        \E x \in Published : x.by = r /\ x.topic = t

\* The changes that overtook the notice x: made after its snapshot, announced
\* before it.
Overtakers(x) ==
    {s \in since[x.by] : \E i, j \in 1..Len(stream[x.topic]) :
        i < j /\ stream[x.topic][i].by = s /\ stream[x.topic][j] = x}

\* Adds less removes.
Net(S) == Cardinality({r \in S : input[r].op = "react"})
              - Cardinality({r \in S : input[r].op = "unreact"})

\* Notices go out in any order, and an older count may well be told last.  Then
\* it is off by exactly the changes that overtook it, once every change was
\* announced under the subscriber's key: no other is missed, however statements
\* and deliveries interleave, and a count that none overtook is the total.
LastCountMissesOvertakers ==
    \A c \in Conns, m \in DOMAIN messages : \A i \in 1..Len(got[c]) :
        state[c] = "in" /\ LastOfReactions(got[c], i, m) /\ AllAnnounced(topic[c], m)
            => count[got[c][i].by] + Net(Overtakers(got[c][i])) = Total(m)

\* A change that its handler knows to be made reaches every subscriber of its
\* key, unless the subscriber, or the process, ends first.
EveryoneHears ==
    \A r \in Requests, c \in Conns :
        pc[r] = "reply" /\ state[c] = "in" /\ topic[c] = input[r].key
            /\ input[r].op # "create_room"
          ~> (state[c] # "in" \/ \E i \in 1..Len(got[c]) : got[c][i].by = r)

\* An interrupted server stops: the statements that pool.Close() waits for end,
\* no new one takes their place, and nobody else is waited for.
InterruptedStops == boot = "closing" ~> boot = "down"

-----------------------------------------------------------------------------
(* What an invariant has to say besides, to be inductive.                   *)

\* Nothing of a process is left once it has ended but a statement in the
\* database: no handler, no goroutine with a notification, no subscription.
NothingLeftBehind ==
    boot \in {"down", "pool", "cache"} =>
        /\ \A r \in Requests : pc[r] \in {"new", "done", "orphan", "lost"}
        /\ \A q \in Readers : at[q] \in {"new", "done", "lost"}
        /\ \A c \in Conns : dial[c] \in {"new", "over"} /\ state[c] \in {"out", "left"}
        /\ Waiting = {}

\* Who has heard has heard of something done, and was asked for later.
HeardIsDone ==
    \A q \in Readers : heard[q] \subseteq committed /\ (heard[q] # {} => ask[q] # None)

\* A notice goes to the key of its request; the streams hold nothing else.
NoticesNamed ==
    /\ \A x \in notices : x.topic = IF input[x.by].op = "create_room" THEN RoomsList
                                    ELSE input[x.by].key
    /\ \A t \in Topics : \A i \in 1..Len(stream[t]) : stream[t][i] \in notices

\* What was announced before q asked, q can see; what came later, a connection
\* that was served when q asked, and still is, has been told.
HeardOrGot ==
    \A q \in Readers : \A c \in joined[q] :
        /\ state[c] # "out"
        /\ state[c] = "in" =>
               \A x \in Published : x.topic = topic[c] =>
                   x.by \in heard[q] \/ \E i \in 1..Len(got[c]) : got[c][i] = x

ServerInv ==
    /\ ATypeOK
    /\ NothingLeftBehind
    /\ HeardIsDone
    /\ HeardThenRead
    /\ NoticesNamed
    /\ HeardOrGot

-----------------------------------------------------------------------------
(* What the tests say, and the code does not do.                            *)

\* The subscribers of a room are told what is announced of the room.
RoomHears ==
    [][\A c \in Conns, k \in RoomKeys :
          state[c] = "in" /\ topic[c] \in RoomKeys /\ Denotes[k] = Denotes[topic[c]]
              /\ stream'[k] # stream[k] => got'[c] # got[c]]_avars
=============================================================================
