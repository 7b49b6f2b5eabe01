--------------------------- MODULE AmaServerProofs ---------------------------
(* The server as a whole, for any requests, readers, connections and          *)
(* spellings of room ids: it is made of the steps of BoardReads, so what is   *)
(* proved there carries over; no announcement runs ahead of the data; and     *)
(* nothing of a process outlives it.                                          *)
EXTENDS AmaServer, BoardReadsProofs

\* Every step of the server is a step of the handlers, or none.
LEMMA HandlersOnly == [ANext]_avars => [RNext]_rvars
  <1> SUFFICES ASSUME [ANext]_avars PROVE [RNext]_rvars
    OBVIOUS
  <1>1. CASE Main
    BY <1>1 DEF Main, ConnectToDB, ConnectToCache, Serve, Interrupt, Exit, Crash, End, RNext
  <1>2. ASSUME NEW r \in Requests, Handle(r) \/ \E i \in Inputs : Request(r, i)
        PROVE  [RNext]_rvars
    BY <1>2 DEF Handle, Request, RNext, Writer
  <1>3. ASSUME NEW q \in Readers, HandleRead(q) \/ \E i \in Asks : RequestRead(q, i)
        PROVE  [RNext]_rvars
    BY <1>3 DEF HandleRead, RequestRead, RNext
  <1>4. ASSUME NEW c \in Conns, Subscriber(c)
        PROVE  UNCHANGED rvars
    BY <1>4 DEF Subscriber, Dial, CheckDialed, Upgrade, Register, Lose, Goto
  <1>5. ASSUME NEW x \in notices, Deliver(x)
        PROVE  UNCHANGED rvars
    BY <1>5 DEF Deliver
  <1>6. CASE UNCHANGED avars
    BY <1>6 DEF avars
  <1> QED
    BY <1>1, <1>2, <1>3, <1>4, <1>5, <1>6 DEF ANext

\* The invariants of the board and its readers hold in the server.
THEOREM ServerReads == ASpec => [](BoardInv /\ ReadInv)
  <1>1. AInit => BoardInv /\ ReadInv
    BY BoardInit, ReadInit DEF AInit, RInit
  <1>2. BoardInv /\ ReadInv /\ [ANext]_avars => BoardInv' /\ ReadInv'
    BY HandlersOnly, ReadStep
  <1> QED
    BY <1>1, <1>2, PTL DEF ASpec

\* So do the bounds of the counts that are listed.
THEOREM ServerLists == ASpec => []ListedCounts
  <1>1. AInit => ListInv
    BY ListInit DEF AInit
  <1>2. BoardInv /\ ReadInv /\ ListInv /\ [ANext]_avars => ListInv'
    BY HandlersOnly, ListStep
  <1>3. ListInv => ListedCounts
    BY DEF ListInv
  <1> QED
    BY <1>1, <1>2, <1>3, ServerReads, PTL DEF ASpec

-----------------------------------------------------------------------------
\* Notifications are only added.
LEMMA NoticesStay ==
  ASSUME [Next]_vars
  PROVE  notices \subseteq notices'
  <1>1. ASSUME NEW r \in Requests, Handler(r)
        PROVE  notices \subseteq notices'
    BY <1>1 DEF Handler, GiveUp, CreateRoom, CreateRoomMessage, ReactionToMessage,
       RemoveReactionFromMessage, SetMessageToAnswered, CheckIDs, CheckPayload,
       CheckRoomExists, CheckMessageExists, SendStatement, Reply, InsertRoom,
       InsertMessage, InsertMessageReaction, RemoveMessageReaction, AnswerMessage,
       Refuse, Commit
  <1> QED
    BY <1>1 DEF Next, Receive, Restart, vars

\* A handler that has been cut off can only see its statement end.
LEMMA OrphanStep ==
  ASSUME NEW r \in Requests, BoardInv, Handler(r),
         pc[r] \in {"new", "done", "orphan", "lost"}
  PROVE  pc' = [pc EXCEPT ![r] = "lost"] /\ notices' = notices
  BY DEF Handler, GiveUp, CreateRoom, CreateRoomMessage, ReactionToMessage,
     RemoveReactionFromMessage, SetMessageToAnswered, CheckIDs, CheckPayload,
     CheckRoomExists, CheckMessageExists, SendStatement, Reply, InsertRoom,
     InsertMessage, InsertMessageReaction, RemoveMessageReaction, AnswerMessage,
     Refuse, Commit, Go, Running

\* The types of what the service keeps, whichever connection or notice moves.
ServiceTypeOK ==
    /\ topic \in [Conns -> Topics]
    /\ state \in [Conns -> {"out", "in", "broken", "left"}]
    /\ stream \in [Topics -> Seq(Notes)]
    /\ got \in [Conns -> Seq(Notes)]

LEMMA PublishTypes ==
  ASSUME BoardInv, ServiceTypeOK, NEW x \in notices, Service!Publish(x.topic, x)
  PROVE  ServiceTypeOK'
  <1>1. x.topic \in Topics => x \in Notes
    BY DEF BoardInv, TypeOK, Notes
  <1>2. stream' = [stream EXCEPT ![x.topic] = Append(stream[x.topic], x)]
    BY DEF Service!Publish
  <1>3. stream' \in [Topics -> Seq(Notes)]
    <2>1. ASSUME NEW t \in Topics
          PROVE  stream'[t] \in Seq(Notes)
      BY <1>1, <1>2 DEF ServiceTypeOK
    <2>2. stream' = [t \in Topics |-> stream'[t]]
      BY <1>2 DEF ServiceTypeOK
    <2> QED
      BY <2>1, <2>2
  <1>4. got' \in [Conns -> Seq(Notes)]
    <2>1. ASSUME NEW c \in Conns
          PROVE  got'[c] \in Seq(Notes)
      BY <1>1 DEF ServiceTypeOK, Service!Publish
    <2>2. got' = [c \in Conns |-> got'[c]]
      BY DEF Service!Publish
    <2> QED
      BY <2>1, <2>2
  <1> QED
    BY <1>3, <1>4 DEF ServiceTypeOK, Service!Publish

LEMMA MoveTypes ==
  ASSUME ServiceTypeOK, NEW c \in Conns,
         Service!Join(c) \/ Service!Break(c) \/ Service!Leave(c) \/ UNCHANGED service
  PROVE  ServiceTypeOK'
  BY DEF ServiceTypeOK, service, Service!Join, Service!Break, Service!Leave

\* A request names a message id.
LEMMA MessageNamed ==
  ASSUME NEW r \in Requests, BoardInv, pc[r] # "new"
  PROVE  input[r].msg \in MessageIds
  BY InputKnown, BoardAssumption

LEMMA TypesKept ==
  ASSUME BoardInv, ReadInv, ATypeOK, [ANext]_avars
  PROVE  ATypeOK'
  <1>0. notices \subseteq notices'
    BY HandlersOnly, StepKinds, NoticesStay DEF ReadInv, vars
  <1>1. CASE Main
    <2>1. CASE End
      <3>1. lost' \subseteq notices'
        BY <1>0, <2>1 DEF End, ATypeOK, Waiting
      <3> QED
        BY <2>1, <3>1 DEF End, ATypeOK, history
    <2>2. CASE ConnectToDB \/ ConnectToCache \/ Serve \/ Interrupt
      BY <2>2, <1>0 DEF ConnectToDB, ConnectToCache, Serve, Interrupt, ATypeOK,
         service, history
    <2> QED
      BY <1>1, <2>1, <2>2 DEF Main, Exit, Crash
  <1>2. ASSUME NEW r \in Requests, Handle(r)
        PROVE  ATypeOK'
    <2>1. pc[r] = "write" => input[r].msg \in MessageIds
      BY MessageNamed
    <2>2. since' \in [Requests -> SUBSET Requests]
      BY <1>2, <2>1 DEF Handle, ATypeOK
    <2> QED
      BY <1>0, <1>2, <2>2 DEF Handle, ATypeOK, service
  <1>3. ASSUME NEW r \in Requests, NEW i \in Inputs, Request(r, i)
        PROVE  ATypeOK'
    BY <1>0, <1>3 DEF Request, ATypeOK, service, history
  <1>4. ASSUME NEW q \in Readers, HandleRead(q)
        PROVE  ATypeOK'
    BY <1>0, <1>4 DEF HandleRead, ATypeOK, service, history
  <1>5. ASSUME NEW q \in Readers, NEW i \in Asks, RequestRead(q, i)
        PROVE  ATypeOK'
    <2>1. {x.by : x \in Published} \subseteq Requests
      BY DEF Published, BoardInv, TypeOK
    <2> QED
      BY <1>0, <1>5, <2>1 DEF RequestRead, ATypeOK, service
  <1>6. ASSUME NEW c \in Conns, Subscriber(c)
        PROVE  ATypeOK'
    <2>1. ServiceTypeOK'
      BY <1>6, MoveTypes DEF Subscriber, Dial, CheckDialed, Upgrade, Register, Lose,
         ATypeOK, ServiceTypeOK
    <2>2. dial' \in [Conns -> {"new", "room", "upgrade", "open", "served", "over"}]
      BY <1>6 DEF Subscriber, Dial, CheckDialed, Upgrade, Register, Lose, Goto, ATypeOK
    <2>3. UNCHANGED <<boot, lost, history>>
      BY <1>6 DEF Subscriber, Dial, CheckDialed, Upgrade, Register, Lose, Goto
    <2> QED
      BY <1>0, <2>1, <2>2, <2>3 DEF ATypeOK, ServiceTypeOK, history
  <1>7. ASSUME NEW x \in notices, Deliver(x)
        PROVE  ATypeOK'
    <2>1. ServiceTypeOK'
      BY <1>7, PublishTypes DEF Deliver, ATypeOK, ServiceTypeOK
    <2> QED
      BY <1>0, <1>7, <2>1 DEF Deliver, ATypeOK, ServiceTypeOK, history
  <1>8. CASE UNCHANGED avars
    BY <1>0, <1>8 DEF avars, ATypeOK, service, history
  <1> QED
    BY <1>1, <1>2, <1>3, <1>4, <1>5, <1>6, <1>7, <1>8 DEF ANext

-----------------------------------------------------------------------------
\* A process that has ended leaves only statements behind.
LEMMA EndLeavesNothing ==
  ASSUME BoardInv, ReadInv, ATypeOK, End
  PROVE  NothingLeftBehind'
  <1>1. \A r \in Requests : pc'[r] \in {"new", "done", "orphan", "lost"}
    BY DEF End, RRestart, Restart
  <1>2. \A q \in Readers : at'[q] \in {"new", "done", "lost"}
    BY DEF End, RRestart
  <1>3. \A c \in Conns : dial'[c] \in {"new", "over"} /\ state'[c] \in {"out", "left"}
    BY DEF End
  <1>4. Waiting' = {}
    <2>1. lost' = lost \cup Waiting /\ notices' = notices /\ stream' = stream
      BY DEF End, RRestart, Restart
    <2> QED
      BY <2>1 DEF Waiting, Published
  <1> QED
    BY <1>1, <1>2, <1>3, <1>4 DEF NothingLeftBehind

\* While there is no process, at most such a statement ends.
LEMMA StaysEmpty ==
  ASSUME BoardInv, ReadInv, ATypeOK, NothingLeftBehind, [ANext]_avars,
         boot \in {"down", "pool", "cache"}
  PROVE  NothingLeftBehind'
  <1>0. /\ \A r \in Requests : pc[r] \in {"new", "done", "orphan", "lost"}
        /\ \A q \in Readers : at[q] \in {"new", "done", "lost"}
        /\ \A c \in Conns : dial[c] \in {"new", "over"} /\ state[c] \in {"out", "left"}
        /\ Waiting = {} /\ ~Serving /\ boot # "closing"
    BY DEF NothingLeftBehind, Serving
  <1>1. ASSUME UNCHANGED <<rvars, dial, service, lost>>
        PROVE  NothingLeftBehind'
    BY <1>0, <1>1 DEF rvars, vars, readers, service, NothingLeftBehind, Waiting, Published
  <1>2. CASE Main
    BY <1>0, <1>1, <1>2 DEF Main, ConnectToDB, ConnectToCache, Serve, Interrupt, Exit,
       Crash, Serving
  <1>3. ASSUME NEW r \in Requests, Handle(r)
        PROVE  NothingLeftBehind'
    <2>1. /\ pc' = [pc EXCEPT ![r] = "lost"] /\ notices' = notices
          /\ UNCHANGED <<boot, dial, service, lost, at>>
      BY <1>0, <1>3, OrphanStep DEF Handle, readers
    <2> QED
      BY <1>0, <2>1 DEF NothingLeftBehind, Waiting, Published, service, BoardInv, TypeOK
  <1>4. ASSUME NEW q \in Readers, Reader(q)
        PROVE  FALSE
    BY <1>0, <1>4, ReaderFrame DEF ReadInv
  <1>5. ASSUME NEW c \in Conns, Subscriber(c)
        PROVE  FALSE
    BY <1>0, <1>5 DEF Subscriber, Dial, CheckDialed, Upgrade, Register, Lose,
       Service!Break, Service!Leave
  <1>6. CASE UNCHANGED avars
    BY <1>1, <1>6 DEF avars
  <1> QED
    BY <1>0, <1>2, <1>3, <1>4, <1>5, <1>6 DEF ANext, Request, RequestRead, HandleRead,
       Deliver

\* Once a process runs, the question comes up again only when it ends.
LEMMA NothingLeftStep ==
  ASSUME BoardInv, ReadInv, ATypeOK, NothingLeftBehind, [ANext]_avars
  PROVE  NothingLeftBehind'
  <1>1. CASE boot \in {"down", "pool", "cache"}
    BY <1>1, StaysEmpty
  <1>2. CASE boot \notin {"down", "pool", "cache"} /\ ~End
    <2>1. boot' = boot \/ boot' \in {"up", "closing"}
      BY <1>2 DEF ANext, Main, ConnectToDB, ConnectToCache, Serve, Interrupt, Exit, Crash,
         Handle, Request, HandleRead, RequestRead, Subscriber, Dial, CheckDialed, Upgrade,
         Register, Lose, Goto, Deliver, avars
    <2> QED
      BY <1>2, <2>1 DEF NothingLeftBehind
  <1> QED
    BY <1>1, <1>2, EndLeavesNothing

-----------------------------------------------------------------------------
\* What has been announced has been done.
LEMMA PublishedIsDone ==
  ASSUME BoardInv
  PROVE  {x.by : x \in Published} \subseteq committed
  BY DEF BoardInv, TypeOK, StatusTellsTheTruth, Published

\* A reader that asks now has been told nothing yet.
LEMMA AskedNow ==
  ASSUME BoardInv, ReadInv, NEW q \in Readers, NEW i \in Asks, Get(q, i), UNCHANGED vars,
         NEW r \in committed
  PROVE  Shows(q, r)'
  <1>1. /\ at[q] = "new" /\ ask'[q] = i /\ UNCHANGED <<seen, told>>
        /\ at'[q] \in {"query", "ids"}
    BY DEF Get, ReadInv, RTypeOK
  <1>2. /\ told[q] = 0 /\ DOMAIN seen[q].messages = {}
    BY <1>1, RowsApart, NoRowsApart DEF ReadInv, ReadersInOrder, Nothing
  <1> QED
    BY <1>1, <1>2 DEF Shows, HasRows, Missing, vars, db

\* What an announcement says stays visible.
LEMMA HeardStep ==
  ASSUME BoardInv, ReadInv, ATypeOK, HeardIsDone, HeardThenRead, [ANext]_avars
  PROVE  HeardIsDone' /\ HeardThenRead'
  <1>0. [RNext]_rvars
    BY HandlersOnly
  <1>1. committed \subseteq committed' /\ \A q \in Readers : ask[q] # None => ask'[q] = ask[q]
    <2>1. CASE Grown /\ CutOff
      BY <2>1 DEF Grown, CutOff
    <2>2. ASSUME NEW q \in Readers, NEW i \in Asks, Get(q, i), UNCHANGED vars
          PROVE  committed \subseteq committed'
                   /\ \A p \in Readers : ask[p] # None => ask'[p] = ask[p]
      BY <2>2 DEF vars, Get, ReadInv, RTypeOK, ReadersInOrder
    <2>3. ASSUME NEW q \in Readers, Reader(q), UNCHANGED vars
          PROVE  committed \subseteq committed' /\ ask' = ask
      BY <2>3, ReaderFrame DEF vars, ReadInv
    <2> QED
      BY <1>0, <2>1, <2>2, <2>3, StepKinds DEF ReadInv
  <1>2. CASE heard' = heard
    <2>1. HeardIsDone'
      BY <1>1, <1>2 DEF HeardIsDone
    <2>2. ASSUME NEW q \in Readers, NEW r \in heard[q]
          PROVE  Shows(q, r)'
      <3>1. r \in committed /\ ask[q] # None /\ Shows(q, r)
        BY <2>2 DEF HeardIsDone, HeardThenRead
      <3> QED
        BY <1>0, <3>1, ShowsKept DEF ReadInv
    <2> QED
      BY <1>2, <2>1, <2>2 DEF HeardThenRead
  <1>3. ASSUME NEW q \in Readers, NEW i \in Asks, RequestRead(q, i)
        PROVE  HeardIsDone' /\ HeardThenRead'
    <2> DEFINE now == {x.by : x \in Published}
    <2>1. /\ Get(q, i) /\ UNCHANGED vars /\ now \subseteq committed
          /\ heard' = [heard EXCEPT ![q] = now]
      BY <1>3, PublishedIsDone DEF RequestRead
    <2> HIDE DEF now
    <2>2. ask'[q] # None
      BY <2>1, ReadAssumption DEF Get, ReadInv, RTypeOK
    <2>3. heard'[q] = now /\ \A p \in Readers \ {q} : heard'[p] = heard[p]
      BY <2>1 DEF ATypeOK
    <2>4. HeardIsDone'
      BY <1>1, <2>1, <2>2, <2>3 DEF HeardIsDone
    <2>5. ASSUME NEW r \in now
          PROVE  Shows(q, r)'
      BY <2>1, <2>5, AskedNow
    <2>6. ASSUME NEW p \in Readers \ {q}, NEW r \in heard[p]
          PROVE  Shows(p, r)'
      <3>1. r \in committed /\ ask[p] # None /\ Shows(p, r)
        BY <2>6 DEF HeardIsDone, HeardThenRead
      <3> QED
        BY <1>0, <3>1, ShowsKept DEF ReadInv
    <2> QED
      BY <2>3, <2>4, <2>5, <2>6 DEF HeardThenRead
  <1>4. ASSUME ~ \E q \in Readers, i \in Asks : RequestRead(q, i)
        PROVE  heard' = heard
    BY <1>4 DEF ANext, Main, ConnectToDB, ConnectToCache, Serve, Interrupt, Exit, Crash,
       End, Handle, Request, HandleRead, Subscriber, Dial, CheckDialed, Upgrade,
       Register, Lose, Goto, Deliver, avars, history
  <1> QED
    BY <1>2, <1>3, <1>4

-----------------------------------------------------------------------------
\* A handler announces under the key it was called with.
LEMMA NamedStep ==
  ASSUME BoardInv, [Next]_vars, NEW x \in notices'
  PROVE  /\ input'[x.by] = input[x.by]
         /\ x \in notices \/ x.topic = IF input[x.by].op = "create_room" THEN RoomsList
                                       ELSE input[x.by].key
  <1>1. ASSUME NEW r \in Requests, Handler(r)
        PROVE  /\ input' = input
               /\ x \in notices \/ x.topic = IF input[x.by].op = "create_room"
                                             THEN RoomsList ELSE input[x.by].key
    BY <1>1 DEF Handler, GiveUp, CreateRoom, CreateRoomMessage, ReactionToMessage,
       RemoveReactionFromMessage, SetMessageToAnswered, CheckIDs, CheckPayload,
       CheckRoomExists, CheckMessageExists, SendStatement, Reply, InsertRoom,
       InsertMessage, InsertMessageReaction, RemoveMessageReaction, AnswerMessage,
       Refuse, Commit
  <1>2. ASSUME NEW r \in Requests, NEW i \in Inputs, Receive(r, i)
        PROVE  input'[x.by] = input[x.by] /\ x \in notices
    <2>1. x \in notices /\ x.by # r
      BY <1>2 DEF Receive, BoardInv, EffectsOnce
    <2> QED
      BY <1>2, <2>1 DEF Receive, BoardInv, TypeOK
  <1> QED
    BY <1>1, <1>2 DEF Next, Restart, vars

\* The board's step, whatever the server does.
LEMMA BoardMoves ==
  ASSUME BoardInv, ReadInv, [ANext]_avars
  PROVE  [Next]_vars
  BY HandlersOnly, StepKinds DEF ReadInv

\* A publication appends its notice to its stream and to what its subscribers got.
LEMMA PublishAppends ==
  ASSUME ATypeOK, NEW x \in notices, Deliver(x)
  PROVE  /\ \A t \in Topics : stream'[t] = IF t = x.topic THEN Append(stream[t], x)
                                           ELSE stream[t]
         /\ \A c \in Conns : got'[c] = IF state[c] = "in" /\ topic[c] = x.topic
                                       THEN Append(got[c], x) ELSE got[c]
         /\ UNCHANGED <<topic, state, notices, heard, joined, input>>
  BY DEF ATypeOK, Deliver, Service!Publish, rvars, vars, history

\* The streams change only so.
LEMMA OnlyDeliverPublishes ==
  ASSUME [ANext]_avars, ~ \E x \in notices : Deliver(x)
  PROVE  stream' = stream /\ got' = got /\ topic' = topic
  BY DEF ANext, Main, ConnectToDB, ConnectToCache, Serve, Interrupt, Exit, Crash, End,
     Handle, Request, HandleRead, RequestRead, Subscriber, Dial, CheckDialed, Upgrade,
     Register, Lose, Service!Join, Service!Break, Service!Leave, avars, service

LEMMA NamesKept ==
  ASSUME BoardInv, ReadInv, ATypeOK, NoticesNamed, [ANext]_avars
  PROVE  NoticesNamed'
  <1>1. [Next]_vars
    BY BoardMoves
  <1>2. \A x \in notices' : x.topic = IF input'[x.by].op = "create_room" THEN RoomsList
                                      ELSE input'[x.by].key
    BY <1>1, NamedStep DEF NoticesNamed
  <1>3. notices \subseteq notices'
    BY <1>1, NoticesStay
  <1>4. \A t \in Topics : \A i \in 1..Len(stream'[t]) : stream'[t][i] \in notices'
    <2>1. ASSUME NEW x \in notices, Deliver(x), NEW t \in Topics,
                 NEW i \in 1..Len(stream'[t])
          PROVE  stream'[t][i] \in notices'
      <3>1. CASE t # x.topic
        BY <2>1, <3>1, <1>3, PublishAppends DEF NoticesNamed
      <3>2. CASE t = x.topic
        <4>1. stream'[t] = Append(stream[t], x) /\ stream[t] \in Seq(Notes)
          BY <2>1, <3>2, PublishAppends DEF ATypeOK
        <4>2. i = Len(stream[t]) + 1 => stream'[t][i] = x
          BY <4>1
        <4>3. i # Len(stream[t]) + 1 => i \in 1..Len(stream[t])
                                          /\ stream'[t][i] = stream[t][i]
          BY <2>1, <4>1
        <4> QED
          BY <2>1, <4>2, <4>3, <1>3 DEF NoticesNamed
      <3> QED
        BY <3>1, <3>2
    <2>2. CASE ~ \E x \in notices : Deliver(x)
      BY <2>2, <1>3, OnlyDeliverPublishes DEF NoticesNamed
    <2> QED
      BY <2>1, <2>2
  <1> QED
    BY <1>2, <1>4 DEF NoticesNamed

\* A notice that has just been published is the one that was delivered.
LEMMA PublishedNow ==
  ASSUME BoardInv, ATypeOK, NoticesNamed, [ANext]_avars, ReadInv, NEW x \in Published',
         x.topic \in Topics
  PROVE  x \in Published \/ (x \in notices /\ Deliver(x))
  <1>1. PICK i \in 1..Len(stream'[x.topic]) : stream'[x.topic][i] = x
    BY DEF Published
  <1>2. ASSUME NEW y \in notices, Deliver(y)
        PROVE  x \in Published \/ (x \in notices /\ Deliver(x))
    <2>1. x \in notices
      BY <1>2, PublishAppends DEF Published
    <2>2. CASE x.topic # y.topic
      BY <1>1, <1>2, <2>1, <2>2, PublishAppends DEF Published
    <2>3. CASE x.topic = y.topic
      <3>1. stream'[x.topic] = Append(stream[x.topic], y) /\ stream[x.topic] \in Seq(Notes)
        BY <1>2, <2>3, PublishAppends DEF ATypeOK
      <3>2. i = Len(stream[x.topic]) + 1 => x = y
        BY <1>1, <3>1
      <3>3. i # Len(stream[x.topic]) + 1 => x \in Published
        BY <1>1, <2>1, <3>1 DEF Published
      <3> QED
        BY <1>2, <3>2, <3>3
    <2> QED
      BY <2>2, <2>3
  <1>3. CASE ~ \E y \in notices : Deliver(y)
    <2>1. stream' = stream
      BY <1>3, OnlyDeliverPublishes
    <2> QED
      BY <1>1, <2>1 DEF Published, NoticesNamed
  <1> QED
    BY <1>2, <1>3

\* Nobody who has joined joins again, and nothing is taken back from anybody.
LEMMA ConnectionsStay ==
  ASSUME ATypeOK, [ANext]_avars, NEW c \in Conns, state[c] # "out"
  PROVE  state'[c] # "out" /\ (state'[c] = "in" => state[c] = "in")
  <1>1. CASE Main
    BY <1>1 DEF Main, ConnectToDB, ConnectToCache, Serve, Interrupt, Exit, Crash, End, service
  <1>2. ASSUME NEW d \in Conns, Subscriber(d)
        PROVE  state'[c] # "out" /\ (state'[c] = "in" => state[c] = "in")
    BY <1>2 DEF ATypeOK, Subscriber, Dial, CheckDialed, Upgrade, Register, Lose,
       Service!Join, Service!Break, Service!Leave, service
  <1> QED
    BY <1>1, <1>2 DEF ANext, Handle, Request, HandleRead, RequestRead, Deliver,
       Service!Publish, avars, service

LEMMA GotStays ==
  ASSUME ATypeOK, [ANext]_avars, NEW c \in Conns, NEW i \in 1..Len(got[c])
  PROVE  i \in 1..Len(got'[c]) /\ got'[c][i] = got[c][i]
  <1>1. ASSUME NEW x \in notices, Deliver(x)
        PROVE  i \in 1..Len(got'[c]) /\ got'[c][i] = got[c][i]
    <2>1. got'[c] = Append(got[c], x) \/ got'[c] = got[c]
      BY <1>1, PublishAppends
    <2>2. got[c] \in Seq(Notes)
      BY DEF ATypeOK
    <2> QED
      BY <2>1, <2>2
  <1>2. CASE ~ \E x \in notices : Deliver(x)
    BY <1>2, OnlyDeliverPublishes
  <1> QED
    BY <1>1, <1>2

LEMMA HeardOrGotStep ==
  ASSUME BoardInv, ReadInv, ATypeOK, NoticesNamed, HeardOrGot, [ANext]_avars
  PROVE  HeardOrGot'
  <1>1. ASSUME NEW q \in Readers, NEW c \in joined[q], heard'[q] = heard[q]
        PROVE  /\ state'[c] # "out"
               /\ state'[c] = "in" =>
                    \A x \in Published' : x.topic = topic'[c] =>
                      x.by \in heard'[q] \/ \E i \in 1..Len(got'[c]) : got'[c][i] = x
    <2>1. c \in Conns /\ state[c] # "out" /\ topic[c] \in Topics
      BY <1>1 DEF ATypeOK, HeardOrGot
    <2>2. topic' = topic
      BY OnlyDeliverPublishes, PublishAppends
    <2>3. ASSUME state'[c] = "in", NEW x \in Published', x.topic = topic'[c]
          PROVE  x.by \in heard'[q] \/ \E i \in 1..Len(got'[c]) : got'[c][i] = x
      <3>1. state[c] = "in"
        BY <2>1, <2>3, ConnectionsStay
      <3>2. CASE x \in Published
        <4>1. x.by \in heard[q] \/ \E i \in 1..Len(got[c]) : got[c][i] = x
          BY <2>2, <2>3, <3>1, <3>2, <1>1 DEF HeardOrGot
        <4> QED
          BY <1>1, <2>1, <4>1, GotStays
      <3>3. CASE x \in notices /\ Deliver(x)
        <4>1. got'[c] = Append(got[c], x) /\ got[c] \in Seq(Notes)
          BY <2>1, <2>2, <2>3, <3>1, <3>3, PublishAppends DEF ATypeOK
        <4>2. /\ Len(got[c]) + 1 \in 1..Len(got'[c])
              /\ got'[c][Len(got[c]) + 1] = x
          BY <4>1
        <4> QED
          BY <4>2
      <3> QED
        BY <2>1, <2>2, <2>3, <3>2, <3>3, PublishedNow
    <2> QED
      BY <2>1, <2>3, ConnectionsStay
  <1>2. ASSUME NEW q \in Readers, NEW i \in Asks, RequestRead(q, i)
        PROVE  HeardOrGot'
    <2>1. /\ heard'[q] = {x.by : x \in Published}
          /\ joined'[q] = {c \in Conns : state[c] = "in"}
          /\ \A p \in Readers \ {q} : heard'[p] = heard[p] /\ joined'[p] = joined[p]
      BY <1>2 DEF RequestRead, ATypeOK
    <2>2. Published' = Published /\ state' = state
      BY <1>2 DEF RequestRead, vars, service, Published
    <2>3. ASSUME NEW c \in joined'[q]
          PROVE  /\ state'[c] # "out"
                 /\ \A x \in Published' : x.by \in heard'[q]
      BY <2>1, <2>2, <2>3
    <2> QED
      BY <1>1, <2>1, <2>3 DEF HeardOrGot
  <1>3. CASE ~ \E q \in Readers, i \in Asks : RequestRead(q, i)
    <2>1. heard' = heard /\ joined' = joined
      BY <1>3 DEF ANext, Main, ConnectToDB, ConnectToCache, Serve, Interrupt, Exit, Crash,
         End, Handle, Request, HandleRead, Subscriber, Dial, CheckDialed, Upgrade,
         Register, Lose, Goto, Deliver, avars, history
    <2> QED
      BY <1>1, <2>1 DEF HeardOrGot
  <1> QED
    BY <1>2, <1>3

-----------------------------------------------------------------------------
\* ServerInv holds before main is started for the first time.
LEMMA ServerInit == AInit => ServerInv
  <1> SUFFICES ASSUME AInit PROVE ServerInv
    OBVIOUS
  <1> USE DEF AInit, RInit, Init
  <1>1. ATypeOK
    BY DEF ATypeOK, Service!Init
  <1>2. NothingLeftBehind
    BY DEF NothingLeftBehind, Service!Init, Waiting
  <1>3. HeardIsDone /\ HeardThenRead
    BY DEF HeardIsDone, HeardThenRead
  <1>4. NoticesNamed /\ HeardOrGot
    BY DEF NoticesNamed, HeardOrGot, Service!Init
  <1> QED
    BY <1>1, <1>2, <1>3, <1>4 DEF ServerInv

\* The invariants of the server, for any requests, readers, connections, users,
\* rooms, messages and spellings.
THEOREM ServerCorrect == ASpec => []ServerInv
  <1>1. BoardInv /\ ReadInv /\ ServerInv /\ [ANext]_avars => ServerInv'
    BY TypesKept, NothingLeftStep, HeardStep, NamesKept, HeardOrGotStep DEF ServerInv
  <1> QED
    BY <1>1, ServerInit, ServerReads, PTL DEF ASpec

\* What a subscriber has been told shows in everything asked for afterwards.
THEOREM AnnouncedIsReadable == ASpec => []HeardThenRead
  <1>1. ServerInv => HeardThenRead
    BY DEF ServerInv
  <1> QED
    BY <1>1, ServerCorrect, PTL

\* Subscribing and then listing misses nothing: what a notice says was in the
\* list, if it was announced before the list was asked for, or came to the
\* connection after.
THEOREM ListMeetsStream == ASpec => []NothingFallsBetween
  <1>1. BoardInv /\ ReadInv /\ ServerInv => NothingFallsBetween
    <2> SUFFICES ASSUME BoardInv, ReadInv, ServerInv, NEW q \in Readers,
                        NEW c \in joined[q], ask[q].op = "get_messages", HasRows(q), state[c] = "in",
                        topic[c] = ask[q].key, NEW x \in Published, x.topic = topic[c],
                        ~Counts(x.by),
                        input[x.by].op = "answer" =>
                            messages[input[x.by].msg].room = Denotes[topic[c]]
                 PROVE  InList(q, x) \/ \E i \in 1..Len(got[c]) : got[c][i] = x
      BY DEF NothingFallsBetween
    <2>1. CASE \E i \in 1..Len(got[c]) : got[c][i] = x
      BY <2>1
    <2>2. CASE x.by \in heard[q]
      <3>1. /\ x.by \in committed /\ x.by \in Requests /\ x \in notices
            /\ Shows(q, x.by)
        BY <2>2 DEF ServerInv, HeardIsDone, HeardThenRead, BoardInv, TypeOK, Published
      <3>2. /\ input[x.by].op \in {"create_room", "create_message", "answer"}
            /\ input[x.by].key \in RoomKeys
        <4>1. pc[x.by] # "new"
          BY <3>1 DEF BoardInv, EffectsOnce
        <4>2. input[x.by] \in Inputs /\ input[x.by].key \in RoomKeys
          BY <3>1, <4>1, InputKnown
        <4> QED
          BY <4>2, BoardAssumption DEF Counts, Ops
      <3>3. CASE input[x.by].op = "create_room"
        <4>1. topic[c] = RoomsList
          BY <3>1, <3>3 DEF ServerInv, NoticesNamed
        <4>2. ask[q].key \in RoomKeys
          <5>1. ask[q] # None /\ ask[q] \in Asks
            BY DEF ReadInv, RTypeOK, ReadersInOrder, HasRows
          <5> QED
            BY <5>1, ReadAssumption
        <4> QED
          BY <4>1, <4>2, BoardAssumption
      <3>4. CASE input[x.by].op = "create_message"
        <4>1. input[x.by].key = ask[q].key
          BY <3>1, <3>4 DEF ServerInv, NoticesNamed
        <4> QED
          BY <3>1, <3>4, <4>1 DEF Shows, InList
      <3>5. CASE input[x.by].op = "answer"
        <4>1. input[x.by].msg \in DOMAIN messages
          BY <3>1, <3>5 DEF BoardInv, EffectsOnce
        <4> QED
          BY <3>1, <3>5, <4>1 DEF Shows, InList
      <3> QED
        BY <3>2, <3>3, <3>4, <3>5
    <2> QED
      BY <2>1, <2>2 DEF ServerInv, HeardOrGot
  <1> QED
    BY <1>1, ServerCorrect, ServerReads, PTL

-----------------------------------------------------------------------------
(* The last count is off by what overtook it.                               *)

\* What r does to the number of its message's reactions.
Delta(r) == IF input[r].op = "react" THEN 1 ELSE -1

\* Where a handler may be once its statement has been sent.
Sent == {"sent", "orphan", "reply", "done", "lost"}

\* What is missed was made after the snapshot by others, of the same message.
SinceKnown ==
    \A r \in Requests : \A s \in since[r] :
        /\ s \in committed /\ s # r /\ pc[r] \in Sent
        /\ Counts(s) /\ Counts(r) /\ input[s].msg = input[r].msg

\* A count and the changes since its snapshot make the total.
CountLaw ==
    \A r \in Requests : Counts(r) =>
        /\ Running(r) => Cardinality(snap[r]) + Net(since[r]) = Total(input[r].msg)
        /\ r \in committed => count[r] + Net(since[r]) = Total(input[r].msg)

\* What a connection has got is the end of its topic's stream.
EndOf(c) ==
    \E n \in Nat : /\ Len(stream[topic[c]]) = n + Len(got[c])
                   /\ \A i \in 1..Len(got[c]) : got[c][i] = stream[topic[c]][n + i]

GotTheEnd ==
    \A c \in Conns : /\ state[c] = "out" => got[c] = <<>>
                     /\ state[c] = "in" => EndOf(c)

CountsKept == SinceKnown /\ CountLaw

\* A handler's step: it sends its statement, the statement commits, it replies,
\* or it does nothing that counts.
LEMMA HandlerKinds ==
  ASSUME BoardInv, NEW r \in Requests, Handler(r)
  PROVE  /\ input' = input
         /\ \A q \in Requests \ {r} : /\ pc'[q] = pc[q] /\ snap'[q] = snap[q]
                                      /\ count'[q] = count[q]
         /\ pc[r] \in Sent => pc'[r] \in Sent
         /\ \/ /\ pc[r] = "write" /\ pc'[r] = "sent" /\ snap'[r] = RowsOf(input[r].msg)
               /\ UNCHANGED <<reactions, count, committed>>
            \/ /\ Running(r) /\ pc'[r] \notin {"sent", "orphan"}
               /\ committed' = committed \cup {r} /\ snap' = snap
            \/ /\ Running(r)' => Running(r)
               /\ UNCHANGED <<reactions, count, committed, snap>>
  <1> USE DEF BoardInv, TypeOK, Sent
  <1>1. ASSUME CheckIDs(r, "payload") \/ CheckIDs(r, "room") \/ CheckPayload(r, "write")
               \/ CheckPayload(r, "room") \/ CheckRoomExists(r, "write")
               \/ CheckRoomExists(r, "message") \/ CheckMessageExists(r, "payload")
               \/ CheckMessageExists(r, "write")
        PROVE  /\ input' = input /\ \A q \in Requests \ {r} : pc'[q] = pc[q]
               /\ pc[r] \notin Sent /\ ~Running(r)'
               /\ UNCHANGED <<reactions, count, committed, snap>>
    BY <1>1 DEF CheckIDs, CheckPayload, CheckRoomExists, CheckMessageExists, Go, Fail, db,
       Running
  <1>2. ASSUME SendStatement(r)
        PROVE  /\ input' = input /\ pc[r] = "write"
               /\ \A q \in Requests \ {r} : pc'[q] = pc[q] /\ snap'[q] = snap[q]
               /\ UNCHANGED <<reactions, count, committed>>
               /\ \/ pc'[r] = "sent" /\ snap'[r] = RowsOf(input[r].msg)
                  \/ ~Running(r)' /\ snap' = snap
    BY <1>2 DEF SendStatement, Go, Fail, db, Running
  <1>3. ASSUME NEW n, Running(r), Commit(r, n)
        PROVE  /\ input' = input
               /\ \A q \in Requests \ {r} : pc'[q] = pc[q] /\ count'[q] = count[q]
               /\ pc'[r] \in {"reply", "lost"}
               /\ committed' = committed \cup {r} /\ snap' = snap
    BY <1>3 DEF Commit, Running, Go
  <1>4. ASSUME (Running(r) /\ Refuse(r)) \/ GiveUp(r)
        PROVE  /\ input' = input /\ \A q \in Requests \ {r} : pc'[q] = pc[q]
               /\ Running(r) /\ pc'[r] \in {"orphan", "lost", "done"}
               /\ UNCHANGED <<reactions, count, committed, snap>>
    BY <1>4 DEF Refuse, GiveUp, Running, Go, Fail, db
  <1>5. ASSUME NEW code, NEW t, Reply(r, code, t)
        PROVE  /\ input' = input /\ \A q \in Requests \ {r} : pc'[q] = pc[q]
               /\ pc'[r] = "done"
               /\ UNCHANGED <<reactions, count, committed, snap>>
    BY <1>5 DEF Reply, Fail, db
  <1>6. \/ \E n : Running(r) /\ Commit(r, n)
        \/ (Running(r) /\ Refuse(r)) \/ GiveUp(r)
        \/ SendStatement(r)
        \/ \E code, t : Reply(r, code, t)
        \/ CheckIDs(r, "payload") \/ CheckIDs(r, "room") \/ CheckPayload(r, "write")
           \/ CheckPayload(r, "room") \/ CheckRoomExists(r, "write")
           \/ CheckRoomExists(r, "message") \/ CheckMessageExists(r, "payload")
           \/ CheckMessageExists(r, "write")
    BY DEF Handler, CreateRoom, CreateRoomMessage, ReactionToMessage,
       RemoveReactionFromMessage, SetMessageToAnswered, InsertRoom, InsertMessage,
       InsertMessageReaction, RemoveMessageReaction, AnswerMessage
  <1>7. Running(r)' <=> pc'[r] \in {"sent", "orphan"}
    BY DEF Running
  <1>8. CASE \E n : Running(r) /\ Commit(r, n)
    BY <1>3, <1>8
  <1>9. CASE SendStatement(r)
    BY <1>2, <1>9
  <1> QED
    BY <1>1, <1>4, <1>5, <1>6, <1>7, <1>8, <1>9

\* A notice has a topic that exists, and tells of a request that has been made.
NoticesKnown ==
    /\ \A x \in notices : x.topic \in Topics /\ x.by \in committed
    /\ \A r \in committed : r \in Requests /\ input[r] # None

LEMMA Known == BoardInv /\ NoticesNamed => NoticesKnown
  <1> SUFFICES ASSUME BoardInv, NoticesNamed PROVE NoticesKnown
    OBVIOUS
  <1>1. ASSUME NEW r \in committed
        PROVE  r \in Requests /\ input[r] # None /\ input[r].key \in RoomKeys
    <2>1. r \in Requests /\ pc[r] # "new"
      BY DEF BoardInv, TypeOK, EffectsOnce
    <2> QED
      BY <2>1, InputKnown DEF BoardInv, ChecksHold
  <1>2. \A x \in notices : x.by \in committed
    BY DEF BoardInv, TypeOK, StatusTellsTheTruth
  <1> QED
    BY <1>1, <1>2 DEF NoticesKnown, NoticesNamed, Topics

\* What a connection has got stays the end of the stream.
LEMMA EndStep ==
  ASSUME BoardInv, NoticesNamed, ATypeOK, GotTheEnd, [ANext]_avars
  PROVE  GotTheEnd'
  <1> SUFFICES ASSUME NEW c \in Conns
               PROVE  /\ state'[c] = "out" => got'[c] = <<>>
                      /\ state'[c] = "in" => EndOf(c)'
    BY DEF GotTheEnd
  <1>1. /\ topic[c] \in Topics /\ stream[topic[c]] \in Seq(Notes) /\ got[c] \in Seq(Notes)
        /\ topic' = topic
    BY OnlyDeliverPublishes, PublishAppends DEF ATypeOK
  <1>2. CASE state[c] = "in"
    <2>1. PICK n \in Nat : /\ Len(stream[topic[c]]) = n + Len(got[c])
                           /\ \A i \in 1..Len(got[c]) : got[c][i] = stream[topic[c]][n + i]
      BY <1>2 DEF GotTheEnd, EndOf
    <2>2. ASSUME NEW x \in notices, Deliver(x), x.topic = topic[c]
          PROVE  /\ Len(stream'[topic[c]]) = n + Len(got'[c])
                 /\ \A i \in 1..Len(got'[c]) : got'[c][i] = stream'[topic[c]][n + i]
      <3>1. /\ stream'[topic[c]] = Append(stream[topic[c]], x)
            /\ got'[c] = Append(got[c], x)
        BY <1>1, <1>2, <2>2, PublishAppends
      <3>2. /\ Len(stream'[topic[c]]) = Len(stream[topic[c]]) + 1
            /\ Len(got'[c]) = Len(got[c]) + 1
            /\ Len(stream[topic[c]]) \in Nat /\ Len(got[c]) \in Nat
        BY <1>1, <3>1
      <3>3. ASSUME NEW i \in 1..Len(got'[c])
            PROVE  got'[c][i] = stream'[topic[c]][n + i]
        <4>1. CASE i = Len(got[c]) + 1
          <5>1. got'[c][i] = x
            BY <1>1, <3>1, <4>1
          <5>2. n + i = Len(stream[topic[c]]) + 1
            BY <2>1, <3>2, <4>1
          <5>3. stream'[topic[c]][Len(stream[topic[c]]) + 1] = x
            BY <1>1, <3>1
          <5> QED
            BY <5>1, <5>2, <5>3
        <4>2. CASE i # Len(got[c]) + 1
          <5>1. i \in 1..Len(got[c]) /\ n + i \in 1..Len(stream[topic[c]])
            BY <2>1, <3>2, <3>3, <4>2
          <5>2. got'[c][i] = got[c][i]
            BY <1>1, <3>1, <5>1
          <5>3. stream'[topic[c]][n + i] = stream[topic[c]][n + i]
            BY <1>1, <3>1, <5>1
          <5> QED
            BY <2>1, <5>1, <5>2, <5>3
        <4> QED
          BY <4>1, <4>2
      <3>4. Len(stream'[topic[c]]) = n + Len(got'[c])
        BY <2>1, <3>2
      <3> QED
        BY <3>3, <3>4
    <2>3. ASSUME ~ \E x \in notices : Deliver(x) /\ x.topic = topic[c]
          PROVE  /\ Len(stream'[topic[c]]) = n + Len(got'[c])
                 /\ \A i \in 1..Len(got'[c]) : got'[c][i] = stream'[topic[c]][n + i]
      <3>1. stream'[topic[c]] = stream[topic[c]] /\ got'[c] = got[c]
        BY <1>1, <2>3, OnlyDeliverPublishes, PublishAppends
      <3> QED
        BY <2>1, <3>1
    <2>4. state'[c] # "out"
      BY <1>2, ConnectionsStay
    <2> QED
      BY <1>1, <2>2, <2>3, <2>4 DEF EndOf
  <1>3. CASE state[c] = "out"
    <2>1. got'[c] = <<>>
      BY <1>3, OnlyDeliverPublishes, PublishAppends DEF GotTheEnd
    <2>2. stream'[topic'[c]] \in Seq(Notes)
      BY <1>1, <1>3, OnlyDeliverPublishes, PublishTypes DEF ATypeOK, ServiceTypeOK, Deliver
    <2>3. /\ Len(stream'[topic'[c]]) \in Nat
          /\ Len(stream'[topic'[c]]) = Len(stream'[topic'[c]]) + Len(got'[c])
          /\ \A i \in 1..Len(got'[c]) : FALSE
      BY <2>1, <2>2
    <2> QED
      BY <2>1, <2>3 DEF EndOf
  <1>4. CASE state[c] \notin {"in", "out"}
    BY <1>4, ConnectionsStay
  <1> QED
    BY <1>2, <1>3, <1>4

\* Only a reaction to m changes the reactions of m.
LEMMA RowsElsewhere ==
  ASSUME BoardInv, [Next]_vars, NEW m,
         \A r \in committed' \ committed : Counts(r) => input[r].msg # m
  PROVE  RowsOf(m)' = RowsOf(m)
  <1>1. CASE reactions' = reactions
    BY <1>1 DEF RowsOf
  <1>2. ASSUME NEW r \in Requests, reactions' # reactions,
               \/ ReactionToMessage(r) /\ InsertMessageReaction(r)
               \/ RemoveReactionFromMessage(r) /\ RemoveMessageReaction(r)
        PROVE  RowsOf(m)' = RowsOf(m)
    <2>1. r \in committed' \ committed /\ Running(r)
      BY <1>2 DEF InsertMessageReaction, RemoveMessageReaction, Refuse, Commit, db, Running,
         BoardInv, EffectsOnce
    <2>2. input[r].msg # m
      BY <1>2, <2>1 DEF Counts, ReactionToMessage, RemoveReactionFromMessage
    <2>3. \A x \in snap[r] : x.msg # m
      BY <2>1, <2>2 DEF Running, BoardInv, ReactionKey
    <2>4. \/ reactions' = reactions
               \cup {[msg |-> input[r].msg, user |-> input[r].user, by |-> r]}
          \/ reactions' = reactions \ {x \in snap[r] : x.user = input[r].user}
      BY <1>2 DEF InsertMessageReaction, RemoveMessageReaction, Refuse, db
    <2> QED
      BY <2>2, <2>3, <2>4 DEF RowsOf
  <1> QED
    BY <1>1, <1>2, TableStep

\* A change that takes effect moves the total by one, and what it returns is its
\* snapshot's count moved by one.
LEMMA ReactionEffect ==
  ASSUME BoardInv, [Next]_vars, NEW r \in committed' \ committed, Counts(r)
  PROVE  /\ Total(input[r].msg)' = Total(input[r].msg) + Delta(r)
         /\ count'[r] = Cardinality(snap[r]) + Delta(r)
  <1> DEFINE m == input[r].msg
             row == [msg |-> m, user |-> input[r].user, by |-> r]
             mine == {x \in snap[r] : x.user = input[r].user}
  <1>1. r \in Requests /\ Running(r) /\ input' = input /\ input[r].op \in {"react", "unreact"}
    BY ReactionCommit DEF Counts
  <1>2. Total(m)' = Cardinality({x \in reactions' : x.msg = m})
    BY <1>1 DEF Total, RowsOf
  <1>3. CASE /\ input[r].op = "react" /\ reactions' = reactions \cup {row}
             /\ Commit(r, Cardinality(snap[r]) + 1)
    <2>1. {x \in reactions' : x.msg = m} = RowsOf(m) \cup {row}
      BY <1>3 DEF RowsOf
    <2>2. row \notin RowsOf(m)
      BY DEF RowsOf, BoardInv, ReactionKey
    <2>3. count'[r] = Cardinality(snap[r]) + 1
      BY <1>1, <1>3 DEF Commit, BoardInv, TypeOK
    <2>4. Cardinality(RowsOf(m) \cup {row}) = Cardinality(RowsOf(m)) + 1
      BY <2>2, DoneFinite, FS_AddElement
    <2> QED
      BY <1>2, <1>3, <2>1, <2>3, <2>4 DEF Delta, Total
  <1>4. CASE /\ input[r].op = "unreact" /\ mine \cap reactions # {}
             /\ reactions' = reactions \ mine
             /\ Commit(r, Cardinality(snap[r]) - 1)
    <2>1. \A x \in mine : x.msg = m /\ x.user = input[r].user
      BY <1>1 DEF Running, BoardInv, ReactionKey
    <2>2. PICK old \in mine \cap reactions : TRUE
      BY <1>4
    <2>3. {x \in reactions' : x.msg = m} = RowsOf(m) \ {old} /\ old \in RowsOf(m)
      BY <1>4, <2>1, <2>2 DEF RowsOf, BoardInv, ReactionKey
    <2>4. count'[r] = Cardinality(snap[r]) - 1
      BY <1>1, <1>4 DEF Commit, BoardInv, TypeOK
    <2>5. Cardinality(RowsOf(m) \ {old}) = Cardinality(RowsOf(m)) - 1
      BY <2>3, DoneFinite, FS_RemoveElement
    <2>6. Cardinality(RowsOf(m)) \in Int /\ Cardinality(snap[r]) \in Int
      BY <1>1, DoneFinite, FS_CardinalityType DEF Total, BoardInv, Finite
    <2> QED
      BY <1>2, <1>4, <2>3, <2>4, <2>5, <2>6 DEF Delta, Total
  <1> QED
    BY <1>1, <1>3, <1>4, ReactionCommit

\* One more change counts for one more.
LEMMA NetAdds ==
  ASSUME NEW S, IsFiniteSet(S), NEW r, r \notin S, Counts(r)
  PROVE  Net(S) \in Int /\ Net(S \cup {r}) = Net(S) + Delta(r)
  <1> DEFINE adds == {q \in S : input[q].op = "react"}
             removes == {q \in S : input[q].op = "unreact"}
  <1>1. /\ IsFiniteSet(adds) /\ Cardinality(adds) \in Nat
        /\ IsFiniteSet(removes) /\ Cardinality(removes) \in Nat
    BY FS_Subset, FS_CardinalityType
  <1>2. Net(S) = Cardinality(adds) - Cardinality(removes)
    BY DEF Net
  <1>3. r \notin adds /\ r \notin removes
    OBVIOUS
  <1>4. CASE input[r].op = "react"
    <2>1. /\ {q \in S \cup {r} : input[q].op = "react"} = adds \cup {r}
          /\ {q \in S \cup {r} : input[q].op = "unreact"} = removes
      BY <1>4
    <2>2. Cardinality(adds \cup {r}) = Cardinality(adds) + 1
      BY <1>1, <1>3, FS_AddElement
    <2>3. Net(S \cup {r}) = Cardinality(adds \cup {r}) - Cardinality(removes)
      BY <2>1 DEF Net
    <2> HIDE DEF adds, removes
    <2> QED
      BY <1>1, <1>2, <1>4, <2>2, <2>3 DEF Delta
  <1>5. CASE input[r].op = "unreact"
    <2>1. /\ {q \in S \cup {r} : input[q].op = "react"} = adds
          /\ {q \in S \cup {r} : input[q].op = "unreact"} = removes \cup {r}
      BY <1>5
    <2>2. Cardinality(removes \cup {r}) = Cardinality(removes) + 1
      BY <1>1, <1>3, FS_AddElement
    <2>3. Net(S \cup {r}) = Cardinality(adds) - Cardinality(removes \cup {r})
      BY <2>1 DEF Net
    <2> HIDE DEF adds, removes
    <2> QED
      BY <1>1, <1>2, <1>5, <2>2, <2>3 DEF Delta
  <1> QED
    BY <1>4, <1>5 DEF Counts

\* Of what a request misses there is a number.
LEMMA SinceFinite ==
  ASSUME BoardInv, SinceKnown, NEW r \in Requests
  PROVE  IsFiniteSet(since[r]) /\ Net(since[r]) \in Int
  <1>1. IsFiniteSet(since[r])
    BY FS_Subset DEF BoardInv, Finite, SinceKnown
  <1>2. \A op : Cardinality({q \in since[r] : input[q].op = op}) \in Nat
    BY <1>1, FS_Subset, FS_CardinalityType
  <1>3. /\ Cardinality({q \in since[r] : input[q].op = "react"}) \in Nat
        /\ Cardinality({q \in since[r] : input[q].op = "unreact"}) \in Nat
    BY <1>2
  <1> QED
    BY <1>1, <1>3 DEF Net

\* A step that takes no snapshot and changes no reactions keeps the law.
LEMMA LawStays ==
  ASSUME BoardInv, CountsKept, committed' = committed, UNCHANGED <<reactions, count, since>>,
         \A r \in Requests :
            /\ Running(r)' => Running(r) /\ snap'[r] = snap[r]
            /\ input'[r] = input[r] \/ (pc[r] \notin Sent /\ ~Running(r)')
            /\ pc[r] \in Sent => pc'[r] \in Sent
  PROVE  CountsKept'
  <1>1. \A r \in committed : r \in Requests /\ input'[r] = input[r]
    BY DEF BoardInv, TypeOK, EffectsOnce, Sent
  <1>2. \A r \in Requests : pc[r] \in Sent => input'[r] = input[r]
    OBVIOUS
  <1>3. SinceKnown'
    BY <1>1, <1>2 DEF CountsKept, SinceKnown, Counts
  <1>4. \A m : Total(m)' = Total(m)
    BY DEF Total, RowsOf
  <1>5. \A r \in Requests : Net(since[r])' = Net(since[r])
    <2> TAKE r \in Requests
    <2>1. \A q \in since[r] : input'[q] = input[q]
      BY <1>1 DEF CountsKept, SinceKnown
    <2>2. \A op : {q \in since[r] : input'[q].op = op} = {q \in since[r] : input[q].op = op}
      BY <2>1
    <2> QED
      BY <2>2 DEF Net
  <1>6. \A r \in Requests : Running(r) => pc[r] \in Sent
    BY DEF Running, Sent
  <1>7. CountLaw'
    <2> SUFFICES ASSUME NEW r \in Requests, Counts(r)'
                 PROVE  /\ Running(r)' => (Cardinality(snap[r]) + Net(since[r])
                                             = Total(input[r].msg))'
                        /\ r \in committed' => (count[r] + Net(since[r])
                                                  = Total(input[r].msg))'
      BY DEF CountLaw
    <2>1. Running(r)' \/ r \in committed' => input'[r] = input[r] /\ Counts(r)
      BY <1>1, <1>2, <1>6 DEF Counts
    <2> QED
      BY <1>4, <1>5, <2>1 DEF CountsKept, CountLaw
  <1> QED
    BY <1>3, <1>7 DEF CountsKept

\* A statement takes its snapshot and has missed nothing yet.
LEMMA SendKeeps ==
  ASSUME BoardInv, CountsKept, NEW r \in Requests,
         pc[r] = "write", pc'[r] = "sent", snap'[r] = RowsOf(input[r].msg),
         \A q \in Requests \ {r} : pc'[q] = pc[q] /\ snap'[q] = snap[q],
         UNCHANGED <<input, reactions, count, committed, since>>
  PROVE  CountsKept'
  <1>1. since[r] = {} /\ r \notin committed
    BY DEF CountsKept, SinceKnown, Sent, BoardInv, EffectsOnce
  <1>2. SinceKnown'
    BY <1>1 DEF CountsKept, SinceKnown, Counts
  <1>3. /\ \A q \in Requests : Net(since[q])' = Net(since[q])
        /\ \A m : Total(m)' = Total(m)
    BY DEF Net, Total, RowsOf
  <1>4. Cardinality(snap'[r]) + Net(since[r]) = Total(input[r].msg)
    <2>1. /\ {q \in since[r] : input[q].op = "react"} = {}
          /\ {q \in since[r] : input[q].op = "unreact"} = {}
      BY <1>1
    <2>2. Net(since[r]) = 0
      <3>1. Net(since[r]) = Cardinality({}) - Cardinality({})
        BY <2>1 DEF Net
      <3> QED
        BY <3>1, FS_EmptySet
    <2> QED
      BY <2>2, DoneFinite DEF Total
  <1>5. CountLaw'
    BY <1>1, <1>3, <1>4 DEF CountsKept, CountLaw, Counts, Running
  <1> QED
    BY <1>2, <1>5 DEF CountsKept

\* A change that takes effect is missed by all who have counted, but for itself.
LEMMA CommitKeepsLaw ==
  ASSUME BoardInv, CountsKept, [Next]_vars, NEW r \in committed' \ committed, r \in Requests,
         Running(r), pc'[r] \notin {"sent", "orphan"}, pc'[r] \in Sent,
         \A q \in Requests \ {r} : pc'[q] = pc[q] /\ count'[q] = count[q],
         committed' = committed \cup {r}, UNCHANGED <<input, snap>>,
         since' = [s \in Requests |-> IF Misses(s, r) THEN since[s] \cup {r} ELSE since[s]]
  PROVE  CountsKept'
  <1>1. \A s \in Requests : r \notin since[s]
    BY DEF CountsKept, SinceKnown
  <1>2. \A s \in Requests : since'[s] = IF Misses(s, r) THEN since[s] \cup {r} ELSE since[s]
    OBVIOUS
  <1>3. \A s : Counts(s)' <=> Counts(s)
    BY DEF Counts
  <1>4. \A s \in Requests : Running(s) \/ s \in committed => pc[s] \in Sent
    BY DEF Running, BoardInv, EffectsOnce, Sent
  <1>5. SinceKnown'
    <2> SUFFICES ASSUME NEW s \in Requests, NEW q \in since'[s]
                 PROVE  /\ q \in committed' /\ q # s /\ pc'[s] \in Sent
                        /\ Counts(q) /\ Counts(s) /\ input[q].msg = input[s].msg
      BY <1>3 DEF SinceKnown
    <2>1. CASE q \in since[s]
      BY <2>1 DEF CountsKept, SinceKnown
    <2>2. CASE q = r /\ Misses(s, r)
      BY <1>4, <2>2 DEF Misses
    <2> QED
      BY <1>2, <2>1, <2>2
  <1>6. \A S : Net(S)' = Net(S)
    BY DEF Net
  <1>7. ASSUME NEW s \in Requests, Counts(s),
               Running(s)' \/ s \in committed'
        PROVE  IF Running(s)'
               THEN Cardinality(snap[s]) + Net(since'[s]) = Total(input[s].msg)'
               ELSE count'[s] + Net(since'[s]) = Total(input[s].msg)'
    <2>1. /\ Net(since[s]) \in Int /\ IsFiniteSet(since[s])
          /\ Cardinality(snap[s]) \in Int /\ count[s] \in Int /\ Total(input[s].msg) \in Int
      <3>1. IsFiniteSet(snap[s]) /\ count[s] \in Int
        BY DEF BoardInv, Finite, TypeOK
      <3>2. Cardinality(snap[s]) \in Int /\ Total(input[s].msg) \in Int
        BY <3>1, DoneFinite, FS_CardinalityType DEF Total
      <3> QED
        BY <3>1, <3>2, SinceFinite DEF CountsKept
    <2>2. CASE s = r
      <3>1. ~Running(s)' /\ since'[s] = since[s]
        BY <1>2, <2>2 DEF Running, Misses
      <3>2. Cardinality(snap[s]) + Net(since[s]) = Total(input[s].msg)
        BY <1>7, <2>2 DEF CountsKept, CountLaw
      <3>3. /\ Total(input[s].msg)' = Total(input[s].msg) + Delta(s)
            /\ count'[s] = Cardinality(snap[s]) + Delta(s)
        BY <1>7, <2>2, ReactionEffect
      <3>4. Delta(s) \in Int
        BY DEF Delta
      <3> QED
        BY <2>1, <3>1, <3>2, <3>3, <3>4
    <2>3. CASE s # r
      <3>1. /\ Running(s)' <=> Running(s)
            /\ s \in committed' <=> s \in committed
            /\ count'[s] = count[s]
        BY <2>3 DEF Running
      <3>2. IF Running(s)
            THEN Cardinality(snap[s]) + Net(since[s]) = Total(input[s].msg)
            ELSE count[s] + Net(since[s]) = Total(input[s].msg)
        BY <1>7, <3>1 DEF CountsKept, CountLaw
      <3>3. CASE Misses(s, r)
        <4>1. Net(since'[s]) = Net(since[s]) + Delta(r)
          BY <1>1, <1>2, <2>1, <3>3, NetAdds DEF Misses
        <4>2. Total(input[s].msg)' = Total(input[s].msg) + Delta(r)
          BY <3>3, ReactionEffect DEF Misses
        <4>3. Delta(r) \in Int
          BY DEF Delta
        <4> QED
          BY <2>1, <3>1, <3>2, <4>1, <4>2, <4>3
      <3>4. CASE ~Misses(s, r)
        <4>1. Counts(r) => input[r].msg # input[s].msg
          BY <1>7, <2>3, <3>1, <3>4 DEF Misses
        <4>2. RowsOf(input[s].msg)' = RowsOf(input[s].msg)
          BY <4>1, RowsElsewhere
        <4>3. Total(input[s].msg)' = Total(input[s].msg) /\ since'[s] = since[s]
          BY <1>2, <3>4, <4>2 DEF Total
        <4> QED
          BY <3>1, <3>2, <4>3
      <3> QED
        BY <3>3, <3>4
    <2> QED
      BY <2>2, <2>3
  <1>8. \A s \in Requests : Running(s)' => s \notin committed'
    BY DEF Running, BoardInv, EffectsOnce
  <1>9. CountLaw'
    BY <1>3, <1>6, <1>7, <1>8 DEF CountLaw
  <1> QED
    BY <1>5, <1>9 DEF CountsKept

\* Whatever the handlers do, the law is kept.
LEMMA HandleKeepsLaw ==
  ASSUME BoardInv, ATypeOK, CountsKept, [Next]_vars, NEW r \in Requests, Handle(r)
  PROVE  CountsKept'
  <1>1. /\ Handler(r)
        /\ since' = [s \in Requests |-> IF r \in committed' \ committed /\ Misses(s, r)
                                        THEN since[s] \cup {r} ELSE since[s]]
    BY DEF Handle
  <1>2. committed' = committed => since' = since
    BY <1>1 DEF ATypeOK
  <1>3. CASE /\ pc[r] = "write" /\ pc'[r] = "sent" /\ snap'[r] = RowsOf(input[r].msg)
             /\ UNCHANGED <<reactions, count, committed>>
    BY <1>1, <1>2, <1>3, HandlerKinds, SendKeeps
  <1>4. CASE /\ Running(r) /\ pc'[r] \notin {"sent", "orphan"}
             /\ committed' = committed \cup {r} /\ snap' = snap
    <2>1. r \in committed' \ committed /\ pc[r] \in Sent
      BY <1>4 DEF Running, BoardInv, EffectsOnce, Sent
    <2>2. since' = [s \in Requests |-> IF Misses(s, r) THEN since[s] \cup {r} ELSE since[s]]
      BY <1>1, <2>1
    <2> QED
      BY <1>1, <1>4, <2>1, <2>2, HandlerKinds, CommitKeepsLaw
  <1>5. CASE /\ Running(r)' => Running(r)
             /\ UNCHANGED <<reactions, count, committed, snap>>
    <2>1. \A q \in Requests \ {r} : Running(q)' <=> Running(q)
      BY <1>1, HandlerKinds DEF Running
    <2> QED
      BY <1>1, <1>2, <1>5, <2>1, HandlerKinds, LawStays
  <1> QED
    BY <1>1, <1>3, <1>4, <1>5, HandlerKinds

LEMMA LawStep ==
  ASSUME BoardInv, ReadInv, ATypeOK, CountsKept, [ANext]_avars
  PROVE  CountsKept'
  <1>1. [Next]_vars
    BY BoardMoves
  <1>2. CASE UNCHANGED <<vars, since>>
    BY <1>2, LawStays DEF vars, db, Running
  <1>3. CASE Main /\ ~End
    <2>1. UNCHANGED <<vars, since>>
      BY <1>3 DEF Main, ConnectToDB, ConnectToCache, Serve, Interrupt, Exit, Crash,
         rvars, history
    <2> QED
      BY <1>2, <2>1
  <1>4. CASE End
    <2>1. /\ \A r \in Requests : /\ Running(r)' => Running(r)
                                 /\ pc[r] \in Sent => pc'[r] \in Sent
          /\ UNCHANGED <<input, reactions, snap, count, committed, since>>
      BY <1>4 DEF End, RRestart, Restart, db, history, Running, Sent
    <2> QED
      BY <2>1, LawStays
  <1>5. ASSUME NEW r \in Requests, NEW i \in Inputs, Request(r, i)
        PROVE  CountsKept'
    <2>1. /\ pc[r] = "new" /\ pc'[r] \in {"payload", "ids"}
          /\ \A q \in Requests \ {r} : pc'[q] = pc[q] /\ input'[q] = input[q]
          /\ UNCHANGED <<reactions, snap, count, committed, since>>
      BY <1>5 DEF Request, Receive, db, history, BoardInv, TypeOK
    <2> QED
      BY <2>1, LawStays DEF Running, Sent
  <1>6. ASSUME NEW q \in Readers, HandleRead(q) \/ \E i \in Asks : RequestRead(q, i)
        PROVE  UNCHANGED <<vars, since>>
    BY <1>6 DEF HandleRead, RequestRead, history
  <1>7. ASSUME NEW c \in Conns, Subscriber(c)
        PROVE  UNCHANGED <<vars, since>>
    BY <1>7 DEF Subscriber, Dial, CheckDialed, Upgrade, Register, Lose, Goto, rvars, history
  <1>8. ASSUME NEW x \in notices, Deliver(x)
        PROVE  UNCHANGED <<vars, since>>
    BY <1>8 DEF Deliver, rvars, history
  <1>9. CASE UNCHANGED avars
    BY <1>2, <1>9 DEF avars, rvars, history
  <1> QED
    BY <1>1, <1>2, <1>3, <1>4, <1>5, <1>6, <1>7, <1>8, <1>9, HandleKeepsLaw DEF ANext

LEMMA LawInit == AInit => CountsKept /\ GotTheEnd
  BY DEF AInit, RInit, Init, Service!Init, CountsKept, SinceKnown, CountLaw, Running, GotTheEnd

\* The last count that a subscriber was told is off by what overtook it, and by
\* nothing else, if all changes were announced under its key.
THEOREM LastCountHolds == ASpec => []LastCountMissesOvertakers
  <1>1. BoardInv /\ ReadInv /\ ServerInv => NoticesNamed /\ NoticesKnown /\ ATypeOK
    BY Known DEF ServerInv
  <1>2. BoardInv /\ ATypeOK /\ NoticesKnown /\ NoticesNamed /\ CountsKept /\ GotTheEnd
          => LastCountMissesOvertakers
    <2> SUFFICES ASSUME BoardInv, ATypeOK, NoticesKnown, NoticesNamed, CountsKept, GotTheEnd,
                        NEW c \in Conns, NEW m \in DOMAIN messages,
                        NEW i \in 1..Len(got[c]), state[c] = "in",
                        LastOfReactions(got[c], i, m), AllAnnounced(topic[c], m)
                 PROVE  count[got[c][i].by] + Net(Overtakers(got[c][i])) = Total(m)
      BY DEF LastCountMissesOvertakers
    <2> DEFINE t == topic[c]
               x == got[c][i]
               r == x.by
    <2>1. t \in Topics /\ stream[t] \in Seq(Notes) /\ got[c] \in Seq(Notes)
      BY DEF ATypeOK
    <2>2. PICK n \in Nat : /\ Len(stream[t]) = n + Len(got[c])
                           /\ \A j \in 1..Len(got[c]) : got[c][j] = stream[t][n + j]
      BY DEF GotTheEnd, EndOf
    <2>3. n + i \in 1..Len(stream[t]) /\ x = stream[t][n + i]
      BY <2>1, <2>2
    <2>4. ASSUME NEW j \in 1..Len(stream[t]), OfReactions(stream[t][j], m)
          PROVE  j <= n + i
      <3>1. CASE j <= n
        BY <2>1, <2>2, <3>1
      <3>2. CASE j > n
        <4>1. j - n \in 1..Len(got[c]) /\ n + (j - n) = j
          BY <2>1, <2>2, <3>2
        <4>2. got[c][j - n] = stream[t][j]
          BY <2>2, <4>1
        <4>3. j - n <= i
          BY <2>4, <4>1, <4>2 DEF LastOfReactions
        <4> QED
          BY <2>2, <4>1, <4>3
      <3> QED
        BY <2>1, <2>2, <3>1, <3>2
    <2>5. /\ x \in notices /\ r \in committed /\ r \in Requests
          /\ Counts(r) /\ input[r].msg = m
      BY <2>1, <2>3 DEF NoticesNamed, NoticesKnown, LastOfReactions, OfReactions
    <2>6. x.topic = t
      BY <2>5 DEF AllAnnounced, Published, NoticesNamed
    <2>7. Overtakers(x) = since[r]
      <3> SUFFICES ASSUME NEW s \in since[r]
                   PROVE  \E j, k \in 1..Len(stream[t]) :
                            j < k /\ stream[t][j].by = s /\ stream[t][k] = x
        BY <2>6 DEF Overtakers
      <3>1. s \in committed /\ s # r /\ Counts(s) /\ input[s].msg = m
        BY <2>5 DEF CountsKept, SinceKnown
      <3>2. PICK y \in Published : y.by = s /\ y.topic = t
        BY <3>1 DEF AllAnnounced
      <3>3. PICK j \in 1..Len(stream[t]) : stream[t][j] = y
        BY <3>2 DEF Published
      <3>4. j <= n + i
        BY <2>4, <3>1, <3>2, <3>3 DEF OfReactions
      <3>5. j # n + i
        BY <2>3, <3>1, <3>2, <3>3
      <3>6. j < n + i
        BY <2>1, <2>3, <3>4, <3>5
      <3> QED
        BY <2>3, <3>2, <3>3, <3>6
    <2> QED
      BY <2>5, <2>7 DEF CountsKept, CountLaw
  <1>3. BoardInv /\ ReadInv /\ ServerInv /\ CountsKept /\ GotTheEnd /\ [ANext]_avars
          => CountsKept' /\ GotTheEnd'
    BY <1>1, LawStep, EndStep
  <1> QED
    BY <1>1, <1>2, <1>3, LawInit, ServerReads, ServerCorrect, PTL DEF ASpec

-----------------------------------------------------------------------------
(* The server keeps what its parts promise.                                 *)

\* Main, the subscribers and the notifications change nothing for the handlers
\* of requests: the server is BoardReads, and MessageBoard within it.
THEOREM ServerIsBoard == ASpec => RSpec /\ Spec
  <1>1. ASpec => RSpec
    BY HandlersOnly, PTL DEF ASpec, AInit, RSpec
  <1> QED
    BY <1>1, BoardBesideReaders

\* Across crashes, interrupts and restarts each request is one atomic step on
\* the tables and each reading one atomic look at them.
THEOREM ServerIsAtomic == ASpec => ImplementsAtomicBoard /\ ImplementsAtomicReads
  BY ServerIsBoard, BoardIsAtomic, ReadersLook

\* An answered message is never answered again, across all processes.
THEOREM ServerAnswersOnce == ASpec => AnswerIsFinal
  BY ServerIsBoard, AnswerStays

\* A status is true, the reactions add up to the requests, and nothing refers to
\* what is not there, across all processes.
THEOREM ServerStatusTrue ==
  ASpec => [](StatusTellsTheTruth /\ ReactionsAddUp /\ StatementsFindTheirRows)
  BY ServerIsBoard, StatusTrue, ReactionsBalance, NoDanglingReference, PTL

\* What was written, read or announced before shows in what is asked for now,
\* also when the process has ended in between.
THEOREM ServerNeverGoesBack ==
  ASpec => [](ReadYourWrites /\ MonotonicReads /\ HeardThenRead)
  BY ServerIsBoard, WritesAreRead, ReadsGoForward, AnnouncedIsReadable, PTL
=============================================================================
