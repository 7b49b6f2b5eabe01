--------------------------- MODULE BoardReadsProofs ---------------------------
(* What readers are told, for any writers, readers, rooms and messages.      *)
(* BoardInv of MessageBoardProofs and ReadInv together are inductive: one     *)
(* lemma says what a step of the board can do to the tables, one what a step  *)
(* of a reader can be, and the rest follows from the two.                     *)
EXTENDS BoardReads, MessageBoardProofs

\* What the tables look like after a step of the board: nothing goes, nothing
\* moves to another room, an answer stays, a committed request stays what it was.
Grown ==
    /\ rooms \subseteq rooms'
    /\ DOMAIN messages \subseteq DOMAIN messages'
    /\ \A m \in DOMAIN messages : messages'[m].room = messages[m].room
    /\ \A m \in DOMAIN messages : messages[m].answer # None => messages'[m] = messages[m]
    /\ committed \subseteq committed'
    /\ \A r \in committed' : input'[r] = input[r]

\* A step that leaves the tables alone.
LEMMA StandingStill ==
  ASSUME UNCHANGED <<db, committed, input>>
  PROVE  Grown
  BY DEF Grown, db

\* The three statements that add or change rows, and the two about reactions.
LEMMA InsertRoomGrows ==
  ASSUME NEW r \in Requests, BoardInv, InsertRoom(r)
  PROVE  Grown /\ r \in rooms' /\ committed' = committed \cup {r}
  BY DEF InsertRoom, Commit, Grown

LEMMA InsertMessageGrows ==
  ASSUME NEW r \in Requests, BoardInv, InsertMessage(r)
  PROVE  /\ Grown /\ committed' = committed \cup {r}
         /\ r \in DOMAIN messages' /\ messages'[r].room = Denotes[input[r].key]
  <1>1. r \notin DOMAIN messages
    BY CommitStep, BoardAssumption DEF InsertMessage, BoardInv, EffectsOnce
  <1>2. /\ DOMAIN messages' = DOMAIN messages \cup {r}
        /\ \A m \in DOMAIN messages : messages'[m] = messages[m]
        /\ messages'[r] = [room |-> Denotes[input[r].key], answer |-> None]
    BY <1>1 DEF InsertMessage
  <1> QED
    BY <1>2 DEF InsertMessage, Commit, Grown

LEMMA AnswerGrows ==
  ASSUME NEW r \in Requests, BoardInv, AnswerMessage(r)
  PROVE  Grown /\ committed' \subseteq committed \cup {r}
  <1>1. CASE messages[input[r].msg].answer # None
    BY <1>1 DEF AnswerMessage, Refuse, db, Grown
  <1>2. CASE messages[input[r].msg].answer = None
    <2>1. /\ DOMAIN messages' = DOMAIN messages
          /\ \A m \in DOMAIN messages : m # input[r].msg => messages'[m] = messages[m]
          /\ committed' = committed \cup {r} /\ rooms' = rooms /\ input' = input
      BY <1>2 DEF AnswerMessage, Commit
    <2>2. ASSUME input[r].msg \in DOMAIN messages
          PROVE  messages'[input[r].msg].room = messages[input[r].msg].room
      BY <1>2, <2>2 DEF AnswerMessage, BoardInv, TypeOK
    <2> QED
      BY <1>2, <2>1, <2>2 DEF Grown
  <1> QED
    BY <1>1, <1>2

LEMMA ReactionGrows ==
  ASSUME NEW r \in Requests, BoardInv,
         InsertMessageReaction(r) \/ RemoveMessageReaction(r)
  PROVE  Grown /\ committed' \subseteq committed \cup {r}
  BY DEF InsertMessageReaction, RemoveMessageReaction, Refuse, Commit, db, Grown

\* The steps of a handler that are not its statement.
LEMMA OtherStep ==
  ASSUME NEW r \in Requests, Handler(r), ~InsertRoom(r), ~InsertMessage(r),
         ~AnswerMessage(r), ~InsertMessageReaction(r), ~RemoveMessageReaction(r)
  PROVE  UNCHANGED <<db, committed, input>>
  BY DEF Handler, GiveUp, CreateRoom, CreateRoomMessage, ReactionToMessage,
     RemoveReactionFromMessage, SetMessageToAnswered, CheckIDs, CheckPayload,
     CheckRoomExists, CheckMessageExists, SendStatement, Reply, db

\* A commit whose own effect is there keeps the effects of the others.
LEMMA EffectsGrow ==
  ASSUME NEW r \in Requests, EffectsStay, Grown, committed' \subseteq committed \cup {r},
         r \in committed' /\ input[r].op = "create_room" => r \in rooms',
         r \in committed' /\ input[r].op = "create_message" =>
           r \in DOMAIN messages' /\ messages'[r].room = Denotes[input[r].key]
  PROVE  EffectsStay'
  BY DEF EffectsStay, Grown

\* A handler's statement is the one for its operation.
LEMMA HandlerGrows ==
  ASSUME NEW r \in Requests, BoardInv, EffectsStay, Handler(r)
  PROVE  Grown /\ EffectsStay'
  <1>1. CASE ~InsertRoom(r) /\ ~InsertMessage(r) /\ ~AnswerMessage(r)
               /\ ~InsertMessageReaction(r) /\ ~RemoveMessageReaction(r)
    <2>1. UNCHANGED <<db, committed, input>>
      BY <1>1, OtherStep
    <2>2. Grown
      BY <2>1, StandingStill
    <2> QED
      BY <2>1, <2>2 DEF EffectsStay, db
  <1>2. CASE CreateRoom(r) /\ InsertRoom(r)
    BY <1>2, InsertRoomGrows, EffectsGrow DEF CreateRoom
  <1>3. CASE CreateRoomMessage(r) /\ InsertMessage(r)
    BY <1>3, InsertMessageGrows, EffectsGrow DEF CreateRoomMessage
  <1>4. CASE SetMessageToAnswered(r) /\ AnswerMessage(r)
    BY <1>4, AnswerGrows, EffectsGrow DEF SetMessageToAnswered
  <1>5. CASE (ReactionToMessage(r) \/ RemoveReactionFromMessage(r))
               /\ (InsertMessageReaction(r) \/ RemoveMessageReaction(r))
    BY <1>5, ReactionGrows, EffectsGrow
    DEF ReactionToMessage, RemoveReactionFromMessage
  <1>6. ASSUME UNCHANGED <<db, committed, input>>
        PROVE  Grown /\ EffectsStay'
    BY <1>6, StandingStill DEF EffectsStay, db
  <1> QED
    BY <1>1, <1>2, <1>3, <1>4, <1>5, <1>6
    DEF Handler, GiveUp, CreateRoom, CreateRoomMessage, ReactionToMessage,
        RemoveReactionFromMessage, SetMessageToAnswered, CheckIDs, CheckPayload,
        CheckRoomExists, CheckMessageExists, SendStatement, Reply

\* Every step of the board lets the tables grow.
LEMMA BoardGrows ==
  ASSUME BoardInv, EffectsStay, [Next]_vars
  PROVE  Grown /\ EffectsStay'
  <1>1. ASSUME NEW r \in Requests, NEW i \in Inputs, Receive(r, i)
        PROVE  Grown /\ EffectsStay'
    <2>1. r \notin committed
      BY <1>1 DEF Receive, BoardInv, EffectsOnce
    <2> QED
      BY <1>1, <2>1 DEF Receive, db, Grown, EffectsStay, BoardInv, TypeOK
  <1>2. CASE UNCHANGED <<db, committed, input>>
    BY <1>2, StandingStill DEF EffectsStay, db
  <1> QED
    BY <1>1, <1>2, HandlerGrows DEF Next, Restart, vars

-----------------------------------------------------------------------------
\* A 404, or a 400 for a request with nothing wrong in it, is given for a room
\* or a message that is not there.
Denied(q, code) ==
    /\ code \in {400, 404, 500}
    /\ code = 400 /\ ask[q].flaw = "none" =>
           ask[q].op # "get_rooms" /\ Denotes[ask[q].key] \notin rooms
    /\ code = 404 => \/ ask[q].op = "get_room" /\ Denotes[ask[q].key] \notin rooms
                     \/ ask[q].op = "get_message" /\ ask[q].msg \notin DOMAIN messages

\* Rows that a query returns are rows of the tables, and a list is complete.
Current(q, rs, ms) ==
    /\ rs \subseteq rooms
    /\ ask[q].op = "get_rooms" => rs = rooms
    /\ DOMAIN ms \subseteq DOMAIN messages
    /\ \A m \in DOMAIN ms : ms[m] = messages[m]
    /\ ask[q].op = "get_messages" => DOMAIN ms = Listed(q)

\* The rows of a result can be taken apart.
LEMMA RowsApart ==
  ASSUME NEW rs, NEW ms, NEW counts
  PROVE  /\ Result(rs, ms, counts).rooms = rs
         /\ Result(rs, ms, counts).messages = ms
         /\ Result(rs, ms, counts).counts = counts
  BY DEF Result

LEMMA NoRowsApart == DOMAIN NoRows = {}
  BY DEF NoRows

\* Whatever a reader does is one of four things.
LEMMA ReaderShape ==
  ASSUME NEW q \in Readers, Reader(q)
  PROVE  \/ at[q] \in {"ids", "room"} /\ \E next \in {"room", "query"} : Proceed(q, next)
         \/ /\ at[q] \in {"ids", "room", "query"}
            /\ \E code : Denied(q, code) /\ Error(q, code)
         \/ /\ at[q] = "query"
            /\ \E rs, ms, counts : Current(q, rs, ms) /\ Select(q, Result(rs, ms, counts))
         \/ SendRows(q)
  <1> DEFINE Shape ==
         \/ at[q] \in {"ids", "room"} /\ \E next \in {"room", "query"} : Proceed(q, next)
         \/ /\ at[q] \in {"ids", "room", "query"}
            /\ \E code : Denied(q, code) /\ Error(q, code)
         \/ /\ at[q] = "query"
            /\ \E rs, ms, counts : Current(q, rs, ms) /\ Select(q, Result(rs, ms, counts))
         \/ SendRows(q)
  <1> USE NoRowsApart
  <1>1. ASSUME NEW next \in {"room", "query"}, ParseIDs(q, next)
        PROVE  Shape
    BY <1>1 DEF ParseIDs, Denied
  <1>2. ASSUME FindRoom(q), ask[q].op # "get_rooms"
        PROVE  Shape
    BY <1>2 DEF FindRoom, Denied
  <1>3. ASSUME Error(q, 500), at[q] = "query"
        PROVE  Shape
    BY <1>3 DEF Denied
  <1>4. ASSUME SelectRooms(q), ask[q].op = "get_rooms"
        PROVE  Shape
    <2>1. Current(q, rooms, NoRows)
      BY <1>4 DEF Current
    <2> QED
      BY <1>3, <1>4, <2>1 DEF SelectRooms
  <1>5. ASSUME SelectRoomWithUser(q), ask[q].op = "get_room"
        PROVE  Shape
    <2>1. Denotes[ask[q].key] \in rooms =>
            Current(q, {Denotes[ask[q].key]}, NoRows)
      BY <1>5 DEF Current
    <2>2. Denotes[ask[q].key] \notin rooms => Denied(q, 404)
      BY <1>5 DEF Denied
    <2> QED
      BY <1>3, <1>5, <2>1, <2>2 DEF SelectRoomWithUser
  <1>6. ASSUME SelectRoomMessages(q), ask[q].op = "get_messages"
        PROVE  Shape
    <2> DEFINE ms == Listed(q)
               found == [m \in ms |-> messages[m]]
               counts == [m \in ms |-> Cardinality(RowsOf(m))]
    <2>1. ms \subseteq DOMAIN messages
      BY DEF Listed
    <2>2. Current(q, {}, found)
      BY <1>6, <2>1 DEF Current
    <2>3. at[q] = "query" /\ (Select(q, Result({}, found, counts)) \/ Error(q, 500))
      BY <1>6 DEF SelectRoomMessages
    <2> QED
      BY <1>3, <2>2, <2>3
  <1>7. ASSUME SelectMessage(q), ask[q].op = "get_message"
        PROVE  Shape
    <2> DEFINE asked == ask[q].msg
               found == [x \in {asked} |-> messages[x]]
    <2>1. asked \in DOMAIN messages => Current(q, {}, found)
      BY <1>7 DEF Current
    <2>2. asked \notin DOMAIN messages => Denied(q, 404)
      BY <1>7 DEF Denied
    <2>3. at[q] = "query" /\ \/ asked \in DOMAIN messages /\ Select(q, Result({}, found, NoRows))
                             \/ asked \notin DOMAIN messages /\ Error(q, 404)
                             \/ Error(q, 500)
      BY <1>7 DEF SelectMessage
    <2> QED
      BY <1>3, <2>1, <2>2, <2>3
  <1>8. ASSUME SendRows(q)
        PROVE  Shape
    BY <1>8
  <1> HIDE DEF Shape
  <1>9. Shape
    BY <1>1, <1>2, <1>4, <1>5, <1>6, <1>7, <1>8
    DEF Reader, GetRooms, GetRoom, GetRoomMessages, GetRoomMessage
  <1> QED
    BY <1>9 DEF Shape

-----------------------------------------------------------------------------
\* The tables grow, and the readers stay as they are or are cut off.
CutOff ==
    /\ UNCHANGED <<ask, seen, told, after>>
    /\ at' \in [Readers -> {"new", "ids", "room", "query", "reply", "done", "lost"}]
    /\ \A q \in Readers : at'[q] = at[q]
                            \/ (at[q] \notin {"new", "done"} /\ at'[q] = "lost")

\* A step of a reader changes nothing of the others, and none of its own history.
LEMMA ReaderFrame ==
  ASSUME RTypeOK, NEW q \in Readers, Reader(q)
  PROVE  /\ at' = [at EXCEPT ![q] = at'[q]] /\ seen' = [seen EXCEPT ![q] = seen'[q]]
         /\ told' = [told EXCEPT ![q] = told'[q]]
         /\ UNCHANGED <<ask, after>>
         /\ at[q] \in {"ids", "room", "query", "reply"}
  BY ReaderShape DEF RTypeOK, Proceed, Error, Select, SendRows

\* What a step of a reader leaves behind.
LEMMA ReaderEffect ==
  ASSUME RTypeOK, NEW q \in Readers, Reader(q)
  PROVE  \/ /\ at[q] \in {"ids", "room"} /\ at'[q] \in {"room", "query"}
            /\ seen'[q] = seen[q] /\ told'[q] = told[q]
         \/ /\ at[q] \in {"ids", "room", "query"} /\ at'[q] = "done"
            /\ seen'[q] = seen[q] /\ Denied(q, told'[q])
         \/ /\ at[q] = "query" /\ at'[q] = "reply" /\ told'[q] = told[q]
            /\ \E rs, ms, counts : Current(q, rs, ms) /\ seen'[q] = Result(rs, ms, counts)
         \/ /\ at[q] = "reply" /\ at'[q] = "done"
            /\ seen'[q] = seen[q] /\ told'[q] = 200
  <1>1. CASE at[q] \in {"ids", "room"} /\ \E next \in {"room", "query"} : Proceed(q, next)
    BY <1>1 DEF RTypeOK, Proceed
  <1>2. CASE /\ at[q] \in {"ids", "room", "query"}
             /\ \E code : Denied(q, code) /\ Error(q, code)
    <2>1. PICK code : Denied(q, code) /\ Error(q, code)
      BY <1>2
    <2>2. at'[q] = "done" /\ seen'[q] = seen[q] /\ told'[q] = code
      BY <2>1 DEF RTypeOK, Error
    <2> QED
      BY <1>2, <2>1, <2>2
  <1>3. CASE /\ at[q] = "query"
             /\ \E rs, ms, counts : Current(q, rs, ms) /\ Select(q, Result(rs, ms, counts))
    <2>1. PICK rs, ms, counts : Current(q, rs, ms) /\ Select(q, Result(rs, ms, counts))
      BY <1>3
    <2>2. /\ at'[q] = "reply" /\ told'[q] = told[q]
          /\ seen'[q] = Result(rs, ms, counts)
      BY <2>1 DEF RTypeOK, Select
    <2> QED
      BY <1>3, <2>1, <2>2
  <1>4. CASE SendRows(q)
    BY <1>4 DEF RTypeOK, SendRows
  <1> QED
    BY <1>1, <1>2, <1>3, <1>4, ReaderShape

\* Nothing that a reader does or is told contradicts a request that had been
\* committed before.
LEMMA ReaderShows ==
  ASSUME BoardInv, RTypeOK, EffectsStay, ReadersInOrder, NEW q \in Readers, Reader(q),
         NEW r \in committed, Shows(q, r), UNCHANGED vars
  PROVE  Shows(q, r)'
  <1>0. /\ r \in Requests /\ input' = input /\ ask' = ask
        /\ input[r].op = "create_room" => r \in rooms
        /\ input[r].op = "create_message" =>
             r \in DOMAIN messages /\ messages[r].room = Denotes[input[r].key]
        /\ messages' = messages
        /\ input[r].op = "answer" => /\ input[r].msg \in DOMAIN messages
                                     /\ messages[input[r].msg].answer = r
    BY ReaderFrame DEF BoardInv, TypeOK, EffectsStay, EffectsOnce, OneAnswerWins,
       Did, vars, db
  <1>1. CASE at[q] \in {"ids", "room"} /\ at'[q] \in {"room", "query"}
             /\ seen'[q] = seen[q] /\ told'[q] = told[q]
    BY <1>0, <1>1 DEF Shows, HasRows, Missing
  <1>2. CASE /\ at[q] \in {"ids", "room", "query"} /\ at'[q] = "done"
             /\ seen'[q] = seen[q] /\ Denied(q, told'[q])
    BY <1>0, <1>2 DEF Shows, HasRows, Missing, Denied
  <1>3. CASE /\ at[q] = "query" /\ at'[q] = "reply" /\ told'[q] = told[q]
             /\ \E rs, ms, counts : Current(q, rs, ms) /\ seen'[q] = Result(rs, ms, counts)
    <2>1. PICK rs, ms, counts : Current(q, rs, ms) /\ seen'[q] = Result(rs, ms, counts)
      BY <1>3
    <2>2. seen'[q].rooms = rs /\ seen'[q].messages = ms
      BY <2>1, RowsApart
    <2>3. told[q] = 0
      BY <1>3 DEF ReadersInOrder
    <2> QED
      BY <1>0, <1>3, <2>1, <2>2, <2>3 DEF Shows, HasRows, Missing, Current, Listed
  <1>4. CASE /\ at[q] = "reply" /\ at'[q] = "done"
             /\ seen'[q] = seen[q] /\ told'[q] = 200
    BY <1>0, <1>4 DEF Shows, HasRows, Missing
  <1> QED
    BY <1>1, <1>2, <1>3, <1>4, ReaderEffect

\* What can happen: the tables grow and readers at most end; somebody asks; or
\* a reader goes on.
LEMMA StepKinds ==
  ASSUME BoardInv, RTypeOK, EffectsStay, [RNext]_rvars
  PROVE  \/ Grown /\ CutOff /\ EffectsStay' /\ [Next]_vars
         \/ \E q \in Readers, i \in Asks : Get(q, i) /\ UNCHANGED vars
         \/ \E q \in Readers : Reader(q) /\ UNCHANGED vars
  <1>1. CASE UNCHANGED rvars
    BY <1>1, BoardGrows DEF rvars, readers, CutOff, RTypeOK
  <1>2. CASE \E r \in Requests : Writer(r) /\ UNCHANGED readers
    BY <1>2, BoardGrows DEF Writer, Next, readers, CutOff, RTypeOK
  <1>3. CASE RRestart
    <2>1. Grown /\ EffectsStay' /\ [Next]_vars
      BY <1>3, BoardGrows DEF RRestart, Next
    <2>2. CutOff
      BY <1>3 DEF RRestart, CutOff, RTypeOK
    <2> QED
      BY <2>1, <2>2
  <1> QED
    BY <1>1, <1>2, <1>3 DEF RNext

\* Nor does anything else that happens.
LEMMA ShowsKept ==
  ASSUME BoardInv, RTypeOK, EffectsStay, ReadersInOrder, [RNext]_rvars,
         NEW q \in Readers, ask[q] # None, NEW r \in committed, Shows(q, r)
  PROVE  Shows(q, r)'
  <1>1. ASSUME Grown, CutOff
        PROVE  Shows(q, r)'
    BY <1>1 DEF BoardInv, TypeOK, EffectsOnce, Grown, CutOff, Shows, HasRows, Missing
  <1>2. ASSUME NEW p \in Readers, NEW i \in Asks, Get(p, i), UNCHANGED vars
        PROVE  Shows(q, r)'
    <2>1. p # q
      BY <1>2 DEF Get, ReadersInOrder
    <2> QED
      BY <1>2, <2>1 DEF Get, RTypeOK, vars, db, Shows, HasRows, Missing
  <1>3. ASSUME NEW p \in Readers, Reader(p), UNCHANGED vars
        PROVE  Shows(q, r)'
    <2>1. CASE p = q
      BY <1>3, <2>1, ReaderShows
    <2>2. CASE p # q
      BY <1>3, <2>2, ReaderFrame DEF RTypeOK, vars, db, Shows, HasRows, Missing
    <2> QED
      BY <2>1, <2>2
  <1> QED
    BY <1>1, <1>2, <1>3, StepKinds

-----------------------------------------------------------------------------
\* ReadInv holds when the process starts, before anybody has read anything.
LEMMA ReadInit == RInit => ReadInv
  <1> SUFFICES ASSUME RInit PROVE ReadInv
    OBVIOUS
  <1> USE DEF RInit
  <1>1. Nothing.rooms = {} /\ DOMAIN Nothing.messages = {}
    BY RowsApart, NoRowsApart DEF Nothing
  <1>2. RTypeOK
    BY RowsApart DEF RTypeOK, Nothing
  <1>3. EffectsStay
    BY DEF Init, EffectsStay
  <1>4. StillTrue
    BY <1>1 DEF StillTrue
  <1>5. ReadersInOrder
    BY DEF ReadersInOrder, Missing
  <1>6. ReadYourWrites /\ MonotonicReads
    BY DEF ReadYourWrites, MonotonicReads
  <1> QED
    BY <1>2, <1>3, <1>4, <1>5, <1>6 DEF ReadInv

\* While the tables grow, what was read stays true.
LEMMA GrowingKeeps ==
  ASSUME BoardInv, ReadInv, Grown, CutOff, EffectsStay'
  PROVE  ReadInv'
  <1> USE DEF ReadInv
  <1>1. RTypeOK'
    BY DEF RTypeOK, CutOff
  <1>2. StillTrue'
    BY DEF RTypeOK, StillTrue, CutOff, Grown
  <1>3. ReadersInOrder'
    BY DEF ReadersInOrder, CutOff, Grown, Missing
  <1>4. ReadYourWrites'
    BY DEF BoardInv, EffectsOnce, ReadYourWrites, ReadersInOrder, CutOff, Grown, Shows,
       HasRows, Missing
  <1>5. MonotonicReads'
    BY DEF MonotonicReads, NoOlder, CutOff, HasRows, Missing
  <1> QED
    BY <1>1, <1>2, <1>3, <1>4, <1>5

\* Somebody asks: nothing is known yet that could contradict anything.
LEMMA GetKeeps ==
  ASSUME BoardInv, ReadInv, NEW q \in Readers, NEW i \in Asks, Get(q, i), UNCHANGED vars
  PROVE  ReadInv'
  <1> USE DEF ReadInv
  <1>1. /\ at[q] = "new" /\ ask' = [ask EXCEPT ![q] = i]
        /\ after' = [after EXCEPT ![q] = Answered]
        /\ UNCHANGED <<seen, told>>
        /\ at' = [at EXCEPT ![q] = at'[q]] /\ at'[q] \in {"query", "ids"}
    BY DEF Get, RTypeOK
  <1>2. /\ ask[q] = None /\ seen[q] = Nothing /\ told[q] = 0
        /\ DOMAIN seen[q].messages = {} /\ seen[q].rooms = {}
    BY <1>1, RowsApart, NoRowsApart DEF ReadersInOrder, Nothing
  <1>3. i # None
    BY ReadAssumption
  <1>4. /\ Answered \subseteq Requests \cup Readers
        /\ Answered \cap Requests \subseteq committed
        /\ \A p \in Answered \cap Readers : told[p] = 200
    BY ReadAssumption DEF Answered, BoardInv, StatusTellsTheTruth
  <1>5. RTypeOK'
    BY <1>1, <1>4 DEF RTypeOK
  <1>6. EffectsStay'
    BY DEF vars, db, EffectsStay
  <1>7. StillTrue'
    BY <1>1, <1>2 DEF RTypeOK, vars, db, StillTrue
  <1>8. ReadersInOrder'
    BY <1>1, <1>2, <1>3, <1>4 DEF RTypeOK, vars, ReadersInOrder, Missing
  <1>9. ReadYourWrites'
    BY <1>1, <1>2 DEF RTypeOK, vars, db, ReadYourWrites, Shows, HasRows, Missing
  <1>10. MonotonicReads'
    <2>1. /\ ask'[q] = i /\ \A z \in Readers \ {q} : ask'[z] = ask[z] /\ at'[z] = at[z]
          /\ after'[q] = Answered /\ \A z \in Readers \ {q} : after'[z] = after[z]
          /\ seen' = seen /\ told' = told
      BY <1>1 DEF RTypeOK
    <2>2. \A p \in Answered \cap Readers : NoOlder(q, p)'
      BY <1>1, <1>2, <2>1 DEF NoOlder, HasRows, Missing
    <2>3. \A z \in Readers \ {q} : \A p \in after[z] \cap Readers : p # q /\ NoOlder(z, p)'
      BY <1>2, <2>1 DEF MonotonicReads, ReadersInOrder, NoOlder, HasRows, Missing
    <2> QED
      BY <2>1, <2>2, <2>3 DEF MonotonicReads
  <1> QED
    BY <1>5, <1>6, <1>7, <1>8, <1>9, <1>10

\* A reader goes on.  What it finds is no older than what readers before it
\* found, since that is still true.
LEMMA ReaderNoOlder ==
  ASSUME BoardInv, ReadInv, NEW q \in Readers, Reader(q), UNCHANGED vars,
         NEW p \in after[q] \cap Readers, NoOlder(q, p)
  PROVE  NoOlder(q, p)'
  <1> USE DEF ReadInv
  <1>0. /\ p \in Readers /\ p # q /\ ask' = ask /\ seen'[p] = seen[p]
        /\ told[p] = 200 /\ ask[p] # None
        /\ seen[p].rooms \subseteq rooms
        /\ \A m \in DOMAIN seen[p].messages :
               /\ m \in DOMAIN messages
               /\ seen[p].messages[m].answer # None => seen[p].messages[m] = messages[m]
               /\ ask[p].op = "get_messages" => messages[m].room = Denotes[ask[p].key]
    BY ReaderFrame DEF RTypeOK, ReadersInOrder, StillTrue
  <1>1. CASE /\ at[q] \in {"ids", "room"} /\ at'[q] \in {"room", "query"}
             /\ seen'[q] = seen[q] /\ told'[q] = told[q]
    BY <1>0, <1>1 DEF NoOlder, HasRows, Missing
  <1>2. CASE /\ at[q] \in {"ids", "room", "query"} /\ at'[q] = "done"
             /\ seen'[q] = seen[q] /\ Denied(q, told'[q])
    BY <1>0, <1>2 DEF NoOlder, HasRows, Missing, Denied
  <1>3. CASE /\ at[q] = "query" /\ at'[q] = "reply" /\ told'[q] = told[q]
             /\ \E rs, ms, counts : Current(q, rs, ms) /\ seen'[q] = Result(rs, ms, counts)
    <2>1. PICK rs, ms, counts : Current(q, rs, ms) /\ seen'[q] = Result(rs, ms, counts)
      BY <1>3
    <2>2. seen'[q].rooms = rs /\ seen'[q].messages = ms
      BY <2>1, RowsApart
    <2>3. told[q] = 0
      BY <1>3 DEF ReadersInOrder
    <2> QED
      BY <1>0, <1>3, <2>1, <2>2, <2>3 DEF NoOlder, HasRows, Missing, Current, Listed
  <1>4. CASE /\ at[q] = "reply" /\ at'[q] = "done"
             /\ seen'[q] = seen[q] /\ told'[q] = 200
    BY <1>0, <1>4 DEF NoOlder, HasRows, Missing
  <1> QED
    BY <1>1, <1>2, <1>3, <1>4, ReaderEffect

LEMMA ReaderKeeps ==
  ASSUME BoardInv, ReadInv, NEW q \in Readers, Reader(q), UNCHANGED vars
  PROVE  ReadInv'
  <1> USE DEF ReadInv
  <1>1. /\ at' = [at EXCEPT ![q] = at'[q]] /\ seen' = [seen EXCEPT ![q] = seen'[q]]
        /\ told' = [told EXCEPT ![q] = told'[q]]
        /\ ask' = ask /\ after' = after
        /\ at[q] \in {"ids", "room", "query", "reply"}
        /\ ask[q] # None
    BY ReaderFrame DEF ReadersInOrder
  <1>2. \A p \in Readers \ {q} : /\ at'[p] = at[p] /\ seen'[p] = seen[p]
                                 /\ told'[p] = told[p]
    BY <1>1 DEF RTypeOK
  <1>3. RTypeOK'
    <2>1. at'[q] \in {"room", "query", "reply", "done"}
      BY ReaderEffect
    <2>2. told'[q] \in {0, 200, 400, 404, 500}
      BY ReaderEffect DEF RTypeOK, Denied
    <2>3. seen'[q] = Result(seen'[q].rooms, seen'[q].messages, seen'[q].counts)
      BY ReaderEffect, RowsApart DEF RTypeOK
    <2>4. \A p \in Readers : seen'[p] = Result(seen'[p].rooms, seen'[p].messages,
                                              seen'[p].counts)
      <3>1. \A p \in Readers : seen[p] = Result(seen[p].rooms, seen[p].messages,
                                               seen[p].counts)
        BY DEF RTypeOK
      <3> QED
        BY <1>2, <2>3, <3>1
    <2>5. seen' = [p \in Readers |-> Result(seen'[p].rooms, seen'[p].messages,
                                            seen'[p].counts)]
      <3>1. seen' = [p \in Readers |-> seen'[p]]
        BY <1>1 DEF RTypeOK
      <3> QED
        BY <2>4, <3>1
    <2>6. /\ at' \in [Readers -> {"new", "ids", "room", "query", "reply", "done", "lost"}]
          /\ told' \in [Readers -> {0, 200, 400, 404, 500}]
      BY <1>1, <2>1, <2>2 DEF RTypeOK
    <2> QED
      BY <1>1, <2>5, <2>6 DEF RTypeOK
  <1>4. EffectsStay'
    BY DEF vars, db, EffectsStay
  <1>5. StillTrue'
    <2>1. \/ seen'[q] = seen[q]
          \/ \E rs, ms, counts : Current(q, rs, ms) /\ seen'[q] = Result(rs, ms, counts)
      BY ReaderEffect
    <2>2. CASE seen'[q] = seen[q]
      BY <1>1, <1>2, <2>2 DEF vars, db, StillTrue
    <2>3. CASE \E rs, ms, counts : Current(q, rs, ms) /\ seen'[q] = Result(rs, ms, counts)
      <3>1. PICK rs, ms, counts : Current(q, rs, ms) /\ seen'[q] = Result(rs, ms, counts)
        BY <2>3
      <3>2. seen'[q].rooms = rs /\ seen'[q].messages = ms
        BY <3>1, RowsApart
      <3> QED
        BY <1>1, <1>2, <3>1, <3>2 DEF vars, db, StillTrue, Current, Listed
    <2> QED
      BY <2>1, <2>2, <2>3
  <1>6. ReadersInOrder'
    <2>1. /\ at'[q] # "new"
          /\ at'[q] \in {"room", "query"} => seen'[q] = Nothing
          /\ told'[q] # 0 => at'[q] = "done"
          /\ told'[q] \in {400, 404} => seen'[q] = Nothing
      BY ReaderEffect DEF ReadersInOrder
    <2>2. \A p \in Readers : told[p] = 200 => told'[p] = 200
      BY <1>1, <1>2 DEF ReadersInOrder
    <2>3. at'[q] \in {"room", "query", "reply", "done"}
      BY ReaderEffect
    <2> QED
      BY <1>1, <1>2, <2>1, <2>2, <2>3 DEF vars, ReadersInOrder, Missing
  <1>7. ReadYourWrites'
    <2>1. \A r \in after[q] \cap Requests : Shows(q, r)'
      BY ReaderShows DEF ReadYourWrites, ReadersInOrder
    <2>2. \A p \in Readers \ {q} : \A r \in after[p] \cap Requests : Shows(p, r)'
      BY <1>1, <1>2 DEF ReadYourWrites, vars, db, Shows, HasRows, Missing
    <2> QED
      BY <1>1, <2>1, <2>2 DEF ReadYourWrites
  <1>8. MonotonicReads'
    <2>1. \A p \in after[q] \cap Readers : NoOlder(q, p)'
      BY ReaderNoOlder DEF MonotonicReads
    <2>2. \A z \in Readers \ {q} : \A p \in after[z] \cap Readers : p # q /\ NoOlder(z, p)'
      BY <1>1, <1>2 DEF MonotonicReads, ReadersInOrder, NoOlder, HasRows, Missing
    <2> QED
      BY <1>1, <2>1, <2>2 DEF MonotonicReads
  <1> QED
    BY <1>3, <1>4, <1>5, <1>6, <1>7, <1>8

\* Both invariants are inductive.
LEMMA ReadStep == BoardInv /\ ReadInv /\ [RNext]_rvars => BoardInv' /\ ReadInv'
  <1> SUFFICES ASSUME BoardInv, ReadInv, [RNext]_rvars PROVE BoardInv' /\ ReadInv'
    OBVIOUS
  <1>1. BoardInv'
    BY StepKinds, BoardStep DEF ReadInv
  <1>2. ReadInv'
    BY StepKinds, GrowingKeeps, GetKeeps, ReaderKeeps DEF ReadInv
  <1> QED
    BY <1>1, <1>2

\* The invariants of the board and of its readers, for any requests, readers,
\* users, rooms, messages and questions.
THEOREM ReadsCorrect == RSpec => [](BoardInv /\ ReadInv)
  <1>1. RInit => BoardInv /\ ReadInv
    BY BoardInit, ReadInit DEF RInit
  <1> QED
    BY <1>1, ReadStep, PTL DEF RSpec

\* A write that was answered with success shows in all later answers.
THEOREM WritesAreRead == RSpec => []ReadYourWrites
  <1>1. ReadInv => ReadYourWrites
    BY DEF ReadInv
  <1> QED
    BY <1>1, ReadsCorrect, PTL

\* A later answer is never older.
THEOREM ReadsGoForward == RSpec => []MonotonicReads
  <1>1. ReadInv => MonotonicReads
    BY DEF ReadInv
  <1> QED
    BY <1>1, ReadsCorrect, PTL

-----------------------------------------------------------------------------
\* What is listed is a number for a message, and lies between what was
\* acknowledged before and what has happened by now.
CountsListed ==
    \A q \in Readers : \A m \in DOMAIN seen[q].counts :
        m \in MessageIds /\ seen[q].counts[m] \in Nat

ListInv == TotalsAddUp /\ CountsListed /\ ListedCounts

Acked(q, op, m) == after[q] \cap Done(op, m)
Bounds(q, m, n) ==
    /\ Cardinality(Acked(q, "react", m)) - Cardinality(Done("unreact", m)) <= n
    /\ n <= Cardinality(Done("react", m)) - Cardinality(Acked(q, "unreact", m))

\* ListedCounts says the same of the requests as of those that have committed.
LEMMA ListedBounds ==
  ASSUME BoardInv
  PROVE  ListedCounts <=> \A q \in Readers : \A m \in DOMAIN seen[q].counts :
                              Bounds(q, m, seen[q].counts[m])
  <1>1. \A op, m : {r \in committed : Did(r, op, m)} = Done(op, m)
    BY DEF Done, Did, BoardInv, TypeOK
  <1> QED
    BY <1>1 DEF ListedCounts, Bounds, Acked

LEMMA AckedFinite ==
  ASSUME BoardInv, NEW q, NEW op, NEW m
  PROVE  /\ IsFiniteSet(Done(op, m)) /\ Cardinality(Done(op, m)) \in Nat
         /\ Cardinality(Acked(q, op, m)) \in Nat
         /\ Cardinality(Acked(q, op, m)) <= Cardinality(Done(op, m))
  <1>1. Acked(q, op, m) \subseteq Done(op, m)
    BY DEF Acked
  <1> QED
    BY <1>1, DoneFinite, FS_Subset, FS_CardinalityType

\* A query that counts the rows as they are is within the bounds.
LEMMA TotalWithinBounds ==
  ASSUME BoardInv, TotalsAddUp, NEW q \in Readers, NEW m \in MessageIds
  PROVE  Total(m) \in Nat /\ Bounds(q, m, Total(m))
  <1>1. TotalIs(m) /\ Total(m) \in Nat
    BY DoneFinite DEF TotalsAddUp
  <1> QED
    BY <1>1, AckedFinite DEF TotalIs, Bounds

\* More that is done widens the bounds.
LEMMA BoundsWiden ==
  ASSUME BoardInv, BoardInv', ReadersInOrder, Grown, after' = after,
         NEW q \in Readers, NEW m, NEW n \in Nat, Bounds(q, m, n)
  PROVE  Bounds(q, m, n)'
  <1>1. ASSUME NEW op
        PROVE  /\ Done(op, m) \subseteq Done(op, m)' /\ Acked(q, op, m)' = Acked(q, op, m)
    <2>1. after[q] \cap Requests \subseteq committed
      BY DEF ReadersInOrder
    <2>2. committed \subseteq committed' /\ \A r \in committed : input'[r] = input[r]
      BY DEF Grown
    <2>3. Done(op, m) \subseteq Done(op, m)'
      BY <2>2 DEF Done, Did
    <2>4. Acked(q, op, m)' \subseteq Acked(q, op, m)
      BY <2>1, <2>2 DEF Acked, Done, Did
    <2>5. Acked(q, op, m) \subseteq Acked(q, op, m)'
      BY <2>3 DEF Acked
    <2> QED
      BY <2>3, <2>4, <2>5
  <1>2. ASSUME NEW op
        PROVE  /\ Cardinality(Done(op, m)) <= Cardinality(Done(op, m)')
               /\ Cardinality(Done(op, m)) \in Nat /\ Cardinality(Done(op, m)') \in Nat
               /\ Cardinality(Acked(q, op, m)) \in Nat
               /\ Cardinality(Acked(q, op, m)') = Cardinality(Acked(q, op, m))
    <2>1. IsFiniteSet(Done(op, m)')
      <3>1. Done(op, m)' \subseteq committed' /\ IsFiniteSet(committed')
        BY DEF Done, Did, BoardInv, Finite
      <3> QED
        BY <3>1, FS_Subset
    <2> QED
      BY <1>1, <2>1, FS_Subset, FS_CardinalityType, AckedFinite
  <1> QED
    BY <1>2 DEF Bounds

\* The only counts that a reader gets are those of a list.
LEMMA ReaderCounts ==
  ASSUME RTypeOK, NEW q \in Readers, Reader(q)
  PROVE  \/ seen'[q] = seen[q]
         \/ DOMAIN seen'[q].counts = {}
         \/ seen'[q].counts = [m \in Listed(q) |-> Cardinality(RowsOf(m))]
  <1>1. ASSUME NEW rs, NEW ms, NEW counts, Select(q, Result(rs, ms, counts))
        PROVE  seen'[q].counts = counts
    BY <1>1, RowsApart DEF Select, RTypeOK
  <1>2. \/ seen' = seen
        \/ \E rs, ms : Select(q, Result(rs, ms, NoRows))
        \/ \E ms : Select(q, Result({}, ms, [m \in Listed(q) |-> Cardinality(RowsOf(m))]))
    BY DEF Reader, GetRooms, GetRoom, GetRoomMessages, GetRoomMessage, ParseIDs, FindRoom,
       SelectRooms, SelectRoomWithUser, SelectRoomMessages, SelectMessage, SendRows,
       Proceed, Error
  <1> QED
    BY <1>1, <1>2, NoRowsApart

\* Every step keeps what was listed within the bounds.
LEMMA ListStep ==
  BoardInv /\ ReadInv /\ ListInv /\ [RNext]_rvars => ListInv'
  <1> SUFFICES ASSUME BoardInv, ReadInv, ListInv, [RNext]_rvars
               PROVE  ListInv'
    OBVIOUS
  <1>1. BoardInv' /\ ReadInv'
    BY ReadStep
  <1>2. TotalsAddUp'
    BY StepKinds, TotalsStep DEF ReadInv, ListInv
  <1>3. \A q \in Readers : \A m \in DOMAIN seen[q].counts :
            m \in MessageIds /\ seen[q].counts[m] \in Nat /\ Bounds(q, m, seen[q].counts[m])
    BY ListedBounds DEF ListInv, CountsListed
  <1>0. \A op, m : {r \in committed' : Did(r, op, m)'} = Done(op, m)'
    BY <1>1 DEF Done, Did, BoardInv, TypeOK
  <1> SUFFICES ASSUME NEW q \in Readers, NEW m \in DOMAIN seen'[q].counts
               PROVE  /\ m \in MessageIds /\ seen'[q].counts[m] \in Nat
                      /\ Bounds(q, m, seen[q].counts[m])'
    BY <1>0, <1>2 DEF ListInv, CountsListed, ListedCounts, Bounds, Acked
  <1>4. CASE Grown /\ CutOff
    BY <1>1, <1>3, <1>4, BoundsWiden DEF CutOff, ReadInv
  <1>5. ASSUME NEW p \in Readers, NEW i \in Asks, Get(p, i), UNCHANGED vars
        PROVE  /\ m \in MessageIds /\ seen'[q].counts[m] \in Nat
               /\ Bounds(q, m, seen[q].counts[m])'
    <2>1. seen' = seen /\ after' = [after EXCEPT ![p] = Answered] /\ at[p] = "new"
      BY <1>5 DEF Get
    <2>2. q # p
      BY <2>1, RowsApart, NoRowsApart DEF ReadInv, ReadersInOrder, Nothing
    <2>3. after'[q] = after[q] /\ committed' = committed /\ input' = input
      BY <1>5, <2>1, <2>2 DEF vars, ReadInv, RTypeOK
    <2>4. m \in MessageIds /\ seen'[q].counts[m] \in Nat /\ Bounds(q, m, seen'[q].counts[m])
      BY <1>3, <2>1
    <2> QED
      BY <2>1, <2>3, <2>4 DEF Bounds, Acked, Done, Did
  <1>6. ASSUME NEW p \in Readers, Reader(p), UNCHANGED vars
        PROVE  /\ m \in MessageIds /\ seen'[q].counts[m] \in Nat
               /\ Bounds(q, m, seen[q].counts[m])'
    <2>1. /\ after' = after /\ committed' = committed /\ input' = input
          /\ q # p => seen'[q] = seen[q]
      BY <1>6, ReaderFrame DEF vars, ReadInv, RTypeOK
    <2>2. CASE seen'[q] = seen[q]
      <3>1. /\ m \in MessageIds /\ seen[q].counts[m] \in Nat
            /\ Bounds(q, m, seen[q].counts[m])
        BY <1>3, <2>2
      <3> QED
        BY <2>1, <2>2, <3>1 DEF Bounds, Acked, Done, Did
    <2>3. CASE q = p /\ seen'[q].counts = [x \in Listed(q) |-> Cardinality(RowsOf(x))]
      <3>1. m \in MessageIds /\ seen'[q].counts[m] = Total(m)
        BY <2>3 DEF Listed, Total, BoardInv, TypeOK
      <3>2. Total(m) \in Nat /\ Bounds(q, m, Total(m))
        BY <3>1, TotalWithinBounds DEF ListInv
      <3> QED
        BY <2>1, <3>1, <3>2 DEF Bounds, Acked, Done, Did
    <2> QED
      BY <1>6, <2>1, <2>2, <2>3, ReaderCounts DEF ReadInv
  <1> QED
    BY <1>4, <1>5, <1>6, StepKinds DEF ReadInv

\* Nothing is listed at the start.
LEMMA ListInit == RInit => ListInv
  <1> SUFFICES ASSUME RInit PROVE ListInv
    OBVIOUS
  <1>1. TotalsAddUp
    BY TotalsInit DEF RInit
  <1>2. \A q \in Readers : DOMAIN seen[q].counts = {}
    BY RowsApart, NoRowsApart DEF RInit, Nothing
  <1> QED
    BY <1>1, <1>2 DEF ListInv, CountsListed, ListedCounts

\* A listed count lies between what was acknowledged before the list was asked
\* for and what has happened by now.
THEOREM ListedCountsHold == RSpec => []ListedCounts
  <1>1. ListInv => ListedCounts
    BY DEF ListInv
  <1> QED
    BY <1>1, ListInit, ListStep, ReadsCorrect, PTL DEF RSpec

-----------------------------------------------------------------------------
(* A reader's queries together are one look at the board.                   *)

\* Between the check of the room and the query the room does not go away.
RoomsChecked ==
    \A q \in Readers :
        at[q] = "query" /\ ask[q].op \in {"get_messages", "get_message"}
            => Denotes[ask[q].key] \in rooms

LookInv == BoardInv /\ ReadInv /\ RoomsChecked

\* A reader comes to its query through the check, if its handler has one.
LEMMA ReaderChecks ==
  ASSUME NEW q \in Readers, RTypeOK, Reader(q), at'[q] = "query",
         ask[q].op \in {"get_messages", "get_message"}
  PROVE  Denotes[ask[q].key] \in rooms
  <1>1. ParseIDs(q, "room") \/ FindRoom(q) \/ SelectRoomMessages(q)
          \/ SelectMessage(q) \/ SendRows(q)
    BY DEF Reader, GetRooms, GetRoom, GetRoomMessages, GetRoomMessage
  <1>2. FindRoom(q)
    BY <1>1 DEF RTypeOK, ParseIDs, SelectRoomMessages, SelectMessage, SendRows, Select,
       Proceed, Error
  <1> QED
    BY <1>2 DEF RTypeOK, FindRoom, Error

LEMMA ChecksStep == LookInv /\ [RNext]_rvars => RoomsChecked'
  <1> SUFFICES ASSUME LookInv, [RNext]_rvars, NEW q \in Readers, at'[q] = "query",
                      ask'[q].op \in {"get_messages", "get_message"}
               PROVE  Denotes[ask'[q].key] \in rooms'
    BY DEF RoomsChecked
  <1> USE DEF LookInv, RoomsChecked
  <1>1. CASE Grown /\ CutOff
    BY <1>1 DEF Grown, CutOff
  <1>2. ASSUME NEW p \in Readers, NEW i \in Asks, Get(p, i), UNCHANGED vars
        PROVE  Denotes[ask'[q].key] \in rooms'
    BY <1>2 DEF Get, ReadInv, RTypeOK, vars, db
  <1>3. ASSUME NEW p \in Readers, Reader(p), UNCHANGED vars
        PROVE  Denotes[ask'[q].key] \in rooms'
    <2>1. ask' = ask /\ rooms' = rooms
      BY <1>3, ReaderFrame DEF ReadInv, vars, db
    <2>2. CASE p = q
      BY <1>3, <2>1, <2>2, ReaderChecks DEF ReadInv
    <2>3. CASE p # q
      BY <1>3, <2>1, <2>3, ReaderFrame DEF ReadInv, RTypeOK
    <2> QED
      BY <2>2, <2>3
  <1> QED
    BY <1>1, <1>2, <1>3, StepKinds DEF ReadInv

\* There is one row for each pair that is in the abstract table.
LEMMA OnePairPerRow ==
  ASSUME BoardInv, NEW m
  PROVE  Cardinality({p \in {<<x.msg, x.user>> : x \in reactions} : p[1] = m})
           = Cardinality(RowsOf(m))
  <1> DEFINE pairs == {p \in {<<x.msg, x.user>> : x \in reactions} : p[1] = m}
             pair == [x \in RowsOf(m) |-> <<x.msg, x.user>>]
  <1>1. IsFiniteSet(RowsOf(m))
    BY FS_Subset DEF RowsOf, BoardInv, Finite
  <1>2. pair \in [RowsOf(m) -> pairs]
    BY DEF RowsOf
  <1>3. \A x, y \in RowsOf(m) : pair[x] = pair[y] => x = y
    BY DEF RowsOf, BoardInv, ReactionKey
  <1>4. \A p \in pairs : \E x \in RowsOf(m) : pair[x] = p
    BY DEF RowsOf
  <1>5. pair \in Bijection(RowsOf(m), pairs)
    <2> HIDE DEF pair, pairs
    <2> QED
      BY <1>2, <1>3, <1>4 DEF Bijection, Injection, Surjection, IsInjective
  <1>6. ExistsBijection(RowsOf(m), pairs)
    BY <1>5 DEF ExistsBijection
  <1> QED
    BY <1>1, <1>6, FS_Bijection

\* An answer without rows.
LEMMA WithoutRows ==
  ASSUME NEW s
  PROVE  Looks!Without(s) = [status |-> s, rows |-> Nothing]
  BY DEF Nothing, Result, NoRows, Looks!Without, Looks!Answered, Looks!Rows, Looks!NoRows

\* Before its last query a reader has nothing to show.
LEMMA PendingBefore ==
  ASSUME ReadersInOrder, NEW q \in Readers, at[q] \in {"new", "ids", "room", "query"}
  PROVE  LookedAt(q) = Looks!Without("pending") /\ told[q] = 0
  <1>1. told[q] = 0 /\ ~HasRows(q) /\ ~Missing(q) /\ at[q] \notin {"done", "lost"}
    BY DEF ReadersInOrder, HasRows, Missing
  <1> QED
    BY <1>1, WithoutRows DEF LookedAt

\* A reader that nothing happens to shows what it showed.
LEMMA SameLook ==
  ASSUME NEW q, at'[q] = at[q], seen'[q] = seen[q], told'[q] = told[q], ask'[q] = ask[q]
  PROVE  LookedAt(q)' = LookedAt(q)
  BY DEF LookedAt, HasRows, Missing

\* AtomicReads counts as this module does.
LEMMA SameCardinality ==
  ASSUME NEW S
  PROVE  Looks!Cardinality(S) = Cardinality(S)
  BY DEF Looks!Cardinality, Cardinality

\* Its counts are those of the rows.
LEMMA CountsOfRows ==
  ASSUME BoardInv, NEW ms
  PROVE  Looks!Counts(ms) = [m \in ms |-> Cardinality(RowsOf(m))]
  <1> DEFINE pairs(m) == {p \in {<<x.msg, x.user>> : x \in reactions} : p[1] = m}
             count1 == [m \in ms |-> Cardinality(pairs(m))]
             count2 == [m \in ms |-> Cardinality(RowsOf(m))]
  <1>1. \A m : Cardinality(pairs(m)) = Cardinality(RowsOf(m))
    BY OnePairPerRow
  <1>2. count1 = count2
    <2> HIDE DEF pairs
    <2> QED
      BY <1>1
  <1> QED
    BY <1>2, SameCardinality DEF Looks!Counts

\* The rows that a query returns are all there is to see at that instant.
LEMMA QuerySees ==
  ASSUME LookInv, NEW q \in Readers, Reader(q), at'[q] = "reply"
  PROVE  Looks!Sight(ask[q]) = [status |-> "found", rows |-> seen'[q]]
  <1> DEFINE room == Denotes[ask[q].key]
  <1> USE DEF LookInv, ReadInv, RTypeOK, Looks!Sight, Looks!Found, Looks!Answered,
          Looks!Rows, Looks!NoRows, NoRows, Result
  <1>1. /\ at[q] = "query"
        /\ ~ParseIDs(q, "query") /\ ~ParseIDs(q, "room") /\ ~FindRoom(q) /\ ~SendRows(q)
        /\ \A code : ~Error(q, code)
    BY ReaderShape DEF ParseIDs, FindRoom, SendRows, Proceed, Error, Select
  <1>2. CASE GetRooms(q)
    BY <1>1, <1>2 DEF GetRooms, SelectRooms, Select
  <1>3. CASE GetRoom(q)
    BY <1>1, <1>3 DEF GetRoom, SelectRoomWithUser, Select
  <1>4. CASE GetRoomMessages(q)
    <2>1. room \in rooms /\ ask[q].op = "get_messages"
      BY <1>1, <1>4 DEF GetRoomMessages, RoomsChecked
    <2>2. seen'[q] = Result({}, [m \in Listed(q) |-> messages[m]],
                            [m \in Listed(q) |-> Cardinality(RowsOf(m))])
      <3>1. Select(q, Result({}, [m \in Listed(q) |-> messages[m]],
                             [m \in Listed(q) |-> Cardinality(RowsOf(m))]))
        BY <1>1, <1>4 DEF GetRoomMessages, SelectRoomMessages
      <3> HIDE DEF Result
      <3> QED
        BY <3>1 DEF Select
    <2>3. Looks!InRoom(room) = Listed(q)
      BY DEF Looks!InRoom, Listed
    <2>4. Looks!Counts(Listed(q)) = [m \in Listed(q) |-> Cardinality(RowsOf(m))]
      BY CountsOfRows
    <2> QED
      BY <2>1, <2>2, <2>3, <2>4 DEF Looks!Copies
  <1>5. CASE GetRoomMessage(q)
    <2>1. room \in rooms /\ ask[q].op = "get_message"
      BY <1>1, <1>5 DEF GetRoomMessage, RoomsChecked
    <2>2. /\ ask[q].msg \in DOMAIN messages
          /\ seen'[q] = Result({}, [x \in {ask[q].msg} |-> messages[x]], NoRows)
      <3>1. SelectMessage(q) /\ ~Error(q, 404) /\ ~Error(q, 500)
        BY <1>1, <1>5 DEF GetRoomMessage
      <3>2. /\ ask[q].msg \in DOMAIN messages
            /\ Select(q, Result({}, [x \in {ask[q].msg} |-> messages[x]], NoRows))
        BY <3>1 DEF SelectMessage
      <3> HIDE DEF Result
      <3> QED
        BY <3>2 DEF Select
    <2> QED
      BY <2>1, <2>2 DEF Looks!Copies
  <1> QED
    BY <1>2, <1>3, <1>4, <1>5 DEF Reader

\* Whoever is denied something could not have seen it at that instant.
LEMMA DeniedSees ==
  ASSUME NEW q \in Readers, ask[q].op \in ReadOps, NEW code, Denied(q, code),
         code = 404 \/ (code = 400 /\ ask[q].flaw = "none")
  PROVE  Looks!Sight(ask[q]) = Looks!Without("missing")
  <1>1. CASE ask[q].op \in {"get_room", "get_messages", "get_message"}
               /\ Denotes[ask[q].key] \notin rooms
    BY <1>1 DEF Looks!Sight
  <1>2. CASE ask[q].op = "get_message" /\ ask[q].msg \notin DOMAIN messages
    BY <1>2 DEF Looks!Sight
  <1> QED
    BY <1>1, <1>2 DEF Denied, ReadOps

\* What a step may be to those who only know what was asked and answered.
LooksStep == Looks!ReadsNext \/ UNCHANGED <<Looks!vars, Looks!reads>>

\* The answers after a step that only changes what q shows.
LEMMA AnswersAfter ==
  ASSUME RTypeOK, NEW q \in Readers, Reader(q), UNCHANGED vars
  PROVE  /\ \A p \in Readers : p # q => LookedAt(p)' = LookedAt(p)
         /\ UNCHANGED ask /\ UNCHANGED Looks!vars
  <1>1. /\ \A p \in Readers : p # q => /\ at'[p] = at[p] /\ seen'[p] = seen[p]
                                       /\ told'[p] = told[p] /\ ask'[p] = ask[p]
        /\ UNCHANGED ask
    BY ReaderFrame DEF RTypeOK
  <1>2. \A p \in Readers : p # q => LookedAt(p)' = LookedAt(p)
    BY <1>1, SameLook
  <1> QED
    BY <1>1, <1>2 DEF vars, db, Looks!vars

\* A step of a reader is a look at everything it asks for, the loss of its
\* answer, or nothing that anyone can see.
LEMMA ReaderLooks ==
  ASSUME LookInv, NEW q \in Readers, Reader(q), UNCHANGED vars
  PROVE  LooksStep
  <1> USE DEF LookInv, ReadInv
  <1> DEFINE answers == [p \in Readers |-> LookedAt(p)]
  <1>0. /\ at[q] \in {"ids", "room", "query", "reply"}
        /\ ask[q] \in Asks /\ ask[q] # None /\ ask[q].op \in ReadOps
    BY ReaderFrame, ReadAssumption DEF ReadersInOrder, RTypeOK
  <1>1. /\ \A p \in Readers : p # q => LookedAt(p)' = LookedAt(p)
        /\ UNCHANGED ask /\ UNCHANGED Looks!vars
    BY AnswersAfter
  <1>2. CASE LookedAt(q)' = LookedAt(q)
    BY <1>1, <1>2 DEF LooksStep, Looks!reads
  <1>3. CASE LookedAt(q) = Looks!Without("pending") /\ LookedAt(q)' = Looks!Sight(ask[q])
    <2>1. answers' = [answers EXCEPT ![q] = Looks!Sight(ask[q])]
      BY <1>1, <1>3
    <2>2. Looks!Look(q)
      BY <1>0, <1>1, <1>3, <2>1 DEF Looks!Look
    <2> QED
      BY <1>1, <2>2 DEF LooksStep, Looks!ReadsNext
  <1>4. CASE LookedAt(q)' = Looks!Without("none")
    <2>1. answers' = [p \in Readers |-> IF p \in {q} THEN Looks!Without("none")
                                                      ELSE answers[p]]
      BY <1>1, <1>4
    <2>2. Looks!Lose({q})
      BY <1>0, <1>1, <2>1 DEF Looks!Lose
    <2> QED
      BY <1>1, <2>2 DEF LooksStep, Looks!ReadsNext
  <1>5. CASE at[q] \in {"ids", "room"} /\ at'[q] \in {"room", "query"}
             /\ seen'[q] = seen[q] /\ told'[q] = told[q]
    BY <1>1, <1>2, <1>5, PendingBefore DEF LookedAt, HasRows, Missing
  <1>6. CASE /\ at[q] \in {"ids", "room", "query"} /\ at'[q] = "done"
             /\ seen'[q] = seen[q] /\ Denied(q, told'[q])
    <2>1. LookedAt(q) = Looks!Without("pending")
      BY <1>6, PendingBefore
    <2>2. LookedAt(q)' = IF told'[q] = 404 \/ (told'[q] = 400 /\ ask[q].flaw = "none")
                         THEN Looks!Without("missing") ELSE Looks!Without("none")
      <3>1. /\ at'[q] = "done" /\ told'[q] # 200 /\ ask' = ask
            /\ told'[q] = 404 \/ (told'[q] = 400 /\ ask[q].flaw = "none") <=> Missing(q)'
        BY <1>1, <1>6 DEF Missing, Denied
      <3> QED
        BY <3>1, WithoutRows DEF LookedAt, HasRows
    <2> QED
      BY <1>0, <1>3, <1>4, <1>6, <2>1, <2>2, DeniedSees
  <1>7. CASE at[q] = "query" /\ at'[q] = "reply"
    <2>1. LookedAt(q)' = [status |-> "found", rows |-> seen'[q]]
      BY <1>7 DEF LookedAt, HasRows
    <2> QED
      BY <1>3, <1>7, <2>1, PendingBefore, QuerySees
  <1>8. CASE /\ at[q] = "reply" /\ at'[q] = "done"
             /\ seen'[q] = seen[q] /\ told'[q] = 200
    BY <1>2, <1>8 DEF LookedAt, HasRows
  <1> QED
    BY <1>5, <1>6, <1>7, <1>8, ReaderEffect

\* The boards of the two abstract specifications are one.
LEMMA SameBoard ==
  /\ Atomic!Init <=> Looks!Init
  /\ [Atomic!Next]_(Atomic!vars) => Looks!Next \/ UNCHANGED Looks!vars
  <1>1. Atomic!Init <=> Looks!Init
    BY DEF Atomic!Init, Looks!Init
  <1>2. ASSUME NEW r \in Requests
        PROVE  /\ Atomic!AddRoom(r) <=> Looks!AddRoom(r)
               /\ \A room : Atomic!AddMessage(r, room) <=> Looks!AddMessage(r, room)
               /\ \A m, u : Atomic!React(r, m, u) <=> Looks!React(r, m, u)
               /\ \A m, u : Atomic!Unreact(r, m, u) <=> Looks!Unreact(r, m, u)
               /\ \A m : Atomic!Answer(r, m) <=> Looks!Answer(r, m)
               /\ \A t : Atomic!Announce(r, t) <=> Looks!Announce(r, t)
    BY DEF Atomic!AddRoom, Looks!AddRoom, Atomic!AddMessage, Looks!AddMessage,
       Atomic!React, Looks!React, Atomic!Unreact, Looks!Unreact, Atomic!Answer,
       Looks!Answer, Atomic!Announce, Looks!Announce, Atomic!TakeEffect, Looks!TakeEffect
  <1>3. Atomic!Next => Looks!Next
    BY <1>2 DEF Atomic!Next, Looks!Next
  <1>4. UNCHANGED Atomic!vars => UNCHANGED Looks!vars
    BY DEF Atomic!vars, Looks!vars
  <1> QED
    BY <1>1, <1>3, <1>4

\* A step of the board gives no answer, but it may be the end of all that are
\* on their way.
LEMMA WritersDoNotAnswer ==
  ASSUME LookInv, [Next]_vars, UNCHANGED readers
  PROVE  LooksStep
  <1>1. Looks!Next \/ UNCHANGED Looks!vars
    BY AtomicStep, SameBoard DEF LookInv
  <1>2. UNCHANGED Looks!reads
    BY DEF readers, Looks!reads, LookedAt, HasRows, Missing
  <1> QED
    BY <1>1, <1>2 DEF LooksStep, Looks!ReadsNext

LEMMA RestartLoses ==
  ASSUME LookInv, RRestart
  PROVE  LooksStep
  <1> USE DEF LookInv, ReadInv
  <1> DEFINE cut == {q \in Readers : at[q] \notin {"new", "done"}}
             answers == [q \in Readers |-> LookedAt(q)]
  <1>1. UNCHANGED Looks!vars /\ UNCHANGED <<ask, seen, told>>
    BY DEF RRestart, Restart, db, Looks!vars
  <1>2. \A q \in cut : LookedAt(q)' = Looks!Without("none") /\ ask[q] # None
    <2> SUFFICES ASSUME NEW q \in cut
                 PROVE  LookedAt(q)' = Looks!Without("none") /\ ask[q] # None
      OBVIOUS
    <2>1. told'[q] = 0 /\ at'[q] = "lost" /\ ask[q] # None
      BY <1>1 DEF RRestart, ReadersInOrder
    <2> QED
      BY <2>1, WithoutRows DEF LookedAt, HasRows, Missing
  <1>3. \A q \in Readers \ cut : LookedAt(q)' = LookedAt(q)
    BY <1>1, SameLook DEF RRestart
  <1>4. answers' = [q \in Readers |-> IF q \in cut THEN Looks!Without("none")
                                                    ELSE answers[q]]
    <2> HIDE DEF cut
    <2> QED
      BY <1>2, <1>3
  <1>5. Looks!Lose(cut)
    <2> HIDE DEF cut
    <2> QED
      BY <1>1, <1>2, <1>4 DEF Looks!Lose
  <1> QED
    BY <1>1, <1>5 DEF LooksStep, Looks!ReadsNext

\* To ask is not yet to look.
LEMMA GetAsks ==
  ASSUME LookInv, NEW q \in Readers, NEW i \in Asks, Get(q, i), UNCHANGED vars
  PROVE  LooksStep
  <1> USE DEF LookInv, ReadInv
  <1>1. /\ ask' = [ask EXCEPT ![q] = i] /\ ask[q] = None /\ told' = told
        /\ at[q] = "new" /\ at'[q] \in {"ids", "query"} /\ UNCHANGED Looks!vars
    BY DEF Get, RTypeOK, ReadersInOrder, vars, db, Looks!vars
  <1>2. \A p \in Readers : p # q => LookedAt(p)' = LookedAt(p)
    BY SameLook DEF Get, RTypeOK
  <1>3. LookedAt(q)' = LookedAt(q)
    <2>1. told[q] = 0 /\ LookedAt(q) = Looks!Without("pending")
      BY <1>1, PendingBefore
    <2>2. LookedAt(q)' = Looks!Without("pending")
      BY <1>1, <2>1, WithoutRows DEF LookedAt, HasRows, Missing
    <2> QED
      BY <2>1, <2>2
  <1>4. Looks!Ask(q, i)
    BY <1>1, <1>2, <1>3 DEF Looks!Ask
  <1> QED
    BY <1>1, <1>4 DEF LooksStep, Looks!ReadsNext

\* Whatever happens, it is a step of the abstract readers or of none.
LEMMA LooksSteps ==
  LookInv /\ [RNext]_rvars => [Looks!ReadsNext]_(<<Looks!vars, Looks!reads>>)
  <1> SUFFICES ASSUME LookInv, [RNext]_rvars PROVE LooksStep
    BY DEF LooksStep
  <1>1. ASSUME NEW r \in Requests, Writer(r), UNCHANGED readers
        PROVE  LooksStep
    BY <1>1, WritersDoNotAnswer DEF Writer, Next
  <1>2. CASE UNCHANGED rvars
    BY <1>2, WritersDoNotAnswer DEF rvars
  <1> QED
    BY <1>1, <1>2, RestartLoses, GetAsks, ReaderLooks DEF RNext

LEMMA LooksInit == RInit => LookInv /\ Looks!ReadsInit
  <1> SUFFICES ASSUME RInit PROVE LookInv /\ Looks!ReadsInit
    OBVIOUS
  <1>1. LookInv
    BY BoardInit, ReadInit DEF LookInv, RInit, RoomsChecked
  <1>2. \A q \in Readers : LookedAt(q) = Looks!Without("pending")
    BY <1>1, PendingBefore DEF RInit, LookInv, ReadInv
  <1>3. Looks!Init
    BY AtomicInit, SameBoard DEF RInit
  <1> QED
    BY <1>1, <1>2, <1>3 DEF RInit, Looks!ReadsInit

\* A reader that makes two queries, each with a snapshot of its own, still
\* answers what was there at one instant: the room cannot go in between.
THEOREM ReadersLook == RSpec => ImplementsAtomicReads
  <1>1. LookInv /\ [RNext]_rvars => LookInv'
    BY ReadStep, ChecksStep DEF LookInv
  <1> QED
    BY <1>1, LooksInit, LooksSteps, PTL
    DEF RSpec, ImplementsAtomicReads, Looks!ReadsSpec

-----------------------------------------------------------------------------
\* Readers change nothing on the board: with them it is still the board of
\* MessageBoard, and what is proved of that holds beside them.
LEMMA ReadersOnlyRead == [RNext]_rvars => [Next]_vars
  <1> SUFFICES ASSUME [RNext]_rvars PROVE [Next]_vars
    OBVIOUS
  <1>1. ASSUME NEW r \in Requests, Writer(r)
        PROVE  Next
    BY <1>1 DEF Writer, Next
  <1>2. CASE RRestart
    BY <1>2 DEF RRestart, Next
  <1>3. CASE UNCHANGED rvars
    BY <1>3 DEF rvars
  <1> QED
    BY <1>1, <1>2, <1>3 DEF RNext

\* The writing handlers beside reading ones are the writing handlers alone.
THEOREM BoardBesideReaders == RSpec => Spec
  BY ReadersOnlyRead, PTL DEF RSpec, RInit, Spec
=============================================================================
