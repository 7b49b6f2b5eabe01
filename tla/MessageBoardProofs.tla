-------------------------- MODULE MessageBoardProofs --------------------------
(* The safety of the message board for any sets of requests, users, rooms,   *)
(* messages and inputs.  BoardInv is inductive: one lemma for each kind of    *)
(* step, then one per handler, then temporal reasoning.                       *)
EXTENDS MessageBoard, FiniteSetTheorems, TLAPS

\* A handler reaches its statement only with the rows it refers to in place.
LEMMA ChecksSuffice == ChecksHold => StatementsFindTheirRows
  BY DEF ChecksHold, StatementsFindTheirRows

\* BoardInv holds when the process starts.
LEMMA BoardInit == Init => BoardInv
  <1> SUFFICES ASSUME Init PROVE BoardInv
    OBVIOUS
  <1>1. TypeOK
    BY BoardAssumption DEF Init, TypeOK, RoomIds, MessageIds, Places, ReactionRows
  <1>2. ChecksHold /\ EffectsOnce /\ ReactionKey /\ StatusTellsTheTruth
    BY DEF Init, ChecksHold, EffectsOnce, ReactionKey, StatusTellsTheTruth
  <1>3. Finite
    BY FS_EmptySet DEF Init, Finite
  <1>4. OneAnswerWins
    BY BoardAssumption DEF Init, OneAnswerWins, Did
  <1> QED
    BY <1>1, <1>2, <1>3, <1>4, ChecksSuffice DEF BoardInv

\* A new request.
LEMMA ReceiveStep ==
  ASSUME NEW r \in Requests, NEW i \in Inputs, BoardInv, Receive(r, i)
  PROVE  BoardInv'
  <1> USE DEF Receive, db, BoardInv
  <1>1. TypeOK'
    BY DEF TypeOK, Places
  <1>2. ChecksHold'
    BY BoardAssumption DEF TypeOK, ChecksHold
  <1>3. r \notin committed
    BY DEF EffectsOnce
  <1>4. EffectsOnce' /\ OneAnswerWins'
    BY <1>3 DEF TypeOK, EffectsOnce, OneAnswerWins, Did
  <1>5. ReactionKey' /\ Finite' /\ StatusTellsTheTruth'
    BY DEF ReactionKey, Finite, StatusTellsTheTruth
  <1> QED
    BY <1>1, <1>2, <1>4, <1>5 DEF ChecksHold, StatementsFindTheirRows

\* A check that passes, provided what it found is what ChecksHold asks for.
LEMMA PassStep ==
  ASSUME NEW r \in Requests, NEW next \in {"payload", "room", "message", "write"},
         BoardInv, pc[r] \in {"ids", "payload", "room", "message"}, Go(r, next),
         UNCHANGED <<db, input, snap, count, committed, notices>>,
         next \in {"message", "write"} /\ input[r].op # "create_room"
           => Denotes[input[r].key] \in rooms,
         next = "payload" /\ input[r].op \in {"react", "unreact"}
           => Denotes[input[r].key] \in rooms /\ input[r].msg \in DOMAIN messages,
         next = "write" /\ input[r].op \in {"react", "unreact", "answer"}
           => input[r].msg \in DOMAIN messages
  PROVE  BoardInv'
  <1> USE DEF Go, db, BoardInv
  <1>1. TypeOK'
    BY DEF TypeOK, Places
  <1>2. ChecksHold'
    BY DEF TypeOK, ChecksHold
  <1>3. EffectsOnce'
    BY DEF TypeOK, EffectsOnce
  <1>4. ReactionKey' /\ Finite' /\ StatusTellsTheTruth' /\ OneAnswerWins'
    BY DEF ReactionKey, Finite, StatusTellsTheTruth, OneAnswerWins, Did
  <1> QED
    BY <1>1, <1>2, <1>3, <1>4
    DEF ChecksHold, StatementsFindTheirRows

\* A request that ends with an error before anything is written.
LEMMA RejectStep ==
  ASSUME NEW r \in Requests, NEW code \in {400, 403, 500}, BoardInv,
         pc[r] \in {"ids", "payload", "room", "message", "write", "sent"}, Fail(r, code),
         UNCHANGED <<db, input, snap, count, committed, notices>>
  PROVE  BoardInv'
  <1> USE DEF Fail, db, BoardInv
  <1>1. TypeOK'
    BY DEF TypeOK, Places
  <1>2. ChecksHold'
    BY DEF TypeOK, ChecksHold
  <1>3. EffectsOnce'
    BY DEF TypeOK, EffectsOnce
  <1>4. StatusTellsTheTruth'
    BY DEF TypeOK, EffectsOnce, StatusTellsTheTruth
  <1>5. ReactionKey' /\ Finite' /\ OneAnswerWins'
    BY DEF ReactionKey, Finite, OneAnswerWins, Did
  <1> QED
    BY <1>1, <1>2, <1>3, <1>4, <1>5
    DEF ChecksHold, StatementsFindTheirRows

\* A statement takes its snapshot, which is as finite as the table.
LEMMA SendStep ==
  ASSUME NEW r \in Requests, BoardInv, SendStatement(r)
  PROVE  BoardInv'
  <1>1. CASE Fail(r, 500) /\ UNCHANGED snap
    BY <1>1, RejectStep DEF SendStatement, db
  <1>2. CASE Go(r, "sent") /\ snap' = [snap EXCEPT ![r] = RowsOf(input[r].msg)]
    <2> USE <1>2 DEF SendStatement, Go, db, BoardInv
    <2>1. RowsOf(input[r].msg) \subseteq reactions
      BY DEF RowsOf
    <2>2. TypeOK'
      BY <2>1 DEF TypeOK, Places
    <2>3. Finite'
      BY <2>1, FS_Subset DEF TypeOK, Finite
    <2>4. ChecksHold' /\ EffectsOnce'
      BY DEF TypeOK, ChecksHold, EffectsOnce
    <2>5. ReactionKey'
      BY DEF TypeOK, ReactionKey, RowsOf
    <2>6. StatusTellsTheTruth' /\ OneAnswerWins'
      BY DEF StatusTellsTheTruth, OneAnswerWins, Did
    <2> QED
      BY <2>2, <2>3, <2>4, <2>5, <2>6 DEF ChecksHold, StatementsFindTheirRows
  <1> QED
    BY <1>1, <1>2 DEF SendStatement

\* A statement that writes nothing.
LEMMA RefuseStep ==
  ASSUME NEW r \in Requests, BoardInv, Running(r), Refuse(r)
  PROVE  BoardInv'
  <1>1. CASE pc[r] # "orphan"
    <2>1. pc[r] = "sent" /\ Fail(r, 500)
      BY <1>1 DEF Refuse, Running
    <2>2. UNCHANGED <<db, input, snap, count, committed, notices>>
      BY DEF Refuse
    <2> QED
      BY <2>1, <2>2, RejectStep
  <1>2. CASE pc[r] = "orphan"
    <2> USE <1>2 DEF Refuse, Go, db, BoardInv
    <2>1. TypeOK'
      BY DEF TypeOK, Places
    <2>2. ChecksHold' /\ EffectsOnce'
      BY DEF TypeOK, ChecksHold, EffectsOnce
    <2>3. ReactionKey' /\ Finite' /\ StatusTellsTheTruth' /\ OneAnswerWins'
      BY DEF TypeOK, ReactionKey, Finite, StatusTellsTheTruth, OneAnswerWins, Did
    <2> QED
      BY <2>1, <2>2, <2>3 DEF ChecksHold, StatementsFindTheirRows
  <1> QED
    BY <1>1, <1>2

\* A reply and its notification.
LEMMA ReplyStep ==
  ASSUME NEW r \in Requests, NEW code \in {200, 201},
         NEW topic \in RoomKeys \cup {RoomsList}, BoardInv, Reply(r, code, topic)
  PROVE  BoardInv'
  <1> USE DEF Reply, Fail, db, BoardInv
  <1>1. TypeOK'
    BY DEF TypeOK, Places
  <1>2. ChecksHold' /\ EffectsOnce'
    BY DEF TypeOK, ChecksHold, EffectsOnce
  <1>3. r \in committed
    BY DEF EffectsOnce
  <1>4. StatusTellsTheTruth'
    <2> DEFINE new == [topic |-> topic, by |-> r]
    <2>1. new \in notices' /\ new.by = r
      OBVIOUS
    <2>2. \A x \in notices' : x \in notices \/ x.by = r
      OBVIOUS
    <2>3. status'[r] = code /\ \A q \in Requests \ {r} : status'[q] = status[q]
      BY DEF TypeOK
    <2> HIDE DEF new, Reply
    <2>4. committed' = committed /\ notices \subseteq notices'
      BY DEF Reply
    <2> QED
      BY <1>3, <2>1, <2>2, <2>3, <2>4 DEF StatusTellsTheTruth
  <1>5. ReactionKey' /\ Finite' /\ OneAnswerWins'
    BY DEF ReactionKey, Finite, OneAnswerWins, Did
  <1> QED
    BY <1>1, <1>2, <1>4, <1>5 DEF ChecksHold, StatementsFindTheirRows

\* The process ends and starts again.
LEMMA RestartStep ==
  ASSUME BoardInv, Restart
  PROVE  BoardInv'
  <1> USE DEF Restart, db, BoardInv
  <1>1. TypeOK'
    BY DEF TypeOK, Places
  <1>2. ChecksHold' /\ EffectsOnce'
    BY DEF TypeOK, ChecksHold, EffectsOnce
  <1>3. ReactionKey' /\ Finite' /\ StatusTellsTheTruth' /\ OneAnswerWins'
    BY DEF ReactionKey, Finite, StatusTellsTheTruth, OneAnswerWins, Did
  <1> QED
    BY <1>1, <1>2, <1>3 DEF ChecksHold, StatementsFindTheirRows

\* A handler that does not wait for its statement any more.
LEMMA GiveUpStep ==
  ASSUME NEW r \in Requests, BoardInv, GiveUp(r)
  PROVE  BoardInv'
  <1> USE DEF GiveUp, db, BoardInv
  <1>1. TypeOK'
    BY DEF TypeOK, Places
  <1>2. ChecksHold' /\ EffectsOnce'
    BY DEF TypeOK, ChecksHold, EffectsOnce
  <1>3. r \notin committed
    BY DEF EffectsOnce
  <1>4. StatusTellsTheTruth'
    BY <1>3 DEF TypeOK, StatusTellsTheTruth
  <1>5. ReactionKey' /\ Finite' /\ OneAnswerWins'
    BY DEF TypeOK, ReactionKey, Finite, OneAnswerWins, Did
  <1> QED
    BY <1>1, <1>2, <1>4, <1>5 DEF ChecksHold, StatementsFindTheirRows

-----------------------------------------------------------------------------
\* What every commit does to the handler's state: it was running and had not
\* taken effect before.
LEMMA CommitStep ==
  ASSUME NEW r \in Requests, NEW n \in Int, BoardInv, Running(r), Commit(r, n)
  PROVE  /\ r \notin committed
         /\ committed' = committed \cup {r} /\ IsFiniteSet(committed')
         /\ count' \in [Requests -> Int]
         /\ pc' \in [Requests -> Places]
         /\ pc'[r] \in {"reply", "lost"}
         /\ \A q \in Requests \ {r} : pc'[q] = pc[q]
         /\ status' = status /\ status[r] \in {0, 500}
         /\ status[r] # 0 => pc'[r] = "lost"
         /\ input' = input /\ snap' = snap /\ notices' = notices
  <1> USE DEF Running, BoardInv, TypeOK
  <1>1. /\ r \notin committed
        /\ committed' = committed \cup {r}
        /\ count' \in [Requests -> Int]
        /\ input' = input /\ snap' = snap /\ notices' = notices
    BY DEF Commit, EffectsOnce
  <1>2. IsFiniteSet(committed')
    BY <1>1, FS_AddElement DEF Finite
  <1>3. status[r] \in {0, 500} /\ (status[r] # 0 => pc[r] = "orphan")
    BY DEF EffectsOnce
  <1>4. CASE pc[r] = "orphan" /\ Go(r, "lost")
    BY <1>1, <1>3, <1>4, <1>2 DEF Go, Places
  <1>5. CASE pc[r] # "orphan" /\ Go(r, "reply")
    BY <1>1, <1>3, <1>5, <1>2 DEF Go, Places
  <1> QED
    BY <1>4, <1>5 DEF Commit

\* A commit that keeps every row's room and message there, and touches no
\* answer or gives the message its first one, keeps the rest of BoardInv.
LEMMA CommitKeeps ==
  ASSUME NEW r \in Requests, NEW n \in Int, BoardInv, Running(r), Commit(r, n),
         rooms \subseteq rooms', rooms' \subseteq rooms \cup {r},
         DOMAIN messages \subseteq DOMAIN messages',
         DOMAIN messages' \subseteq DOMAIN messages \cup {r},
         input[r].op = "answer" => input[r].msg \in DOMAIN messages'
  PROVE  /\ ChecksHold' /\ EffectsOnce' /\ StatusTellsTheTruth'
         /\ StatementsFindTheirRows'
  <1> USE CommitStep
  <1>1. ChecksHold'
    BY DEF BoardInv, ChecksHold, Running
  <1>2. \A x \in notices : x.by \in Requests /\ x.by # r
    BY DEF BoardInv, TypeOK, EffectsOnce, Running
  <1>3. EffectsOnce'
    BY <1>2 DEF BoardInv, TypeOK, EffectsOnce, Running
  <1>4. StatusTellsTheTruth'
    BY <1>2 DEF BoardInv, TypeOK, EffectsOnce, StatusTellsTheTruth, Running
  <1> QED
    BY <1>1, <1>3, <1>4 DEF ChecksHold, StatementsFindTheirRows

-----------------------------------------------------------------------------
\* Inserting a room.
LEMMA InsertRoomStep ==
  ASSUME NEW r \in Requests, BoardInv, InsertRoom(r), input[r].op = "create_room"
  PROVE  BoardInv'
  <1> USE DEF InsertRoom
  <1>1. ChecksHold' /\ EffectsOnce' /\ StatusTellsTheTruth' /\ StatementsFindTheirRows'
    BY CommitKeeps
  <1>2. TypeOK'
    BY CommitStep DEF BoardInv, TypeOK, RoomIds
  <1>3. ReactionKey' /\ Finite' /\ OneAnswerWins'
    BY CommitStep DEF BoardInv, ReactionKey, Finite, OneAnswerWins, Did
  <1> QED
    BY <1>1, <1>2, <1>3 DEF BoardInv

\* Inserting a message: its id is new, so no answer is lost.
LEMMA InsertMessageStep ==
  ASSUME NEW r \in Requests, BoardInv, InsertMessage(r), input[r].op = "create_message"
  PROVE  BoardInv'
  <1> USE DEF InsertMessage
  <1>1. r \notin DOMAIN messages
    BY CommitStep, BoardAssumption DEF BoardInv, EffectsOnce
  <1>2. ChecksHold' /\ EffectsOnce' /\ StatusTellsTheTruth' /\ StatementsFindTheirRows'
    BY CommitKeeps
  <1>3. Denotes[input[r].key] \in RoomIds
    BY DEF BoardInv, TypeOK, ChecksHold, Running
  <1>4. TypeOK'
    <2>1. DOMAIN messages' \subseteq MessageIds
      BY DEF BoardInv, TypeOK, MessageIds
    <2>2. messages' \in [DOMAIN messages' -> [room : RoomIds, answer : Requests \cup {None}]]
      BY <1>3 DEF BoardInv, TypeOK
    <2> QED
      BY <2>1, <2>2, CommitStep DEF BoardInv, TypeOK
  <1>5. ReactionKey' /\ Finite'
    BY CommitStep DEF BoardInv, ReactionKey, Finite
  <1>6. OneAnswerWins'
    <2>1. committed' = committed \cup {r} /\ input' = input /\ r # None
      BY CommitStep, BoardAssumption
    <2>2. \A q \in committed : input[q].op = "answer" => input[q].msg # r
      BY <1>1 DEF BoardInv, EffectsOnce
    <2>3. /\ DOMAIN messages' = DOMAIN messages \cup {r}
          /\ \A m \in DOMAIN messages : messages'[m] = messages[m]
          /\ messages'[r].answer = None
      BY <1>1
    <2>4. None \notin Requests
      BY BoardAssumption
    <2> HIDE DEF InsertMessage
    <2> QED
      BY <2>1, <2>2, <2>3, <2>4 DEF BoardInv, OneAnswerWins, Did
  <1> QED
    BY <1>2, <1>4, <1>5, <1>6 DEF BoardInv

\* Inserting a reaction: the row's key is free and its request is new.
LEMMA InsertReactionStep ==
  ASSUME NEW r \in Requests, BoardInv, InsertMessageReaction(r), input[r].op = "react"
  PROVE  BoardInv'
  <1> DEFINE row == [msg |-> input[r].msg, user |-> input[r].user, by |-> r]
  <1>1. CASE \E x \in reactions : x.msg = row.msg /\ x.user = row.user
    BY <1>1, RefuseStep DEF InsertMessageReaction
  <1>2. CASE ~ \E x \in reactions : x.msg = row.msg /\ x.user = row.user
    <2>1. /\ Running(r) /\ reactions' = reactions \cup {row}
          /\ Commit(r, Cardinality(snap[r]) + 1)
          /\ UNCHANGED <<rooms, messages>>
      BY <1>2 DEF InsertMessageReaction
    <2>2. Cardinality(snap[r]) + 1 \in Int
      BY FS_CardinalityType DEF BoardInv, Finite
    <2>3. ChecksHold' /\ EffectsOnce' /\ StatusTellsTheTruth' /\ StatementsFindTheirRows'
      BY <2>1, <2>2, CommitKeeps
    <2>4. row \in ReactionRows
      BY <2>1, BoardAssumption DEF BoardInv, TypeOK, ChecksHold, Running, ReactionRows
    <2>5. TypeOK'
      BY <2>1, <2>2, <2>4, CommitStep DEF BoardInv, TypeOK
    <2>6. Finite'
      <3> HIDE DEF row
      <3>1. IsFiniteSet(reactions \cup {row})
        BY FS_AddElement DEF BoardInv, Finite
      <3> QED
        BY <2>1, <2>2, <3>1, CommitStep DEF BoardInv, Finite
    <2>7. ReactionKey' /\ OneAnswerWins'
      BY <1>2, <2>1, <2>2, CommitStep DEF BoardInv, ReactionKey, OneAnswerWins, Did
    <2> QED
      BY <2>3, <2>5, <2>6, <2>7 DEF BoardInv
  <1> QED
    BY <1>1, <1>2

\* Removing a reaction.
LEMMA RemoveReactionStep ==
  ASSUME NEW r \in Requests, BoardInv, RemoveMessageReaction(r), input[r].op = "unreact"
  PROVE  BoardInv'
  <1> DEFINE mine == {x \in snap[r] : x.user = input[r].user}
  <1>1. CASE mine \cap reactions = {}
    BY <1>1, RefuseStep DEF RemoveMessageReaction
  <1>2. CASE mine \cap reactions # {}
    <2>1. /\ Running(r) /\ reactions' = reactions \ mine
          /\ Commit(r, Cardinality(snap[r]) - 1)
          /\ UNCHANGED <<rooms, messages>>
      BY <1>2 DEF RemoveMessageReaction
    <2>2. Cardinality(snap[r]) - 1 \in Int
      BY FS_CardinalityType DEF BoardInv, Finite
    <2> HIDE DEF mine
    <2>3. ChecksHold' /\ EffectsOnce' /\ StatusTellsTheTruth' /\ StatementsFindTheirRows'
      BY <2>1, <2>2, CommitKeeps
    <2>4. TypeOK'
      BY <2>1, <2>2, CommitStep DEF BoardInv, TypeOK
    <2>5. Finite'
      BY <2>1, <2>2, FS_Subset, CommitStep DEF BoardInv, Finite
    <2>6. ReactionKey' /\ OneAnswerWins'
      BY <2>1, <2>2, CommitStep DEF BoardInv, ReactionKey, OneAnswerWins, Did
    <2> QED
      BY <2>3, <2>4, <2>5, <2>6 DEF BoardInv
  <1> QED
    BY <1>1, <1>2

\* Answering: only an unanswered message takes an answer.
LEMMA AnswerStep ==
  ASSUME NEW r \in Requests, BoardInv, AnswerMessage(r), input[r].op = "answer"
  PROVE  BoardInv'
  <1> DEFINE m == input[r].msg
  <1>1. CASE messages[m].answer # None
    BY <1>1, RefuseStep DEF AnswerMessage
  <1>2. CASE messages[m].answer = None
    <2>1. /\ Running(r) /\ messages' = [messages EXCEPT ![m].answer = r]
          /\ Commit(r, 0) /\ UNCHANGED <<rooms, reactions>>
      BY <1>2 DEF AnswerMessage
    <2>2. m \in DOMAIN messages
      BY <2>1 DEF BoardInv, ChecksHold, Running
    <2>3. ChecksHold' /\ EffectsOnce' /\ StatusTellsTheTruth' /\ StatementsFindTheirRows'
      BY <2>1, <2>2, CommitKeeps
    <2>4. TypeOK'
      BY <2>1, <2>2, CommitStep DEF BoardInv, TypeOK
    <2>5. ReactionKey' /\ Finite'
      BY <2>1, CommitStep DEF BoardInv, ReactionKey, Finite
    <2>6. OneAnswerWins'
      <3>1. /\ DOMAIN messages' = DOMAIN messages /\ messages'[m].answer = r
            /\ \A n \in DOMAIN messages : n # m => messages'[n] = messages[n]
        BY <2>1, <2>2 DEF BoardInv, TypeOK
      <3>2. committed' = committed \cup {r} /\ input' = input
        BY <2>1 DEF Commit
      <3>3. \A q \in Requests : ~Did(q, "answer", m)
        BY <1>2, <2>2, BoardAssumption DEF BoardInv, OneAnswerWins
      <3>4. ASSUME NEW n \in DOMAIN messages, NEW q \in Requests
            PROVE  Did(q, "answer", n)' <=> q = messages'[n].answer
        BY <3>1, <3>2, <3>3, <3>4 DEF BoardInv, OneAnswerWins, Did
      <3> QED
        BY <3>1, <3>4 DEF OneAnswerWins
    <2> QED
      BY <2>3, <2>4, <2>5, <2>6 DEF BoardInv
  <1> QED
    BY <1>1, <1>2

-----------------------------------------------------------------------------
\* A request that has arrived has an input.
LEMMA InputKnown ==
  ASSUME NEW r \in Requests, BoardInv, pc[r] # "new"
  PROVE  input[r] \in Inputs /\ input[r].key \in RoomKeys
  <1>1. input[r] \in Inputs
    BY DEF BoardInv, TypeOK, ChecksHold
  <1>2. input[r] \in [op : Ops, key : RoomKeys, msg : MessageIds, user : Users, flaw : Flaws]
    BY <1>1, BoardAssumption
  <1> QED
    BY <1>1, <1>2

\* The steps of each handler keep BoardInv.
LEMMA CreateRoomStep ==
  ASSUME NEW r \in Requests, BoardInv, CreateRoom(r)
  PROVE  BoardInv'
  <1> input[r].op = "create_room"
    BY DEF CreateRoom
  <1>1. CASE CheckPayload(r, "write")
    BY <1>1, PassStep, RejectStep DEF CheckPayload
  <1>2. CASE Reply(r, 201, RoomsList)
    BY <1>2, ReplyStep
  <1> QED
    BY <1>1, <1>2, SendStep, InsertRoomStep DEF CreateRoom

LEMMA CreateRoomMessageStep ==
  ASSUME NEW r \in Requests, BoardInv, CreateRoomMessage(r)
  PROVE  BoardInv'
  <1> input[r].op = "create_message"
    BY DEF CreateRoomMessage
  <1>1. CASE CheckIDs(r, "payload")
    BY <1>1, PassStep, RejectStep DEF CheckIDs
  <1>2. CASE CheckPayload(r, "room")
    BY <1>2, PassStep, RejectStep DEF CheckPayload
  <1>3. CASE CheckRoomExists(r, "write")
    BY <1>3, PassStep, RejectStep DEF CheckRoomExists
  <1>4. CASE Reply(r, 201, input[r].key)
    BY <1>4, ReplyStep, InputKnown DEF Reply
  <1> QED
    BY <1>1, <1>2, <1>3, <1>4, SendStep, InsertMessageStep DEF CreateRoomMessage

LEMMA ReactionToMessageStep ==
  ASSUME NEW r \in Requests, BoardInv, ReactionToMessage(r)
  PROVE  BoardInv'
  <1> input[r].op = "react"
    BY DEF ReactionToMessage
  <1>1. CASE CheckIDs(r, "room")
    BY <1>1, PassStep, RejectStep DEF CheckIDs
  <1>2. CASE CheckRoomExists(r, "message")
    BY <1>2, PassStep, RejectStep DEF CheckRoomExists
  <1>3. CASE CheckMessageExists(r, "payload")
    BY <1>3, PassStep, RejectStep DEF CheckMessageExists, BoardInv, ChecksHold
  <1>4. CASE CheckPayload(r, "write")
    BY <1>4, PassStep, RejectStep DEF CheckPayload, BoardInv, ChecksHold
  <1>5. CASE Reply(r, 200, input[r].key)
    BY <1>5, ReplyStep, InputKnown DEF Reply
  <1> QED
    BY <1>1, <1>2, <1>3, <1>4, <1>5, SendStep, InsertReactionStep DEF ReactionToMessage

LEMMA RemoveReactionFromMessageStep ==
  ASSUME NEW r \in Requests, BoardInv, RemoveReactionFromMessage(r)
  PROVE  BoardInv'
  <1> input[r].op = "unreact"
    BY DEF RemoveReactionFromMessage
  <1>1. CASE CheckIDs(r, "room")
    BY <1>1, PassStep, RejectStep DEF CheckIDs
  <1>2. CASE CheckRoomExists(r, "message")
    BY <1>2, PassStep, RejectStep DEF CheckRoomExists
  <1>3. CASE CheckMessageExists(r, "payload")
    BY <1>3, PassStep, RejectStep DEF CheckMessageExists, BoardInv, ChecksHold
  <1>4. CASE CheckPayload(r, "write")
    BY <1>4, PassStep, RejectStep DEF CheckPayload, BoardInv, ChecksHold
  <1>5. CASE Reply(r, 200, input[r].key)
    BY <1>5, ReplyStep, InputKnown DEF Reply
  <1> QED
    BY <1>1, <1>2, <1>3, <1>4, <1>5, SendStep, RemoveReactionStep
    DEF RemoveReactionFromMessage

LEMMA SetMessageToAnsweredStep ==
  ASSUME NEW r \in Requests, BoardInv, SetMessageToAnswered(r)
  PROVE  BoardInv'
  <1> input[r].op = "answer"
    BY DEF SetMessageToAnswered
  <1>1. CASE CheckIDs(r, "payload")
    BY <1>1, PassStep, RejectStep DEF CheckIDs
  <1>2. CASE CheckPayload(r, "room")
    BY <1>2, PassStep, RejectStep DEF CheckPayload
  <1>3. CASE CheckRoomExists(r, "message")
    BY <1>3, PassStep, RejectStep DEF CheckRoomExists
  <1>4. CASE CheckMessageExists(r, "write")
    BY <1>4, PassStep, RejectStep DEF CheckMessageExists, BoardInv, ChecksHold
  <1>5. CASE Reply(r, 200, input[r].key)
    BY <1>5, ReplyStep, InputKnown DEF Reply
  <1> QED
    BY <1>1, <1>2, <1>3, <1>4, <1>5, SendStep, AnswerStep DEF SetMessageToAnswered

\* BoardInv is inductive.
LEMMA BoardStep == BoardInv /\ [Next]_vars => BoardInv'
  <1> SUFFICES ASSUME BoardInv, [Next]_vars PROVE BoardInv'
    OBVIOUS
  <1>1. ASSUME NEW r \in Requests, Handler(r)
        PROVE  BoardInv'
    BY <1>1, CreateRoomStep, CreateRoomMessageStep, ReactionToMessageStep,
       RemoveReactionFromMessageStep, SetMessageToAnsweredStep, GiveUpStep DEF Handler
  <1>2. CASE UNCHANGED vars
    BY <1>2 DEF vars, db, BoardInv, TypeOK, ChecksHold, EffectsOnce, ReactionKey, Finite,
       OneAnswerWins, Did, StatusTellsTheTruth, StatementsFindTheirRows
  <1> QED
    BY <1>1, <1>2, ReceiveStep, RestartStep DEF Next

\* The invariant of the board, for any requests, users, rooms and messages.
THEOREM BoardCorrect == Spec => []BoardInv
  BY BoardInit, BoardStep, PTL DEF Spec

\* However many answers race, one wins and it is the one that is stored.
THEOREM AnswerOnce == Spec => []OneAnswerWins
  <1>1. BoardInv => OneAnswerWins
    BY DEF BoardInv
  <1> QED
    BY <1>1, BoardCorrect, PTL

\* A reported success is a change that was made and announced, a client error
\* one that was not.
THEOREM StatusTrue == Spec => []StatusTellsTheTruth
  <1>1. BoardInv => StatusTellsTheTruth
    BY DEF BoardInv
  <1> QED
    BY <1>1, BoardCorrect, PTL

\* No statement refers to a room or a message that is not there.
THEOREM NoDanglingReference == Spec => []StatementsFindTheirRows
  <1>1. BoardInv => StatementsFindTheirRows
    BY DEF BoardInv
  <1> QED
    BY <1>1, BoardCorrect, PTL

-----------------------------------------------------------------------------
\* What a step does to the messages: it adds an unanswered one, gives an
\* unanswered one its answer, or leaves them alone.
LEMMA MessagesStep ==
  ASSUME BoardInv, [Next]_vars, NEW m \in DOMAIN messages, messages[m].answer # None
  PROVE  m \in DOMAIN messages' /\ messages'[m] = messages[m]
  <1>1. ASSUME NEW r \in Requests, InsertMessage(r)
        PROVE  m \in DOMAIN messages' /\ messages'[m] = messages[m]
    <2>1. r \notin DOMAIN messages
      BY <1>1, CommitStep, BoardAssumption DEF InsertMessage, BoardInv, EffectsOnce
    <2> QED
      BY <1>1, <2>1 DEF InsertMessage
  <1>2. ASSUME NEW r \in Requests, AnswerMessage(r)
        PROVE  m \in DOMAIN messages' /\ messages'[m] = messages[m]
    BY <1>2 DEF AnswerMessage, Refuse, db, BoardInv, TypeOK
  <1>3. ASSUME NEW r \in Requests, Handler(r), ~InsertMessage(r), ~AnswerMessage(r)
        PROVE  messages' = messages
    BY <1>3 DEF Handler, GiveUp, CreateRoom, CreateRoomMessage, ReactionToMessage,
       RemoveReactionFromMessage, SetMessageToAnswered, CheckIDs, CheckPayload,
       CheckRoomExists, CheckMessageExists, SendStatement, Reply, Refuse, InsertRoom,
       InsertMessageReaction, RemoveMessageReaction, db
  <1> QED
    BY <1>1, <1>2, <1>3 DEF Next, Receive, Restart, vars, db

\* An answered message never changes.
THEOREM AnswerStays == Spec => AnswerIsFinal
  <1>1. BoardInv /\ [Next]_vars =>
          [\A m \in DOMAIN messages :
             messages[m].answer # None => /\ m \in DOMAIN messages'
                                          /\ messages'[m] = messages[m]]_vars
    BY MessagesStep
  <1> QED
    BY <1>1, BoardCorrect, PTL DEF Spec, AnswerIsFinal

-----------------------------------------------------------------------------
\* The initial states are those of the abstract board.
LEMMA AtomicInit == Init => Atomic!Init
  BY DEF Init, Atomic!Init

\* A commit is one step of the abstract board, everything else but a reply
\* changes nothing it sees.
LEMMA AtomicCommit ==
  ASSUME NEW r \in Requests, BoardInv, Handler(r), UNCHANGED notices
  PROVE  Atomic!Next \/ UNCHANGED Atomic!vars
  <1> USE DEF Atomic!TakeEffect
  <1>1. CASE CreateRoom(r) /\ InsertRoom(r)
    <2>1. Atomic!AddRoom(r)
      BY <1>1, CommitStep, BoardAssumption
      DEF InsertRoom, Atomic!AddRoom, BoardInv, EffectsOnce
    <2> QED
      BY <2>1 DEF Atomic!Next
  <1>2. CASE CreateRoomMessage(r) /\ InsertMessage(r)
    <2>1. Denotes[input[r].key] \in rooms
      BY <1>2 DEF CreateRoomMessage, InsertMessage, Running, BoardInv, ChecksHold
    <2>2. Atomic!AddMessage(r, Denotes[input[r].key])
      BY <1>2, <2>1, CommitStep, BoardAssumption
      DEF InsertMessage, Atomic!AddMessage, BoardInv, EffectsOnce
    <2> QED
      BY <2>1, <2>2 DEF Atomic!Next
  <1>3. CASE ReactionToMessage(r) /\ InsertMessageReaction(r)
    <2> DEFINE m == input[r].msg
               u == input[r].user
               row == [msg |-> m, user |-> u, by |-> r]
    <2>1. CASE \E x \in reactions : x.msg = m /\ x.user = u
      BY <1>3, <2>1 DEF InsertMessageReaction, Refuse, db, Atomic!vars
    <2>2. CASE ~ \E x \in reactions : x.msg = m /\ x.user = u
      <3>1. /\ Running(r) /\ reactions' = reactions \cup {row}
            /\ Commit(r, Cardinality(snap[r]) + 1) /\ UNCHANGED <<rooms, messages>>
        BY <1>3, <2>2 DEF InsertMessageReaction
      <3>2. m \in DOMAIN messages /\ u \in Users
        BY <1>3, <3>1, InputKnown, BoardAssumption
        DEF ReactionToMessage, Running, BoardInv, ChecksHold
      <3>3. r \notin committed /\ committed' = committed \cup {r}
        BY <3>1 DEF Commit, Running, BoardInv, EffectsOnce
      <3>4. {<<x.msg, x.user>> : x \in reactions'}
              = {<<x.msg, x.user>> : x \in reactions} \cup {<<m, u>>}
        <4>1. row.msg = m /\ row.user = u
          OBVIOUS
        <4> HIDE DEF row, m, u
        <4> QED
          BY <3>1, <4>1
      <3>5. <<m, u>> \notin {<<x.msg, x.user>> : x \in reactions}
        BY <2>2
      <3>6. Atomic!React(r, m, u)
        BY <3>1, <3>2, <3>3, <3>4, <3>5 DEF Atomic!React
      <3>7. \E n \in DOMAIN messages, v \in Users : Atomic!React(r, n, v)
        BY <3>2, <3>6 DEF Atomic!React
      <3> QED
        BY <3>7 DEF Atomic!Next
    <2> QED
      BY <2>1, <2>2
  <1>4. CASE RemoveReactionFromMessage(r) /\ RemoveMessageReaction(r)
    <2> DEFINE m == input[r].msg
               u == input[r].user
               mine == {x \in snap[r] : x.user = u}
    <2>1. CASE mine \cap reactions = {}
      BY <1>4, <2>1 DEF RemoveMessageReaction, Refuse, db, Atomic!vars
    <2>2. CASE mine \cap reactions # {}
      <3>1. /\ Running(r) /\ reactions' = reactions \ mine
            /\ Commit(r, Cardinality(snap[r]) - 1) /\ UNCHANGED <<rooms, messages>>
        BY <1>4, <2>2 DEF RemoveMessageReaction
      <3>2. m \in DOMAIN messages /\ u \in Users
        BY <1>4, <3>1, InputKnown, BoardAssumption
        DEF RemoveReactionFromMessage, Running, BoardInv, ChecksHold
      <3>3. r \notin committed /\ committed' = committed \cup {r}
        BY <3>1 DEF Commit, Running, BoardInv, EffectsOnce
      <3>4. PICK old \in mine \cap reactions : TRUE
        BY <2>2
      <3>5. \A x \in mine : x.msg = m /\ x.user = u
        BY <3>1 DEF BoardInv, ReactionKey, Running
      <3>6. \A x \in reactions : x.msg = m /\ x.user = u => x = old
        BY <3>4, <3>5 DEF BoardInv, ReactionKey
      <3>7. \A x \in reactions' : x \in reactions /\ <<x.msg, x.user>> # <<m, u>>
        BY <3>1, <3>4, <3>6
      <3>8. \A x \in reactions : <<x.msg, x.user>> # <<m, u>> => x \in reactions'
        BY <3>1, <3>5
      <3>9. {<<x.msg, x.user>> : x \in reactions'}
              = {<<x.msg, x.user>> : x \in reactions} \ {<<m, u>>}
        BY <3>7, <3>8
      <3>10. <<m, u>> \in {<<x.msg, x.user>> : x \in reactions}
        BY <3>4, <3>5
      <3>11. Atomic!Unreact(r, m, u)
        BY <3>1, <3>3, <3>9, <3>10 DEF Atomic!Unreact
      <3>12. \E n \in DOMAIN messages, v \in Users : Atomic!Unreact(r, n, v)
        BY <3>2, <3>11 DEF Atomic!Unreact
      <3> QED
        BY <3>12 DEF Atomic!Next
    <2> QED
      BY <2>1, <2>2
  <1>5. CASE SetMessageToAnswered(r) /\ AnswerMessage(r)
    <2> DEFINE m == input[r].msg
    <2>1. CASE messages[m].answer # None
      BY <1>5, <2>1 DEF AnswerMessage, Refuse, db, Atomic!vars
    <2>2. CASE messages[m].answer = None
      <3>1. /\ Running(r) /\ messages' = [messages EXCEPT ![m].answer = r]
            /\ Commit(r, 0) /\ UNCHANGED <<rooms, reactions>>
        BY <1>5, <2>2 DEF AnswerMessage
      <3>2. m \in DOMAIN messages
        BY <1>5, <3>1 DEF SetMessageToAnswered, Running, BoardInv, ChecksHold
      <3>3. r \notin committed /\ committed' = committed \cup {r}
        BY <3>1 DEF Commit, Running, BoardInv, EffectsOnce
      <3>4. Atomic!Answer(r, m)
        BY <2>2, <3>1, <3>2, <3>3 DEF Atomic!Answer
      <3> QED
        BY <3>2, <3>4 DEF Atomic!Next
    <2> QED
      BY <2>1, <2>2
  <1>6. CASE UNCHANGED <<db, committed>>
    BY <1>6 DEF db, Atomic!vars
  <1> QED
    BY <1>1, <1>2, <1>3, <1>4, <1>5, <1>6
    DEF Handler, GiveUp, CreateRoom, CreateRoomMessage, ReactionToMessage,
        RemoveReactionFromMessage, SetMessageToAnswered, CheckIDs, CheckPayload,
        CheckRoomExists, CheckMessageExists, SendStatement, Reply

\* A reply is the announcement of a change that was made and not yet announced.
LEMMA AtomicReply ==
  ASSUME NEW r \in Requests, NEW code \in {200, 201},
         NEW topic \in RoomKeys \cup {RoomsList}, BoardInv, Reply(r, code, topic)
  PROVE  Atomic!Next
  <1>1. r \in committed /\ \A x \in notices : x.by # r
    BY DEF Reply, BoardInv, EffectsOnce
  <1>2. Atomic!Announce(r, topic)
    BY <1>1 DEF Reply, db, Atomic!Announce
  <1> QED
    BY <1>2 DEF Atomic!Next

\* Every step of the board is a step of the abstract board or changes nothing
\* it sees.
LEMMA AtomicStep == BoardInv /\ [Next]_vars => [Atomic!Next]_(Atomic!vars)
  <1> SUFFICES ASSUME BoardInv, [Next]_vars
               PROVE  Atomic!Next \/ UNCHANGED Atomic!vars
    OBVIOUS
  <1>1. ASSUME NEW r \in Requests, Handler(r)
        PROVE  Atomic!Next \/ UNCHANGED Atomic!vars
    <2>1. CASE UNCHANGED notices
      BY <1>1, <2>1, AtomicCommit
    <2>2. CASE pc[r] # "new" /\ Reply(r, 201, RoomsList)
      BY <2>2, AtomicReply
    <2>3. ASSUME NEW code \in {200, 201}, pc[r] # "new", Reply(r, code, input[r].key)
          PROVE  Atomic!Next
      BY <2>3, AtomicReply, InputKnown
    <2> QED
      BY <1>1, <2>1, <2>2, <2>3
      DEF Handler, GiveUp, CreateRoom, CreateRoomMessage, ReactionToMessage,
          RemoveReactionFromMessage, SetMessageToAnswered, CheckIDs, CheckPayload,
          CheckRoomExists, CheckMessageExists, SendStatement, Refuse, Commit, InsertRoom,
          InsertMessage, InsertMessageReaction, RemoveMessageReaction, AnswerMessage
  <1> QED
    BY <1>1 DEF Next, Receive, Restart, vars, db, Atomic!vars

\* Each handler, with everything that can come between its steps, is atomic.
THEOREM BoardIsAtomic == Spec => ImplementsAtomicBoard
  BY AtomicInit, AtomicStep, BoardCorrect, PTL DEF Spec, ImplementsAtomicBoard, Atomic!Spec

-----------------------------------------------------------------------------
(* The reactions table is the sum of the requests that took effect.          *)

By(op, m, u) == {r \in Requests : Did(r, op, m) /\ input[r].user = u}
Rows(m, u) == {x \in reactions : x.msg = m /\ x.user = u}
Balanced(m, u) == Cardinality(By("react", m, u)) - Cardinality(By("unreact", m, u))
                    = Cardinality(Rows(m, u))

\* The sets that are counted are finite.
LEMMA CountsFinite ==
  ASSUME BoardInv, NEW m, NEW u, NEW op
  PROVE  /\ IsFiniteSet(By(op, m, u)) /\ IsFiniteSet(Rows(m, u))
         /\ Cardinality(By(op, m, u)) \in Nat
  <1>1. By(op, m, u) \subseteq committed /\ Rows(m, u) \subseteq reactions
    BY DEF By, Did, Rows
  <1> QED
    BY <1>1, FS_Subset, FS_CardinalityType DEF BoardInv, Finite

\* A reaction that is inserted adds one request and one row to its pair.
LEMMA InsertBalanced ==
  ASSUME NEW r \in Requests, BoardInv, ReactionsAddUp, ReactionToMessage(r),
         InsertMessageReaction(r), reactions' # reactions,
         NEW m \in MessageIds, NEW u \in Users
  PROVE  Balanced(m, u)'
  <1> DEFINE row == [msg |-> input[r].msg, user |-> input[r].user, by |-> r]
  <1>1. /\ \A x \in reactions : ~(x.msg = row.msg /\ x.user = row.user)
        /\ reactions' = reactions \cup {row}
        /\ input' = input /\ committed' = committed \cup {r} /\ r \notin committed
    BY DEF InsertMessageReaction, Refuse, db, Commit, Running, BoardInv, EffectsOnce
  <1>2. Balanced(m, u)
    BY DEF ReactionsAddUp, Balanced, By, Rows
  <1>3. By("unreact", m, u)' = By("unreact", m, u)
    BY <1>1 DEF By, Did, ReactionToMessage
  <1>4. CASE m = row.msg /\ u = row.user
    <2>1. By("react", m, u)' = By("react", m, u) \cup {r} /\ r \notin By("react", m, u)
      BY <1>1, <1>4 DEF By, Did, ReactionToMessage
    <2>2. Cardinality(By("react", m, u)') = Cardinality(By("react", m, u)) + 1
      BY <2>1, CountsFinite, FS_AddElement
    <2>3. Rows(m, u) = {} /\ Rows(m, u)' = {row}
      BY <1>1, <1>4 DEF Rows
    <2>4. Cardinality(Rows(m, u)) = 0 /\ Cardinality(Rows(m, u)') = 1
      BY <2>3, FS_EmptySet, FS_Singleton
    <2> QED
      BY <1>2, <1>3, <2>2, <2>4, CountsFinite DEF Balanced
  <1>5. CASE ~(m = row.msg /\ u = row.user)
    <2>1. By("react", m, u)' = By("react", m, u)
      BY <1>1, <1>5 DEF By, Did
    <2>2. Rows(m, u)' = Rows(m, u)
      BY <1>1, <1>5 DEF Rows
    <2> QED
      BY <1>2, <1>3, <2>1, <2>2 DEF Balanced
  <1> QED
    BY <1>4, <1>5

\* A reaction that is removed adds one request and takes the one row there is.
LEMMA RemoveBalanced ==
  ASSUME NEW r \in Requests, BoardInv, ReactionsAddUp, RemoveReactionFromMessage(r),
         RemoveMessageReaction(r), reactions' # reactions,
         NEW m \in MessageIds, NEW u \in Users
  PROVE  Balanced(m, u)'
  <1> DEFINE mine == {x \in snap[r] : x.user = input[r].user}
  <1>1. /\ mine \cap reactions # {} /\ reactions' = reactions \ mine
        /\ input' = input /\ committed' = committed \cup {r} /\ r \notin committed
    BY DEF RemoveMessageReaction, Refuse, db, Commit, Running, BoardInv, EffectsOnce
  <1>2. Balanced(m, u)
    BY DEF ReactionsAddUp, Balanced, By, Rows
  <1>3. By("react", m, u)' = By("react", m, u)
    BY <1>1 DEF By, Did, RemoveReactionFromMessage
  <1>4. \A x \in mine : x.msg = input[r].msg /\ x.user = input[r].user
    BY DEF RemoveMessageReaction, Running, BoardInv, ReactionKey
  <1>5. CASE m = input[r].msg /\ u = input[r].user
    <2>1. /\ By("unreact", m, u)' = By("unreact", m, u) \cup {r}
          /\ r \notin By("unreact", m, u)
      BY <1>1, <1>5 DEF By, Did, RemoveReactionFromMessage
    <2>2. Cardinality(By("unreact", m, u)') = Cardinality(By("unreact", m, u)) + 1
      BY <2>1, CountsFinite, FS_AddElement
    <2>3. PICK old \in mine \cap reactions : TRUE
      BY <1>1
    <2>4. Rows(m, u) = {old} /\ Rows(m, u)' = {}
      BY <1>1, <1>4, <1>5, <2>3 DEF Rows, BoardInv, ReactionKey
    <2>5. Cardinality(Rows(m, u)) = 1 /\ Cardinality(Rows(m, u)') = 0
      BY <2>4, FS_EmptySet, FS_Singleton
    <2> QED
      BY <1>2, <1>3, <2>2, <2>5, CountsFinite DEF Balanced
  <1>6. CASE ~(m = input[r].msg /\ u = input[r].user)
    <2>1. By("unreact", m, u)' = By("unreact", m, u)
      BY <1>1, <1>6 DEF By, Did
    <2>2. Rows(m, u)' = Rows(m, u)
      BY <1>1, <1>4, <1>6 DEF Rows
    <2> QED
      BY <1>2, <1>3, <2>1, <2>2 DEF Balanced
  <1> QED
    BY <1>5, <1>6

\* No other step touches the table or the requests that are counted.
LEMMA OthersCountNothing ==
  ASSUME BoardInv, [Next]_vars, reactions' = reactions,
         NEW q \in Requests, NEW op \in {"react", "unreact"},
         NEW m \in MessageIds
  PROVE  Did(q, op, m)' <=> Did(q, op, m)
  <1>1. ASSUME NEW r \in Requests, NEW i \in Inputs, Receive(r, i)
        PROVE  Did(q, op, m)' <=> Did(q, op, m)
    <2>1. r \notin committed /\ committed' = committed
      BY <1>1 DEF Receive, BoardInv, EffectsOnce
    <2>2. q # r => input'[q] = input[q]
      BY <1>1 DEF Receive, BoardInv, TypeOK
    <2> QED
      BY <2>1, <2>2 DEF Did
  <1>2. ASSUME NEW r \in Requests, Handler(r), input[r].op \in {"react", "unreact"}
        PROVE  input' = input /\ committed' = committed
    <2>1. ASSUME InsertMessageReaction(r)
          PROVE  input' = input /\ committed' = committed
      <3> DEFINE row == [msg |-> input[r].msg, user |-> input[r].user, by |-> r]
      <3>1. row \notin reactions
        BY <2>1 DEF InsertMessageReaction, Running, BoardInv, ReactionKey, EffectsOnce
      <3> QED
        BY <2>1, <3>1 DEF InsertMessageReaction, Refuse
    <2>2. ASSUME RemoveMessageReaction(r)
          PROVE  input' = input /\ committed' = committed
      BY <2>2 DEF RemoveMessageReaction, Refuse
    <2> QED
      BY <1>2, <2>1, <2>2
      DEF Handler, GiveUp, CreateRoom, CreateRoomMessage, ReactionToMessage,
          RemoveReactionFromMessage, SetMessageToAnswered, CheckIDs, CheckPayload,
          CheckRoomExists, CheckMessageExists, SendStatement, Reply
  <1>3. ASSUME NEW r \in Requests, Handler(r), input[r].op \notin {"react", "unreact"}
        PROVE  input' = input /\ committed' \in {committed, committed \cup {r}}
    BY <1>3
    DEF Handler, GiveUp, CreateRoom, CreateRoomMessage, ReactionToMessage,
        RemoveReactionFromMessage, SetMessageToAnswered, CheckIDs, CheckPayload,
        CheckRoomExists, CheckMessageExists, SendStatement, Reply, Refuse, Commit,
        InsertRoom, InsertMessage, AnswerMessage
  <1>4. ASSUME NEW r \in Requests, Handler(r)
        PROVE  Did(q, op, m)' <=> Did(q, op, m)
    BY <1>4, <1>2, <1>3 DEF Did
  <1>5. CASE Restart \/ UNCHANGED vars
    BY <1>5 DEF Restart, vars, Did
  <1> QED
    BY <1>1, <1>4, <1>5 DEF Next

LEMMA OthersBalanced ==
  ASSUME BoardInv, [Next]_vars, ReactionsAddUp, reactions' = reactions,
         NEW m \in MessageIds, NEW u \in Users
  PROVE  Balanced(m, u)'
  <1>1. Balanced(m, u)
    BY DEF ReactionsAddUp, Balanced, By, Rows
  <1>2. \A r \in committed : input'[r] = input[r]
    <2>1. ASSUME NEW r \in Requests, NEW i \in Inputs, Receive(r, i), NEW q \in committed
          PROVE  input'[q] = input[q]
      BY <2>1 DEF Receive, BoardInv, EffectsOnce, TypeOK
    <2>2. ASSUME NEW r \in Requests, Handler(r)
          PROVE  input' = input
      BY <2>2
      DEF Handler, GiveUp, CreateRoom, CreateRoomMessage, ReactionToMessage,
          RemoveReactionFromMessage, SetMessageToAnswered, CheckIDs, CheckPayload,
          CheckRoomExists, CheckMessageExists, SendStatement, Reply, Refuse, Commit,
          InsertRoom, InsertMessage, InsertMessageReaction, RemoveMessageReaction,
          AnswerMessage
    <2> QED
      BY <2>1, <2>2 DEF Next, Restart, vars
  <1>3. ASSUME NEW op \in {"react", "unreact"}
        PROVE  By(op, m, u)' = By(op, m, u)
    <2>1. \A q \in Requests : Did(q, op, m)' <=> Did(q, op, m)
      BY <1>3, OthersCountNothing
    <2>2. \A q \in Requests : Did(q, op, m) => input'[q] = input[q]
      BY <1>2 DEF Did
    <2> QED
      BY <2>1, <2>2 DEF By
  <1>4. /\ By("react", m, u)' = By("react", m, u)
        /\ By("unreact", m, u)' = By("unreact", m, u)
    BY <1>3
  <1>5. Rows(m, u)' = Rows(m, u)
    BY DEF Rows
  <1> QED
    BY <1>1, <1>4, <1>5 DEF Balanced

\* Which steps change the table.
LEMMA TableStep ==
  ASSUME BoardInv, [Next]_vars, reactions' # reactions
  PROVE  \E r \in Requests : \/ ReactionToMessage(r) /\ InsertMessageReaction(r)
                             \/ RemoveReactionFromMessage(r) /\ RemoveMessageReaction(r)
  <1>1. PICK r \in Requests : Handler(r)
    BY DEF Next, Receive, Restart, vars, db
  <1>2. \/ ReactionToMessage(r) /\ InsertMessageReaction(r)
        \/ RemoveReactionFromMessage(r) /\ RemoveMessageReaction(r)
    BY <1>1
    DEF Handler, GiveUp, CreateRoom, CreateRoomMessage, ReactionToMessage,
        RemoveReactionFromMessage, SetMessageToAnswered, CheckIDs, CheckPayload,
        CheckRoomExists, CheckMessageExists, SendStatement, Reply, Refuse, db,
        InsertRoom, InsertMessage, AnswerMessage
  <1> QED
    BY <1>2

\* Every step keeps the balance.
LEMMA AddUpStep ==
  BoardInv /\ ReactionsAddUp /\ [Next]_vars => ReactionsAddUp'
  <1> SUFFICES ASSUME BoardInv, ReactionsAddUp, [Next]_vars,
                      NEW m \in MessageIds, NEW u \in Users
               PROVE  Balanced(m, u)'
    BY DEF ReactionsAddUp, Balanced, By, Rows
  <1>1. CASE reactions' = reactions
    BY <1>1, OthersBalanced
  <1>2. CASE reactions' # reactions
    BY <1>2, TableStep, InsertBalanced, RemoveBalanced
  <1> QED
    BY <1>1, <1>2

\* However adds and removes overlap, the rows are what the successful ones
\* add up to.
THEOREM ReactionsBalance == Spec => []ReactionsAddUp
  <1>1. Init => ReactionsAddUp
    <2> SUFFICES ASSUME Init, NEW m \in MessageIds, NEW u \in Users
                 PROVE  Balanced(m, u)
      BY DEF ReactionsAddUp, Balanced, By, Rows
    <2>1. By("react", m, u) = {} /\ By("unreact", m, u) = {} /\ Rows(m, u) = {}
      BY DEF Init, By, Did, Rows
    <2> QED
      BY <2>1, FS_EmptySet DEF Balanced
  <1> QED
    BY <1>1, AddUpStep, BoardCorrect, PTL DEF Spec

-----------------------------------------------------------------------------
\* Who commits an add adds its row, who commits a remove takes its user's, and
\* both return what they counted in their snapshot.
LEMMA ReactionCommit ==
  ASSUME BoardInv, [Next]_vars, NEW r \in committed' \ committed,
         input[r].op \in {"react", "unreact"}
  PROVE  /\ r \in Requests /\ Running(r) /\ input' = input
         /\ \/ /\ input[r].op = "react"
               /\ reactions' = reactions
                    \cup {[msg |-> input[r].msg, user |-> input[r].user, by |-> r]}
               /\ Commit(r, Cardinality(snap[r]) + 1)
            \/ /\ input[r].op = "unreact"
               /\ {x \in snap[r] : x.user = input[r].user} \cap reactions # {}
               /\ reactions' = reactions \ {x \in snap[r] : x.user = input[r].user}
               /\ Commit(r, Cardinality(snap[r]) - 1)
  <1>1. PICK q \in Requests : Handler(q)
    BY DEF Next, Receive, Restart, vars, db
  <1>2. committed' \in {committed, committed \cup {q}}
    BY <1>1
    DEF Handler, GiveUp, CreateRoom, CreateRoomMessage, ReactionToMessage,
        RemoveReactionFromMessage, SetMessageToAnswered, CheckIDs, CheckPayload,
        CheckRoomExists, CheckMessageExists, SendStatement, Reply, Refuse, Commit,
        InsertRoom, InsertMessage, InsertMessageReaction, RemoveMessageReaction,
        AnswerMessage
  <1>3. r = q
    BY <1>2
  <1>4. \/ input[r].op = "react" /\ InsertMessageReaction(r)
        \/ input[r].op = "unreact" /\ RemoveMessageReaction(r)
    BY <1>1, <1>3
    DEF Handler, GiveUp, CreateRoom, CreateRoomMessage, ReactionToMessage,
        RemoveReactionFromMessage, SetMessageToAnswered, CheckIDs, CheckPayload,
        CheckRoomExists, CheckMessageExists, SendStatement, Reply
  <1> QED
    BY <1>3, <1>4 DEF InsertMessageReaction, RemoveMessageReaction, Refuse, Commit

\* A statement whose snapshot is the table as it finds it returns the number of
\* rows it leaves.
LEMMA AloneStep ==
  ASSUME BoardInv, [Next]_vars, NEW r \in committed' \ committed,
         input[r].op \in {"react", "unreact"}, snap[r] = RowsOf(input[r].msg)
  PROVE  count'[r] = Total(input[r].msg)'
  <1> DEFINE m == input[r].msg
             row == [msg |-> m, user |-> input[r].user, by |-> r]
             mine == {x \in snap[r] : x.user = input[r].user}
  <1>1. r \in Requests /\ input' = input /\ IsFiniteSet(snap[r])
    BY ReactionCommit DEF BoardInv, Finite
  <1>2. Total(m)' = Cardinality({x \in reactions' : x.msg = m})
    BY <1>1 DEF Total, RowsOf
  <1>3. CASE /\ reactions' = reactions \cup {row}
             /\ Commit(r, Cardinality(snap[r]) + 1)
    <2>1. {x \in reactions' : x.msg = m} = snap[r] \cup {row}
      BY <1>3 DEF RowsOf
    <2>2. row \notin snap[r]
      BY DEF RowsOf, BoardInv, ReactionKey
    <2>3. count'[r] = Cardinality(snap[r]) + 1
      BY <1>1, <1>3 DEF Commit, BoardInv, TypeOK
    <2>4. Cardinality(snap[r] \cup {row}) = Cardinality(snap[r]) + 1
      BY <1>1, <2>2, FS_AddElement
    <2> QED
      BY <1>2, <2>1, <2>3, <2>4
  <1>4. CASE /\ mine \cap reactions # {} /\ reactions' = reactions \ mine
             /\ Commit(r, Cardinality(snap[r]) - 1)
    <2>1. PICK old \in mine : TRUE
      BY <1>4
    <2>2. mine = {old}
      BY <2>1 DEF RowsOf, BoardInv, ReactionKey
    <2>3. {x \in reactions' : x.msg = m} = snap[r] \ {old} /\ old \in snap[r]
      BY <1>4, <2>2 DEF RowsOf
    <2>4. count'[r] = Cardinality(snap[r]) - 1
      BY <1>1, <1>4 DEF Commit, BoardInv, TypeOK
    <2>5. Cardinality(snap[r] \ {old}) = Cardinality(snap[r]) - 1
      BY <1>1, <2>3, FS_RemoveElement
    <2> QED
      BY <1>2, <2>3, <2>4, <2>5
  <1> QED
    BY <1>3, <1>4, ReactionCommit

\* A reaction that no other one overlaps is told the exact count.
THEOREM CountsExactAlone == Spec => CountExactWhenAlone
  <1>1. BoardInv /\ [Next]_vars =>
          [\A r \in committed' \ committed :
             input[r].op \in {"react", "unreact"} /\ snap[r] = RowsOf(input[r].msg)
               => count'[r] = Total(input[r].msg)']_vars
    BY AloneStep
  <1> QED
    BY <1>1, BoardCorrect, PTL DEF Spec, CountExactWhenAlone

-----------------------------------------------------------------------------
\* A snapshot has the primary key that the table has.
SnapshotKey ==
    \A r \in Requests : \A x, y \in snap[r] :
        x.msg = y.msg /\ x.user = y.user => x = y

\* A snapshot is taken of the table.
LEMMA SnapshotKeyStep == BoardInv /\ SnapshotKey /\ [Next]_vars => SnapshotKey'
  <1> SUFFICES ASSUME BoardInv, SnapshotKey, [Next]_vars, NEW q \in Requests
               PROVE  \A x, y \in snap'[q] : x.msg = y.msg /\ x.user = y.user => x = y
    BY DEF SnapshotKey
  <1>1. ASSUME NEW r \in Requests, Handler(r)
        PROVE  snap' = snap \/ snap' = [snap EXCEPT ![r] = RowsOf(input[r].msg)]
    BY <1>1
    DEF Handler, GiveUp, CreateRoom, CreateRoomMessage, ReactionToMessage,
        RemoveReactionFromMessage, SetMessageToAnswered, CheckIDs, CheckPayload,
        CheckRoomExists, CheckMessageExists, SendStatement, Reply, Refuse, Commit,
        InsertRoom, InsertMessage, InsertMessageReaction, RemoveMessageReaction,
        AnswerMessage
  <1>2. snap'[q] = snap[q] \/ snap'[q] \subseteq reactions
    BY <1>1 DEF Next, Receive, Restart, vars, RowsOf, BoardInv, TypeOK
  <1> QED
    BY <1>2 DEF SnapshotKey, BoardInv, ReactionKey

\* So it has one row per user at most.
LEMMA SnapshotSmall ==
  ASSUME BoardInv, SnapshotKey, IsFiniteSet(Users), NEW r \in Requests, Running(r)
  PROVE  Cardinality(snap[r]) \in 0..Cardinality(Users)
  <1> DEFINE user == [x \in snap[r] |-> x.user]
  <1>1. user \in [snap[r] -> Users]
    BY DEF BoardInv, TypeOK, ReactionRows
  <1>2. \A x, y \in snap[r] : user[x] = user[y] => x = y
    BY DEF SnapshotKey, BoardInv, ReactionKey, Running
  <1>3. user \in Injection(snap[r], Users)
    BY <1>1, <1>2 DEF Injection, IsInjective
  <1>4. Cardinality(snap[r]) <= Cardinality(Users)
    BY <1>3, FS_Injection
  <1> QED
    BY <1>4, FS_CardinalityType DEF BoardInv, Finite

\* Every step keeps the counts in range.
LEMMA CountsStep ==
  ASSUME BoardInv, SnapshotKey, IsFiniteSet(Users), CountsInRange, [Next]_vars
  PROVE  CountsInRange'
  <1> SUFFICES ASSUME NEW r \in committed'
               PROVE  /\ input'[r].op = "react"
                           => count'[r] \in 1..(Cardinality(Users) + 1)
                      /\ input'[r].op = "unreact"
                           => count'[r] \in 0..(Cardinality(Users) - 1)
    BY DEF CountsInRange
  <1>1. CASE r \in committed
    <2>1. \A q \in Requests : Running(q) => q # r
      BY <1>1 DEF Running, BoardInv, EffectsOnce
    <2>2. ASSUME NEW q \in Requests, Handler(q)
          PROVE  input' = input /\ count'[r] = count[r]
      <3>1. ASSUME NEW n, Commit(q, n), Running(q)
            PROVE  input' = input /\ count'[r] = count[r]
        BY <1>1, <2>1, <3>1 DEF Commit, BoardInv, TypeOK
      <3>2. \/ input' = input /\ count' = count
            \/ Running(q) /\ (\/ Commit(q, 0)
                              \/ Commit(q, Cardinality(snap[q]) + 1)
                              \/ Commit(q, Cardinality(snap[q]) - 1))
        BY <2>2
        DEF Handler, GiveUp, CreateRoom, CreateRoomMessage, ReactionToMessage,
            RemoveReactionFromMessage, SetMessageToAnswered, CheckIDs, CheckPayload,
            CheckRoomExists, CheckMessageExists, SendStatement, Reply, Refuse,
            InsertRoom, InsertMessage, InsertMessageReaction, RemoveMessageReaction,
            AnswerMessage
      <3> QED
        BY <3>1, <3>2
    <2>3. ASSUME NEW q \in Requests, NEW i \in Inputs, Receive(q, i)
          PROVE  q # r /\ input'[r] = input[r] /\ count' = count
      BY <1>1, <2>3 DEF Receive, BoardInv, TypeOK, EffectsOnce
    <2>4. input'[r] = input[r] /\ count'[r] = count[r]
      BY <1>1, <2>1, <2>2, <2>3 DEF Next, Restart, vars, BoardInv, TypeOK
    <2> QED
      BY <1>1, <2>4 DEF CountsInRange
  <1>2. CASE r \notin committed
    <2>1. input'[r].op \in {"react", "unreact"} => input' = input
      <3>1. ASSUME NEW q \in Requests, NEW i \in Inputs, Receive(q, i)
            PROVE  committed' = committed
        BY <3>1 DEF Receive
      <3>2. ASSUME NEW q \in Requests, Handler(q)
            PROVE  input' = input
        BY <3>2
        DEF Handler, GiveUp, CreateRoom, CreateRoomMessage, ReactionToMessage,
            RemoveReactionFromMessage, SetMessageToAnswered, CheckIDs, CheckPayload,
            CheckRoomExists, CheckMessageExists, SendStatement, Reply, Refuse,
            InsertRoom, InsertMessage, InsertMessageReaction, RemoveMessageReaction,
            AnswerMessage, Commit
      <3> QED
        BY <1>2, <3>1, <3>2 DEF Next, Restart, vars
    <2>2. SUFFICES ASSUME input[r].op \in {"react", "unreact"}
                   PROVE  /\ input[r].op = "react"
                               => count'[r] \in 1..(Cardinality(Users) + 1)
                          /\ input[r].op = "unreact"
                               => count'[r] \in 0..(Cardinality(Users) - 1)
      BY <2>1
    <2>3. r \in committed' \ committed
      BY <1>2
    <2>4. r \in Requests /\ Running(r)
      BY <2>2, <2>3, ReactionCommit
    <2>5. /\ Cardinality(snap[r]) \in 0..Cardinality(Users)
          /\ Cardinality(Users) \in Nat
      BY <2>4, SnapshotSmall, FS_CardinalityType
    <2>6. CASE /\ input[r].op = "react"
               /\ Commit(r, Cardinality(snap[r]) + 1)
      BY <2>4, <2>5, <2>6 DEF Commit, BoardInv, TypeOK
    <2>7. CASE /\ input[r].op = "unreact"
               /\ {x \in snap[r] : x.user = input[r].user} \cap reactions # {}
               /\ Commit(r, Cardinality(snap[r]) - 1)
      <3>1. Cardinality(snap[r]) # 0
        BY <2>4, <2>7, FS_EmptySet DEF BoardInv, Finite
      <3> QED
        BY <2>4, <2>5, <2>7, <3>1 DEF Commit, BoardInv, TypeOK
    <2> QED
      BY <2>2, <2>3, <2>6, <2>7, ReactionCommit
  <1> QED
    BY <1>1, <1>2

\* With finitely many users, no count that is returned is impossible: an add is
\* told at least its own reaction, a remove none of its own, and neither more
\* than the users can have made.
THEOREM CountsStayInRange ==
  ASSUME IsFiniteSet(Users)
  PROVE  Spec => []CountsInRange
  <1>1. Init => SnapshotKey /\ CountsInRange
    BY DEF Init, SnapshotKey, CountsInRange
  <1>2. BoardInv /\ SnapshotKey /\ CountsInRange /\ [Next]_vars => CountsInRange'
    BY CountsStep
  <1> QED
    BY <1>1, <1>2, SnapshotKeyStep, BoardCorrect, PTL DEF Spec

-----------------------------------------------------------------------------
\* The reactions of a message are the successful adds without the successful
\* removes, all users together.
Done(op, m) == {r \in Requests : Did(r, op, m)}
TotalIs(m) == Cardinality(Done("react", m)) - Cardinality(Done("unreact", m)) = Total(m)
TotalsAddUp == \A m \in MessageIds : TotalIs(m)

\* What is counted is finite.
LEMMA DoneFinite ==
  ASSUME BoardInv, NEW op, NEW m
  PROVE  /\ IsFiniteSet(Done(op, m)) /\ IsFiniteSet(RowsOf(m))
         /\ Cardinality(Done(op, m)) \in Nat /\ Total(m) \in Nat
  <1>1. Done(op, m) \subseteq committed /\ RowsOf(m) \subseteq reactions
    BY DEF Done, Did, RowsOf
  <1> QED
    BY <1>1, FS_Subset, FS_CardinalityType DEF BoardInv, Finite, Total

\* An insert adds one request and one row to its message.
LEMMA InsertTotals ==
  ASSUME NEW r \in Requests, BoardInv, ReactionToMessage(r), InsertMessageReaction(r),
         reactions' # reactions, NEW m \in MessageIds, TotalIs(m)
  PROVE  TotalIs(m)'
  <1> DEFINE row == [msg |-> input[r].msg, user |-> input[r].user, by |-> r]
  <1>1. /\ reactions' = reactions \cup {row} /\ row \notin reactions
        /\ input' = input /\ committed' = committed \cup {r} /\ r \notin committed
    BY DEF InsertMessageReaction, Refuse, db, Commit, Running, BoardInv, EffectsOnce
  <1>2. Done("unreact", m)' = Done("unreact", m)
    BY <1>1 DEF Done, Did, ReactionToMessage
  <1>3. CASE m = input[r].msg
    <2>1. Done("react", m)' = Done("react", m) \cup {r} /\ r \notin Done("react", m)
      BY <1>1, <1>3 DEF Done, Did, ReactionToMessage
    <2>2. Cardinality(Done("react", m)') = Cardinality(Done("react", m)) + 1
      BY <2>1, DoneFinite, FS_AddElement
    <2>3. RowsOf(m)' = RowsOf(m) \cup {row} /\ row \notin RowsOf(m)
      BY <1>1, <1>3 DEF RowsOf
    <2>4. Cardinality(RowsOf(m)') = Cardinality(RowsOf(m)) + 1
      BY <2>3, DoneFinite, FS_AddElement
    <2> QED
      BY <1>2, <2>2, <2>4, DoneFinite DEF TotalIs, Total
  <1>4. CASE m # input[r].msg
    <2>1. Done("react", m)' = Done("react", m)
      BY <1>1, <1>4 DEF Done, Did
    <2>2. RowsOf(m)' = RowsOf(m)
      BY <1>1, <1>4 DEF RowsOf
    <2> QED
      BY <1>2, <2>1, <2>2 DEF TotalIs, Total
  <1> QED
    BY <1>3, <1>4

\* A remove adds one request and takes one row.
LEMMA RemoveTotals ==
  ASSUME NEW r \in Requests, BoardInv, RemoveReactionFromMessage(r),
         RemoveMessageReaction(r), reactions' # reactions, NEW m \in MessageIds, TotalIs(m)
  PROVE  TotalIs(m)'
  <1> DEFINE mine == {x \in snap[r] : x.user = input[r].user}
  <1>1. /\ mine \cap reactions # {} /\ reactions' = reactions \ mine
        /\ input' = input /\ committed' = committed \cup {r} /\ r \notin committed
    BY DEF RemoveMessageReaction, Refuse, db, Commit, Running, BoardInv, EffectsOnce
  <1>2. Done("react", m)' = Done("react", m)
    BY <1>1 DEF Done, Did, RemoveReactionFromMessage
  <1>3. \A x \in mine : x.msg = input[r].msg /\ x.user = input[r].user
    BY DEF RemoveMessageReaction, Running, BoardInv, ReactionKey
  <1>4. CASE m = input[r].msg
    <2>1. Done("unreact", m)' = Done("unreact", m) \cup {r} /\ r \notin Done("unreact", m)
      BY <1>1, <1>4 DEF Done, Did, RemoveReactionFromMessage
    <2>2. Cardinality(Done("unreact", m)') = Cardinality(Done("unreact", m)) + 1
      BY <2>1, DoneFinite, FS_AddElement
    <2>3. PICK old \in mine \cap reactions : TRUE
      BY <1>1
    <2>4. RowsOf(m)' = RowsOf(m) \ {old} /\ old \in RowsOf(m)
      BY <1>1, <1>3, <1>4, <2>3 DEF RowsOf, BoardInv, ReactionKey
    <2>5. Cardinality(RowsOf(m)') = Cardinality(RowsOf(m)) - 1
      BY <2>4, DoneFinite, FS_RemoveElement
    <2> QED
      BY <1>2, <2>2, <2>5, DoneFinite DEF TotalIs, Total
  <1>5. CASE m # input[r].msg
    <2>1. Done("unreact", m)' = Done("unreact", m)
      BY <1>1, <1>5 DEF Done, Did
    <2>2. RowsOf(m)' = RowsOf(m)
      BY <1>1, <1>3, <1>5 DEF RowsOf
    <2> QED
      BY <1>2, <2>1, <2>2 DEF TotalIs, Total
  <1> QED
    BY <1>4, <1>5

\* Every step keeps the totals.
LEMMA TotalsStep == BoardInv /\ TotalsAddUp /\ [Next]_vars => TotalsAddUp'
  <1> SUFFICES ASSUME BoardInv, TotalsAddUp, [Next]_vars, NEW m \in MessageIds
               PROVE  TotalIs(m)'
    BY DEF TotalsAddUp
  <1>1. TotalIs(m)
    BY DEF TotalsAddUp
  <1>2. CASE reactions' = reactions
    <2>1. /\ Done("react", m)' = Done("react", m)
          /\ Done("unreact", m)' = Done("unreact", m)
      BY <1>2, OthersCountNothing DEF Done
    <2>2. RowsOf(m)' = RowsOf(m)
      BY <1>2 DEF RowsOf
    <2> QED
      BY <1>1, <2>1, <2>2 DEF TotalIs, Total
  <1>3. CASE reactions' # reactions
    BY <1>1, <1>3, TableStep, InsertTotals, RemoveTotals
  <1> QED
    BY <1>2, <1>3

\* Nothing counts for anything at the start.
LEMMA TotalsInit == Init => TotalsAddUp
  <1> SUFFICES ASSUME Init, NEW m \in MessageIds
               PROVE  TotalIs(m)
    BY DEF TotalsAddUp
  <1>1. Done("react", m) = {} /\ Done("unreact", m) = {} /\ RowsOf(m) = {}
    BY DEF Init, Done, Did, RowsOf
  <1> QED
    BY <1>1, FS_EmptySet DEF TotalIs, Total
=============================================================================
