---------------------------- MODULE MessageBoard ----------------------------
(***************************************************************************)
(* The room and message handlers (src/internal/web/handlers.go), the       *)
(* services they call and the SQL statements behind those.  Every request  *)
(* runs in a goroutine of its own; requests meet only in the database.     *)
(* Between the checks of a handler and its one writing statement anything  *)
(* may happen, and so it may between the instant a statement takes its     *)
(* snapshot (READ COMMITTED) and the instant it writes.  A statement may   *)
(* commit without the handler learning of it, and the process may die.     *)
(*                                                                         *)
(* The room created by request r is named r, and so is the message created *)
(* by r and the text of the answer given by r.                             *)
(***************************************************************************)
EXTENDS Naturals, Integers, FiniteSets

CONSTANTS Requests,      \* one per HTTP request
          Users,
          SeedRooms,     \* rooms in the database when the process starts
          SeedMessages,
          SeedRoomOf,    \* the room of each seeded message
          RoomKeys,      \* the spellings of room ids that requests use
          Denotes,       \* the room id each spelling parses to
          RoomsList,     \* the topic of NotifyRoomsListClients
          Inputs,        \* what a request may ask for
          None

RoomIds == SeedRooms \cup Requests
MessageIds == SeedMessages \cup Requests
Ops == {"create_room", "create_message", "react", "unreact", "answer"}

\* The first thing wrong with a request: an id in the URL, the body, or the
\* user_id in the body, which must be the session's user.
Flaws == {"none", "ids", "body", "user"}

ASSUME BoardAssumption ==
    /\ SeedRoomOf \in [SeedMessages -> SeedRooms]
    /\ Denotes \in [RoomKeys -> RoomIds]
    /\ RoomsList \notin RoomKeys
    /\ Inputs \subseteq [op : Ops, key : RoomKeys, msg : MessageIds, user : Users,
                         flaw : Flaws]
    \* A message's body has no user_id.
    /\ \A i \in Inputs : i.op = "create_message" => i.flaw # "user"
    /\ None \notin Requests /\ None \notin Inputs
    /\ SeedRooms \cap Requests = {} /\ SeedMessages \cap Requests = {}

VARIABLES rooms,      \* table rooms: the ids
          messages,   \* table messages: id -> room and answer (None: unanswered)
          reactions,  \* table messages_reactions, each row with its inserting request
          input,      \* what each request asks
          pc,         \* how far its handler is
          snap,       \* the rows of its message that its statement sees
          count,      \* the count its statement returned
          status,     \* the HTTP status sent, 0 for none
          committed,  \* requests whose statement has taken effect
          notices     \* notifications handed to `go ...Notify...`

db == <<rooms, messages, reactions>>
vars == <<db, input, pc, snap, count, status, committed, notices>>

\* Where a handler is: about to make a check, about to send its statement,
\* waiting for it, about to reply; finished; or gone, because the process ended
\* or it gave up, with a statement still in the database ("orphan") or without.
Places == {"new", "ids", "payload", "room", "message", "write", "sent",
           "reply", "done", "orphan", "lost"}

ReactionRows == [msg : MessageIds, user : Users, by : Requests]

TypeOK ==
    /\ rooms \subseteq RoomIds
    /\ DOMAIN messages \subseteq MessageIds
    /\ messages \in [DOMAIN messages -> [room : RoomIds, answer : Requests \cup {None}]]
    /\ reactions \subseteq ReactionRows
    /\ input \in [Requests -> Inputs \cup {None}]
    /\ pc \in [Requests -> Places]
    /\ snap \in [Requests -> SUBSET ReactionRows]
    /\ count \in [Requests -> Int]
    /\ status \in [Requests -> {0, 200, 201, 400, 403, 500}]
    /\ committed \subseteq Requests
    /\ notices \subseteq [topic : RoomKeys \cup Requests \cup {RoomsList}, by : Requests]

Init ==
    /\ rooms = SeedRooms
    /\ messages = [m \in SeedMessages |-> [room |-> SeedRoomOf[m], answer |-> None]]
    /\ reactions = {}
    /\ input = [r \in Requests |-> None]
    /\ pc = [r \in Requests |-> "new"]
    /\ snap = [r \in Requests |-> {}]
    /\ count = [r \in Requests |-> 0]
    /\ status = [r \in Requests |-> 0]
    /\ committed = {}
    /\ notices = {}

RowsOf(m) == {x \in reactions : x.msg = m}

-----------------------------------------------------------------------------
(* Steps that handlers share.                                               *)

Receive(r, i) ==
    /\ pc[r] = "new"
    /\ input' = [input EXCEPT ![r] = i]
    /\ pc' = [pc EXCEPT ![r] = IF i.op = "create_room" THEN "payload" ELSE "ids"]
    /\ UNCHANGED <<db, snap, count, status, committed, notices>>

Go(r, next) ==
    /\ pc' = [pc EXCEPT ![r] = next]
    /\ UNCHANGED status

\* http.Error and return.
Fail(r, code) ==
    /\ pc' = [pc EXCEPT ![r] = "done"]
    /\ status' = [status EXCEPT ![r] = code]

\* uuid.Parse of the ids in the URL.
CheckIDs(r, next) ==
    /\ pc[r] = "ids"
    /\ IF input[r].flaw = "ids" THEN Fail(r, 400) ELSE Go(r, next)
    /\ UNCHANGED <<db, input, snap, count, committed, notices>>

\* Decode and validate the body, compare its user_id with the session's.
CheckPayload(r, next) ==
    /\ pc[r] = "payload"
    /\ CASE input[r].flaw = "body" -> Fail(r, 400)
         [] input[r].flaw = "user" -> Fail(r, 403)
         [] OTHER -> Go(r, next)
    /\ UNCHANGED <<db, input, snap, count, committed, notices>>

\* A query; it may fail for reasons of its own.
CheckRoomExists(r, next) ==
    /\ pc[r] = "room"
    /\ \/ IF Denotes[input[r].key] \in rooms THEN Go(r, next) ELSE Fail(r, 400)
       \/ Fail(r, 500)
    /\ UNCHANGED <<db, input, snap, count, committed, notices>>

\* Mutant of CheckMessageExists: pgx.ErrNoRows is not an error.
CheckMessageQueried(r, next) ==
    /\ pc[r] = "message"
    /\ Go(r, next) \/ Fail(r, 500)
    /\ UNCHANGED <<db, input, snap, count, committed, notices>>

CheckMessageExists(r, next) ==
    /\ pc[r] = "message"
    /\ \/ IF input[r].msg \in DOMAIN messages THEN Go(r, next) ELSE Fail(r, 400)
       \/ Fail(r, 500)
    /\ UNCHANGED <<db, input, snap, count, committed, notices>>

\* The writing statement reaches the database and takes its snapshot, or the
\* query fails first.
SendStatement(r) ==
    /\ pc[r] = "write"
    /\ \/ Go(r, "sent") /\ snap' = [snap EXCEPT ![r] = RowsOf(input[r].msg)]
       \/ Fail(r, 500) /\ UNCHANGED snap
    /\ UNCHANGED <<db, input, count, committed, notices>>

Running(r) == pc[r] \in {"sent", "orphan"}

\* The handler gets an error while its statement is running: the connection is
\* lost, or the client is and with it the request's context.  It answers 500,
\* and the statement may commit later, beside a retry.
GiveUp(r) ==
    /\ pc[r] = "sent"
    /\ pc' = [pc EXCEPT ![r] = "orphan"]
    /\ status' = [status EXCEPT ![r] = 500]
    /\ UNCHANGED <<db, input, snap, count, committed, notices>>

\* The statement commits, and the handler learns its result if it is there.
\* (An error that comes after the commit differs from GiveUp for nobody else.)
Commit(r, n) ==
    /\ committed' = committed \cup {r}
    /\ count' = [count EXCEPT ![r] = n]
    /\ IF pc[r] = "orphan" THEN Go(r, "lost") ELSE Go(r, "reply")
    /\ UNCHANGED <<input, snap, notices>>

\* Mutant of Refuse: the error of the statement is not looked at.
RefuseIgnored(r) ==
    /\ IF pc[r] = "orphan" THEN Go(r, "lost") ELSE Go(r, "reply")
    /\ UNCHANGED <<db, input, snap, count, committed, notices>>

\* No row, or a violated key: nothing is written.
Refuse(r) ==
    /\ IF pc[r] = "orphan" THEN Go(r, "lost") ELSE Fail(r, 500)
    /\ UNCHANGED <<db, input, snap, count, committed, notices>>

\* sendJSON, then `go Notify...` to the given topic.
Reply(r, code, topic) ==
    /\ pc[r] = "reply"
    /\ Fail(r, code)
    /\ notices' = notices \cup {[topic |-> topic, by |-> r]}
    /\ UNCHANGED <<db, input, snap, count, committed>>

-----------------------------------------------------------------------------
(* The writing statements (src/internal/store/pgstore/queries/queries.sql). *)

InsertRoom(r) ==
    /\ Running(r)
    /\ rooms' = rooms \cup {r}
    /\ Commit(r, 0)
    /\ UNCHANGED <<messages, reactions>>

\* Mutant of InsertMessage: the raw id of the URL is stored.
InsertMessageRaw(r) ==
    /\ Running(r)
    /\ messages' = [m \in DOMAIN messages \cup {r} |->
                      IF m = r THEN [room |-> input[r].key, answer |-> None]
                      ELSE messages[m]]
    /\ Commit(r, 0)
    /\ UNCHANGED <<rooms, reactions>>

InsertMessage(r) ==
    /\ Running(r)
    /\ messages' = [m \in DOMAIN messages \cup {r} |->
                      IF m = r THEN [room |-> Denotes[input[r].key], answer |-> None]
                      ELSE messages[m]]
    /\ Commit(r, 0)
    /\ UNCHANGED <<rooms, reactions>>

\* Mutants of InsertMessageReaction: a table without its primary key; and a
\* statement that returns the snapshot's count as it is.
InsertWithoutKey(r) ==
    LET row == [msg |-> input[r].msg, user |-> input[r].user, by |-> r]
    IN  /\ Running(r)
        /\ reactions' = reactions \cup {row}
        /\ Commit(r, Cardinality(snap[r]) + 1)
        /\ UNCHANGED <<rooms, messages>>

InsertCountingOthers(r) ==
    LET row == [msg |-> input[r].msg, user |-> input[r].user, by |-> r]
    IN  /\ Running(r)
        /\ IF \E x \in reactions : x.msg = row.msg /\ x.user = row.user
           THEN Refuse(r)
           ELSE /\ reactions' = reactions \cup {row}
                /\ Commit(r, Cardinality(snap[r]))
                /\ UNCHANGED <<rooms, messages>>

\* The primary key is checked against what is committed now; the count is
\* taken from the statement's snapshot.
InsertMessageReaction(r) ==
    LET row == [msg |-> input[r].msg, user |-> input[r].user, by |-> r]
    IN  /\ Running(r)
        /\ IF \E x \in reactions : x.msg = row.msg /\ x.user = row.user
           THEN Refuse(r)
           ELSE /\ reactions' = reactions \cup {row}
                /\ Commit(r, Cardinality(snap[r]) + 1)
                /\ UNCHANGED <<rooms, messages>>

\* Mutant of RemoveMessageReaction: without FROM deleted, a row is returned
\* whether or not one was deleted.
RemoveAlwaysReturns(r) ==
    /\ Running(r)
    /\ reactions' = reactions \ {x \in snap[r] : x.user = input[r].user}
    /\ Commit(r, Cardinality(snap[r]) - 1)
    /\ UNCHANGED <<rooms, messages>>

\* Only a row version that the snapshot sees, and that is still there, goes.
RemoveMessageReaction(r) ==
    LET mine == {x \in snap[r] : x.user = input[r].user}
    IN  /\ Running(r)
        /\ IF mine \cap reactions = {}
           THEN Refuse(r)
           ELSE /\ reactions' = reactions \ mine
                /\ Commit(r, Cardinality(snap[r]) - 1)
                /\ UNCHANGED <<rooms, messages>>

\* Mutant of AnswerMessage: WHERE id = $2 only.
AnswerAnyway(r) ==
    /\ Running(r)
    /\ messages' = [messages EXCEPT ![input[r].msg].answer = r]
    /\ Commit(r, 0)
    /\ UNCHANGED <<rooms, reactions>>

\* WHERE id = $2 AND answered = false, tested again once the row is locked.
AnswerMessage(r) ==
    LET m == input[r].msg
    IN  /\ Running(r)
        /\ IF messages[m].answer # None
           THEN Refuse(r)
           ELSE /\ messages' = [messages EXCEPT ![m].answer = r]
                /\ Commit(r, 0)
                /\ UNCHANGED <<rooms, reactions>>

-----------------------------------------------------------------------------
(* The handlers: their checks in the order the code makes them, their       *)
(* statement and their reply.                                               *)

CreateRoom(r) ==
    /\ pc[r] # "new" /\ input[r].op = "create_room"
    /\ \/ CheckPayload(r, "write")
       \/ SendStatement(r)
       \/ InsertRoom(r)
       \/ Reply(r, 201, RoomsList)

CreateRoomMessage(r) ==
    /\ pc[r] # "new" /\ input[r].op = "create_message"
    /\ \/ CheckIDs(r, "payload")
       \/ CheckPayload(r, "room")
       \/ CheckRoomExists(r, "write")
       \/ SendStatement(r)
       \/ InsertMessage(r)
       \/ Reply(r, 201, input[r].key)

ReactionToMessage(r) ==
    /\ pc[r] # "new" /\ input[r].op = "react"
    /\ \/ CheckIDs(r, "room")
       \/ CheckRoomExists(r, "message")
       \/ CheckMessageExists(r, "payload")
       \/ CheckPayload(r, "write")
       \/ SendStatement(r)
       \/ InsertMessageReaction(r)
       \/ Reply(r, 200, input[r].key)

RemoveReactionFromMessage(r) ==
    /\ pc[r] # "new" /\ input[r].op = "unreact"
    /\ \/ CheckIDs(r, "room")
       \/ CheckRoomExists(r, "message")
       \/ CheckMessageExists(r, "payload")
       \/ CheckPayload(r, "write")
       \/ SendStatement(r)
       \/ RemoveMessageReaction(r)
       \/ Reply(r, 200, input[r].key)

SetMessageToAnswered(r) ==
    /\ pc[r] # "new" /\ input[r].op = "answer"
    /\ \/ CheckIDs(r, "payload")
       \/ CheckPayload(r, "room")
       \/ CheckRoomExists(r, "message")
       \/ CheckMessageExists(r, "write")
       \/ SendStatement(r)
       \/ AnswerMessage(r)
       \/ Reply(r, 200, input[r].key)

Handler(r) ==
    \/ CreateRoom(r) \/ CreateRoomMessage(r) \/ ReactionToMessage(r)
    \/ RemoveReactionFromMessage(r) \/ SetMessageToAnswered(r)
    \/ GiveUp(r)

\* The process ends and is started again: the tables stay, and a statement
\* that had been sent may still run to its end.  That is a crash; at an
\* interrupt main's pool.Close() waits for the statements (AmaServer), and
\* only the handlers are cut off.
Restart ==
    /\ pc' = [r \in Requests |->
                CASE pc[r] = "sent" -> "orphan"
                  [] pc[r] \in {"new", "done", "orphan", "lost"} -> pc[r]
                  [] OTHER -> "lost"]
    /\ UNCHANGED <<db, input, snap, count, status, committed, notices>>

Next ==
    \/ \E r \in Requests, i \in Inputs : Receive(r, i)
    \/ \E r \in Requests : Handler(r)
    \/ Restart

Spec == Init /\ [][Next]_vars

-----------------------------------------------------------------------------
(* Safety.                                                                  *)

Did(r, op, m) == r \in committed /\ input[r].op = op /\ input[r].msg = m

\* However many answers race, a message keeps the first one that commits:
\* at most one request is ever told, or tells the room, that it has answered,
\* and the answer it announces is the one that is stored.
OneAnswerWins ==
    \A m \in DOMAIN messages, r \in Requests :
        Did(r, "answer", m) <=> r = messages[m].answer

\* Once answered a message never changes again.
AnswerIsFinal ==
    [][\A m \in DOMAIN messages :
          messages[m].answer # None => /\ m \in DOMAIN messages'
                                       /\ messages'[m] = messages[m]]_vars

\* The reactions table is what the successful requests add up to: per user
\* and message, committed adds minus committed removes is one if the row is
\* there and zero otherwise, in whatever order they overlapped.
ReactionsAddUp ==
    \A m \in MessageIds, u \in Users :
        LET by(op) == {r \in Requests : Did(r, op, m) /\ input[r].user = u}
        IN  Cardinality(by("react")) - Cardinality(by("unreact"))
                = Cardinality({x \in reactions : x.msg = m /\ x.user = u})

\* What a client is told: success only for a change that has been made and is
\* announced; a client error (4xx) only when nothing was; nothing is announced
\* that did not happen.  A 500 says neither.
StatusTellsTheTruth ==
    \A r \in Requests :
        /\ status[r] \in {200, 201} => r \in committed /\ \E x \in notices : x.by = r
        /\ status[r] \in {400, 403} => r \notin committed
        /\ (\E x \in notices : x.by = r) => r \in committed

\* Rooms and messages are checked before the statement that refers to them,
\* in a separate query; when the statement runs they are there, so that no
\* foreign key ever fires.
StatementsFindTheirRows ==
    \A r \in Requests :
        pc[r] \in {"write", "sent", "orphan"} =>
            /\ input[r].op # "create_room" => Denotes[input[r].key] \in rooms
            /\ input[r].op \in {"react", "unreact", "answer"} =>
                   input[r].msg \in DOMAIN messages

\* A count that is returned and announced is never below what the request
\* itself has left behind, whatever its snapshot missed.
CountsInRange ==
    \A r \in committed :
        /\ input[r].op = "react" => count[r] \in 1..(Cardinality(Users) + 1)
        /\ input[r].op = "unreact" => count[r] \in 0..(Cardinality(Users) - 1)

Total(m) == Cardinality(RowsOf(m))

\* A reaction whose message nobody else touched while its statement ran gets
\* the exact count.
CountExactWhenAlone ==
    [][\A r \in committed' \ committed :
          input[r].op \in {"react", "unreact"} /\ snap[r] = RowsOf(input[r].msg)
              => count'[r] = Total(input[r].msg)']_vars

\* The statement calls the number it returns total_reactions, and so does
\* everything built on it: the number of reactions once the request is done.
CountIsTotal ==
    [][\A r \in committed' \ committed :
          input[r].op \in {"react", "unreact"}
              => count'[r] = Total(input[r].msg)']_vars

\* A reaction or an answer is announced to the subscribers of the message's
\* room, the ones who see the message.
NoticeReachesTheRoom ==
    \A x \in notices :
        input[x.by].op \in {"react", "unreact", "answer"} =>
            Denotes[x.topic] = messages[input[x.by].msg].room

-----------------------------------------------------------------------------
(* What an invariant has to say besides, to be inductive.                   *)

\* A handler past a check found the row it asked for, and rows never go.
ChecksHold ==
    \A r \in Requests :
        /\ pc[r] = "new" <=> input[r] = None
        /\ pc[r] \in {"message", "write", "sent", "orphan"}
             /\ input[r].op # "create_room" => Denotes[input[r].key] \in rooms
        /\ pc[r] = "payload" /\ input[r].op \in {"react", "unreact"}
             => Denotes[input[r].key] \in rooms /\ input[r].msg \in DOMAIN messages
        /\ pc[r] \in {"write", "sent", "orphan"}
             /\ input[r].op \in {"react", "unreact", "answer"}
               => input[r].msg \in DOMAIN messages

\* A statement takes effect once, before its reply; names are taken once.
EffectsOnce ==
    /\ \A r \in committed : pc[r] \in {"reply", "done", "lost"}
    /\ \A r \in Requests : pc[r] = "reply" => r \in committed
    /\ \A r \in Requests : status[r] # 0 =>
           pc[r] = "done" \/ (pc[r] \in {"orphan", "lost"} /\ status[r] = 500)
    /\ \A x \in notices : pc[x.by] = "done"
    /\ rooms \subseteq SeedRooms \cup committed
    /\ DOMAIN messages \subseteq SeedMessages \cup committed
    /\ \A r \in committed : input[r].op = "answer" => input[r].msg \in DOMAIN messages

\* The primary key of messages_reactions, and where its rows come from.
ReactionKey ==
    /\ \A x, y \in reactions : x.msg = y.msg /\ x.user = y.user => x = y
    /\ \A x \in reactions : x.by \in committed
    /\ \A r \in Requests : pc[r] \in {"sent", "orphan"}
                             => \A x \in snap[r] : x.msg = input[r].msg

Finite ==
    /\ IsFiniteSet(reactions) /\ IsFiniteSet(committed)
    /\ \A r \in Requests : IsFiniteSet(snap[r])

\* The inductive invariant.
BoardInv ==
    /\ TypeOK
    /\ ChecksHold
    /\ EffectsOnce
    /\ ReactionKey
    /\ Finite
    /\ OneAnswerWins
    /\ StatusTellsTheTruth
    /\ StatementsFindTheirRows

-----------------------------------------------------------------------------
\* Seen from the data, every handler is one atomic step of AtomicBoard, taken
\* when its statement commits, and its notification another.
Atomic == INSTANCE AtomicBoard
              WITH Topics <- RoomKeys \cup {RoomsList},
                   reacted <- {<<x.msg, x.user>> : x \in reactions},
                   done <- committed,
                   announced <- notices

ImplementsAtomicBoard == Atomic!Spec
=============================================================================
