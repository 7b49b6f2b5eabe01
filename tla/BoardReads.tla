------------------------------ MODULE BoardReads ------------------------------
(***************************************************************************)
(* The reading handlers (src/internal/web/handlers.go:145-178, 236-297)    *)
(* beside the writing ones of MessageBoard.  A reader makes up to two       *)
(* queries, each with a snapshot of its own, and answers later; what        *)
(* writers do in between it sees in part, or not at all.  The properties    *)
(* are about what clients can tell: a client, or two clients who talk to    *)
(* each other, know which of their requests were answered before another    *)
(* one was sent.                                                            *)
(***************************************************************************)
EXTENDS MessageBoard

CONSTANTS Readers,  \* one per GET request
          Asks      \* what a reader may ask for

ReadOps == {"get_rooms", "get_room", "get_messages", "get_message"}

ASSUME ReadAssumption ==
    /\ Asks \subseteq [op : ReadOps, key : RoomKeys, msg : MessageIds,
                       flaw : {"none", "ids"}]
    /\ None \notin Asks
    /\ Readers \cap Requests = {}

VARIABLES ask,    \* what each reader asks
          at,     \* how far its handler is
          seen,   \* what its last query returned
          told,   \* the HTTP status sent, 0 for none
          after   \* history: the requests and readers that had been answered
                  \* with success when this one was received

readers == <<ask, at, seen, told, after>>
rvars == <<vars, readers>>

\* What a query returns: ids of rooms, messages, and the reaction count of each
\* listed message.
NoRows == [m \in {} |-> None]
Result(rs, ms, counts) == [rooms |-> rs, messages |-> ms, counts |-> counts]
Nothing == Result({}, NoRows, NoRows)

RTypeOK ==
    /\ ask \in [Readers -> Asks \cup {None}]
    /\ at \in [Readers -> {"new", "ids", "room", "query", "reply", "done", "lost"}]
    /\ told \in [Readers -> {0, 200, 400, 404, 500}]
    /\ after \in [Readers -> SUBSET (Requests \cup Readers)]
    /\ seen = [q \in Readers |-> Result(seen[q].rooms, seen[q].messages, seen[q].counts)]

RInit ==
    /\ Init
    /\ ask = [q \in Readers |-> None]
    /\ at = [q \in Readers |-> "new"]
    /\ seen = [q \in Readers |-> Nothing]
    /\ told = [q \in Readers |-> 0]
    /\ after = [q \in Readers |-> {}]

-----------------------------------------------------------------------------
(* Steps that the handlers share.                                           *)

Answered == {r \in Requests : status[r] \in {200, 201}}
                \cup {q \in Readers : told[q] = 200}

Get(q, i) ==
    /\ at[q] = "new"
    /\ ask' = [ask EXCEPT ![q] = i]
    /\ after' = [after EXCEPT ![q] = Answered]
    /\ at' = [at EXCEPT ![q] = IF i.op = "get_rooms" THEN "query" ELSE "ids"]
    /\ UNCHANGED <<seen, told>>

Proceed(q, next) ==
    /\ at' = [at EXCEPT ![q] = next]
    /\ UNCHANGED <<ask, seen, told, after>>

Error(q, code) ==
    /\ at' = [at EXCEPT ![q] = "done"]
    /\ told' = [told EXCEPT ![q] = code]
    /\ UNCHANGED <<ask, seen, after>>

ParseIDs(q, next) ==
    /\ at[q] = "ids"
    /\ IF ask[q].flaw = "ids" THEN Error(q, 400) ELSE Proceed(q, next)

\* Mutant of FindRoom: pgx.ErrNoRows is not an error.
FindAnyRoom(q) ==
    /\ at[q] = "room"
    /\ Proceed(q, "query") \/ Error(q, 500)

\* CheckRoomExists, as a reader calls it.
FindRoom(q) ==
    /\ at[q] = "room"
    /\ \/ IF Denotes[ask[q].key] \in rooms THEN Proceed(q, "query") ELSE Error(q, 400)
       \/ Error(q, 500)

Select(q, result) ==
    /\ at' = [at EXCEPT ![q] = "reply"]
    /\ seen' = [seen EXCEPT ![q] = result]
    /\ UNCHANGED <<ask, told, after>>

\* sendJSON; the answer may be stale by now.
SendRows(q) ==
    /\ at[q] = "reply"
    /\ at' = [at EXCEPT ![q] = "done"]
    /\ told' = [told EXCEPT ![q] = 200]
    /\ UNCHANGED <<ask, seen, after>>

-----------------------------------------------------------------------------
(* The statements.  Each sees one snapshot, or fails.                       *)

\* ORDER BY created_at is left out: it is no promise about commits.
SelectRooms(q) ==
    /\ at[q] = "query"
    /\ Select(q, Result(rooms, NoRows, NoRows)) \/ Error(q, 500)

\* pgx.ErrNoRows becomes an empty row, and that "not found".
SelectRoomWithUser(q) ==
    LET room == Denotes[ask[q].key]
    IN  /\ at[q] = "query"
        /\ \/ IF room \in rooms THEN Select(q, Result({room}, NoRows, NoRows))
                                ELSE Error(q, 404)
           \/ Error(q, 500)

\* WHERE room_id = $1.
Listed(q) == {m \in DOMAIN messages : messages[m].room = Denotes[ask[q].key]}

\* Mutants of SelectRoomMessages: an inner join; COUNT of every joined row, the
\* one a LEFT JOIN makes up included; only the messages still to be answered.
SelectInnerJoin(q) ==
    LET ms == {m \in Listed(q) : RowsOf(m) # {}}
    IN  /\ at[q] = "query"
        /\ \/ Select(q, Result({}, [m \in ms |-> messages[m]],
                             [m \in ms |-> Cardinality(RowsOf(m))]))
           \/ Error(q, 500)

SelectCountingRows(q) ==
    LET ms == Listed(q)
    IN  /\ at[q] = "query"
        /\ \/ Select(q, Result({}, [m \in ms |-> messages[m]],
                             [m \in ms |-> IF RowsOf(m) = {} THEN 1
                                           ELSE Cardinality(RowsOf(m))]))
           \/ Error(q, 500)

SelectUnanswered(q) ==
    LET ms == {m \in Listed(q) : messages[m].answer = None}
    IN  /\ at[q] = "query"
        /\ \/ Select(q, Result({}, [m \in ms |-> messages[m]],
                             [m \in ms |-> Cardinality(RowsOf(m))]))
           \/ Error(q, 500)

\* LEFT JOIN of the reactions, counted per message.
SelectRoomMessages(q) ==
    LET ms == Listed(q)
    IN  /\ at[q] = "query"
        /\ \/ Select(q, Result({}, [m \in ms |-> messages[m]],
                             [m \in ms |-> Cardinality(RowsOf(m))]))
           \/ Error(q, 500)

\* WHERE id = $1: the room of the URL is not asked for.
SelectMessage(q) ==
    LET m == ask[q].msg
    IN  /\ at[q] = "query"
        /\ \/ IF m \in DOMAIN messages
              THEN Select(q, Result({}, [x \in {m} |-> messages[x]], NoRows))
              ELSE Error(q, 404)
           \/ Error(q, 500)

-----------------------------------------------------------------------------
(* The handlers.                                                            *)

GetRooms(q) ==
    /\ at[q] # "new" /\ ask[q].op = "get_rooms"
    /\ SelectRooms(q) \/ SendRows(q)

GetRoom(q) ==
    /\ at[q] # "new" /\ ask[q].op = "get_room"
    /\ ParseIDs(q, "query") \/ SelectRoomWithUser(q) \/ SendRows(q)

GetRoomMessages(q) ==
    /\ at[q] # "new" /\ ask[q].op = "get_messages"
    /\ ParseIDs(q, "room") \/ FindRoom(q) \/ SelectRoomMessages(q) \/ SendRows(q)

GetRoomMessage(q) ==
    /\ at[q] # "new" /\ ask[q].op = "get_message"
    /\ ParseIDs(q, "room") \/ FindRoom(q) \/ SelectMessage(q) \/ SendRows(q)

Reader(q) == GetRooms(q) \/ GetRoom(q) \/ GetRoomMessages(q) \/ GetRoomMessage(q)

\* The readers end with the process.
RRestart ==
    /\ Restart
    /\ at' = [q \in Readers |-> IF at[q] \in {"new", "done"} THEN at[q] ELSE "lost"]
    /\ UNCHANGED <<ask, seen, told, after>>

Writer(r) == (\E i \in Inputs : Receive(r, i)) \/ Handler(r)

RNext ==
    \/ \E r \in Requests : Writer(r) /\ UNCHANGED readers
    \/ \E q \in Readers, i \in Asks : Get(q, i) /\ UNCHANGED vars
    \/ \E q \in Readers : Reader(q) /\ UNCHANGED vars
    \/ RRestart

RSpec == RInit /\ [][RNext]_rvars

-----------------------------------------------------------------------------
(* What clients can tell.                                                   *)

\* The rows are on their way to the client, or have arrived.
HasRows(q) == at[q] = "reply" \/ told[q] = 200

\* The answer says that what was asked for does not exist.
Missing(q) == told[q] = 404 \/ (told[q] = 400 /\ ask[q].flaw = "none")

\* What q was told agrees with r having taken effect before q was asked: the
\* room is listed and found, the message is listed in its room and found, the
\* answered message is listed too, with this answer.
Shows(q, r) ==
    /\ input[r].op = "create_room" =>
           /\ ask[q].op = "get_rooms" /\ HasRows(q) => r \in seen[q].rooms
           /\ ask[q].op # "get_message" /\ Missing(q) => Denotes[ask[q].key] # r
    /\ input[r].op = "create_message" =>
           /\ ask[q].op = "get_messages" /\ HasRows(q)
                /\ Denotes[ask[q].key] = Denotes[input[r].key]
                  => r \in DOMAIN seen[q].messages
           /\ ask[q].op = "get_message" /\ told[q] = 404 => ask[q].msg # r
    /\ input[r].op = "answer" =>
           /\ ask[q].op = "get_messages" /\ HasRows(q) /\ input[r].msg \in DOMAIN messages
                /\ Denotes[ask[q].key] = messages[input[r].msg].room
                  => input[r].msg \in DOMAIN seen[q].messages
           /\ input[r].msg \in DOMAIN seen[q].messages =>
                  seen[q].messages[input[r].msg].answer = r

\* A write that was answered with success shows in everything that is asked
\* for afterwards, whatever ran in between.
ReadYourWrites ==
    \A q \in Readers : \A r \in after[q] \cap Requests : Shows(q, r)

\* What q was told is no older than what p was told.
NoOlder(q, p) ==
    /\ HasRows(q) /\ ask[q].op = "get_rooms" /\ ask[p].op = "get_rooms"
         => seen[p].rooms \subseteq seen[q].rooms
    /\ HasRows(q) /\ ask[q].op = "get_messages" /\ ask[p].op = "get_messages"
         /\ Denotes[ask[q].key] = Denotes[ask[p].key]
           => DOMAIN seen[p].messages \subseteq DOMAIN seen[q].messages
    /\ \A m \in DOMAIN seen[p].messages \cap DOMAIN seen[q].messages :
           seen[p].messages[m].answer # None
             => seen[p].messages[m] = seen[q].messages[m]
    /\ Missing(q) /\ ask[q].op # "get_message"
         => Denotes[ask[q].key] \notin seen[p].rooms
    /\ ask[q].op = "get_message" /\ told[q] = 404
         => ask[q].msg \notin DOMAIN seen[p].messages

\* Reading again never goes back: rooms and messages stay, an answer that has
\* been seen stays as it is, and what has been seen is never "not found".
MonotonicReads == \A q \in Readers : \A p \in after[q] \cap Readers : NoOlder(q, p)

\* A listed count is not older than the request and not newer than now: it has
\* every reaction acknowledged before and no removal that has not happened,
\* and the other way round.
ListedCounts ==
    \A q \in Readers : \A m \in DOMAIN seen[q].counts :
        LET done(op) == {r \in committed : Did(r, op, m)}
            acked(op) == after[q] \cap done(op)
            n == seen[q].counts[m]
        IN  /\ Cardinality(acked("react")) - Cardinality(done("unreact")) <= n
            /\ n <= Cardinality(done("react")) - Cardinality(acked("unreact"))

-----------------------------------------------------------------------------
(* What an invariant has to say besides, to be inductive.                   *)

\* What a committed request has left in the tables is still there.
EffectsStay ==
    \A r \in committed :
        /\ input[r].op = "create_room" => r \in rooms
        /\ input[r].op = "create_message" =>
               r \in DOMAIN messages /\ messages[r].room = Denotes[input[r].key]

\* What has been read is still true, but for answers that came later.
StillTrue ==
    \A q \in Readers :
        /\ seen[q].rooms \subseteq rooms
        /\ \A m \in DOMAIN seen[q].messages :
               /\ m \in DOMAIN messages
               /\ seen[q].messages[m].room = messages[m].room
               /\ seen[q].messages[m].answer # None => seen[q].messages[m] = messages[m]
        /\ ask[q] # None /\ ask[q].op = "get_messages" =>
               \A m \in DOMAIN seen[q].messages :
                   messages[m].room = Denotes[ask[q].key]

\* Readers go one way, and only what was answered is in anyone's past.
ReadersInOrder ==
    \A q \in Readers :
        /\ at[q] = "new" <=> ask[q] = None
        /\ at[q] \in {"new", "ids", "room", "query"} => seen[q] = Nothing
        /\ told[q] # 0 => at[q] = "done"
        /\ Missing(q) => seen[q] = Nothing
        /\ after[q] \cap Requests \subseteq committed
        /\ \A p \in after[q] \cap Readers : told[p] = 200

\* The inductive invariant.
ReadInv ==
    /\ RTypeOK
    /\ EffectsStay
    /\ StillTrue
    /\ ReadersInOrder
    /\ ReadYourWrites
    /\ MonotonicReads

-----------------------------------------------------------------------------
(* A reader's queries together are one look at the board, taken when its    *)
(* last query is: what it checked before still holds then.                  *)
LookedAt(q) ==
    [status |-> IF HasRows(q) THEN "found"
                ELSE IF Missing(q) THEN "missing"
                ELSE IF at[q] \in {"done", "lost"} THEN "none" ELSE "pending",
     rows |-> IF HasRows(q) THEN seen[q] ELSE Nothing]

Looks == INSTANCE AtomicReads
             WITH Topics <- RoomKeys \cup {RoomsList},
                  reacted <- {<<x.msg, x.user>> : x \in reactions},
                  done <- committed, announced <- notices,
                  asked <- ask, answer <- [q \in Readers |-> LookedAt(q)]

ImplementsAtomicReads == Looks!ReadsSpec
=============================================================================
