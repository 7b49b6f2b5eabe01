# Verification of the Ask Me Anything server

The server (`src/`) lets people open rooms, post messages in them, react to
messages and answer them, and pushes every change to the clients that are
connected over web sockets. This directory holds TLA+ models of it, the TLC
runs that check them on small instances and TLAPS proofs for any instance.

## The system

| Part | Source | State | Operations |
|------|--------|-------|------------|
| web-socket service | `internal/service/websocket.go` | `RoomSubscribers` (raw room id to connections), `RoomsListSubscribers`, one mutex | subscribe and unsubscribe (one goroutine per connection), `NotifyRoomClient`, `NotifyRoomsListClients` (one goroutine per notification) |
| handlers | `internal/web/handlers.go` | none of their own; one goroutine per request | create room or message, react, remove a reaction, answer, reads, profile, subscribe |
| services and store | `internal/service`, `internal/store/pgstore` | PostgreSQL tables rooms, messages, messages_reactions, users | one SQL statement per operation, each its own transaction |
| sessions | `internal/auth/auth.go` | session cookie (30 days), cache entry per user (24 hours) | login callback, middleware, logout |
| main | `cmd/ama/main.go` | how far the process has come | connect the database and the cache, serve, stop at an interrupt |
| router | `internal/router` | none | which handler serves which path |

Handlers call the services and through them the database. After a successful
write a handler answers the client and then starts a goroutine that hands a
message to the web-socket service; nothing waits for that goroutine. Handlers
and goroutines meet only in the database, in the session cache and at the mutex
of the web-socket service.

### What is hard

* One mutex covers every topic and is held across network writes. Clients
  stall or vanish in the middle of a loop; nobody reads from a connection, so a
  departure shows only when a write fails.
* Everything a handler checked may have changed when its statement runs;
  statements of different requests overlap, each with its own snapshot.
* A statement can commit although the handler is told it failed, or is no
  longer there because the process stopped.
* A reading handler makes two queries and answers later; writers run in between.
* Notifications are separate goroutines, ordered by nothing but the mutex. One
  may overtake the reply of the request it is about, or another of the same
  message, and none outlives the process.
* At an interrupt main returns, and its deferred `pool.Close()` waits for the
  statements that are running while the listener still accepts requests.
* Subscribers and notifications are matched by the raw id of the URL.
* The session cache is written after the users row, by several handlers, and
  shared by all devices of a user.

`PROJECT.json` lists each of these hazards at its line.

### What makes each part correct

* Web-socket service: the maps and the goroutines agree; at most one writer;
  nothing is written to a removed connection; a live subscriber misses nothing,
  gets nothing twice and sees its topic's order; dead subscribers go away; all
  of it together: an atomic broadcast.
* Messages: the first answer to commit is final and is the one announced; the
  reactions table is the sum of the successful requests; a success is never
  reported for a change that was not made; each request is atomic.
* Reads: what was answered with success shows in every read that is asked for
  later, and reading again never goes back.
* The whole: an announcement never runs ahead of the data; a client that
  subscribes and then lists misses nothing announced under its key, restarts
  included; every change reaches who stays subscribed; an interrupt ends the
  process.
* Sessions: a session belongs to who was vouched for, and holds the users row
  unless requests of the user overlap. A logout ends the browser's cookie and the
  shared cache entry, and 24 hours end the entry; it comes back by a login, or by a
  profile update that was past its check when the entry went, and never because
  some browser still has the cookie.

## The modules

| Module | What it models | Proofs |
|--------|----------------|--------|
| `WebSocketHub` | the web-socket service and the two subscribe handlers | `WebSocketHubProofs` |
| `RoomBroadcast` | abstract: topics as streams, atomic publication | |
| `HubDelivery` | `WebSocketHub` with the notes it carries; implements `RoomBroadcast` | `HubDeliveryProofs` |
| `AtomicBoard` | abstract: each request one atomic step, announced afterwards | |
| `MessageBoard` | the writing handlers, services and statements; implements `AtomicBoard` | `MessageBoardProofs` |
| `AtomicReads` | abstract: `AtomicBoard` with readers, each of whom gets one look at one instant | |
| `BoardReads` | the reading handlers and their queries beside the writers of `MessageBoard`; implements `AtomicReads` | `BoardReadsProofs` |
| `AmaServer` | the whole: `BoardReads`, the subscribe handlers, notifications on their way, main; the service taken as `RoomBroadcast` | `AmaServerProofs` |
| `AtomicAccounts` | abstract: accounts opened, edited and used by their owners only | |
| `AuthSession` | logins, sessions in cookie and cache, profiles; implements `AtomicAccounts` | `AuthSessionProofs` |
| `MC_...` | the instances TLC checks | |

`AmaServer` extends `BoardReads`, which extends `MessageBoard`; `HubDelivery`
extends `WebSocketHub`. The two sides meet in `RoomBroadcast`: `HubDelivery`
implements it and `AmaServer` uses it, so the loops of writes need not be
interleaved with the handlers again. `AuthSession` shares no state with them: a
handler of the board reads nothing of the session but who asks, and that is
part of a request.

### WebSocketHub

`subscribers` is both maps of the service: a key that was never created is an
empty set, since the code treats the two alike (the early return of
`NotifyRoomClient`, action `NotifyNobody`). `at[c]` says where the goroutine of
connection `c` is, `cancelled[c]` that its context is done, `pc[n]`, `job[n]`
and `todo[n]` describe a notification goroutine and its loop, `locked` is the
mutex, `peer[c]` the client's end. The critical sections of a subscriber
(`Register`, `Unregister`) cannot block and are one step each, taken when the
mutex is free; a notifier takes the mutex in one step (`StartLoop`), writes to
one connection per step and unlocks in another.

`WriteOk` may succeed for a client that is already gone (the bytes fit in the
socket's buffer); `WriteErr` needs the client gone, or a failure before, whose error
the connection keeps; a stalled client blocks the write. After `Upgrade` the request context is not cancelled by the client's
departure (the connection is hijacked and never read), so `WriteErr` is the only
thing that sets `cancelled`.

Only the write lock of the `RWMutex` is used in the code, so it is one boolean.

### HubDelivery and RoomBroadcast

`HubDelivery` extends `WebSocketHub`: every notification carries a note from a
finite set, used once. `log[t]` is the order in which the rounds of topic `t`
ended, `sent[c]` what was written to `c`, `joined[c]` where in the log it
joined. Mapped to `RoomBroadcast`, a note is published when its round ends: the
note a round has written to `c` before that is left out of `got[c]`.

### MessageBoard and AtomicBoard

A request goes through the checks of its handler in the code's order (`pc[r]`);
`CreateRoom`, `CreateRoomMessage`, `ReactionToMessage`,
`RemoveReactionFromMessage` and `SetMessageToAnswered` list them. The pure checks
(parsing the ids, decoding and validating the body, comparing the user) are
reduced to the first `flaw` a request has. Each query is a step and may fail.
The writing statement is two steps: `SendStatement` takes its READ COMMITTED
snapshot, and the statement's own action applies it to what is committed by
then. While it runs, its handler may get an error, because the connection to the
database is lost or the client's is and with it the request's context: `GiveUp`
answers 500 and leaves the statement behind (`orphan`), as `Restart` leaves it
without an answer. Such a statement may still commit, at any later time and beside a
retry of the same change. `Commit` of any other is acknowledged, and `Reply` sends
the status and hands the notification over.

The statement of `InsertMessageReaction` counts in its snapshot and checks the
primary key against what is committed; that of `RemoveMessageReaction` deletes the
row version its snapshot saw, if it is still there; `AnswerMessage` tests
`answered = false` again once it has the row.

`Restart` is the end of the process, with whatever it was doing, and a new start
on the same database: handlers are gone, statements that were sent may still
take effect. `AmaServer` tells an interrupt from a crash. Rooms and messages named
by a request (`RoomIds`, `MessageIds`) are the fresh uuids of the database.

### BoardReads

A reader is one GET request: `ask[q]` what it wants, `at[q]` how far its handler is,
`seen[q]` the rows its last query returned, `told[q]` its status. `GetRooms`, `GetRoom`,
`GetRoomMessages` and `GetRoomMessage` make their checks and queries one step
each; every query reads what is committed when it runs, or fails. The rows are
sent in a step of their own, and may be stale by then. `SelectMessage` looks a
message up by its own id only, as the code does: the room of the URL must exist
but need not be the message's. The result of a query is the set of its rows;
their order (`ORDER BY created_at`) and the columns copied from users are left out.
The history `after[q]` holds the requests and readers that had been answered with
success when `q` was received: that is all a client, or clients that talk to each
other, can know about the order of requests.

`AtomicReads` says what a reader gets: what there is to see (`Sight`) for its question
at one instant between question and answer, all of it at once, or no answer. Mapped
to it (`LookedAt`), a reader looks when its last query is made, or when it is told
that something does not exist. What its handler checked in a query before still
holds then, because rooms are never deleted; otherwise a reader could find a room
and then list it as empty, which it never was.

### AmaServer

`boot` is how far `main` is: down, connected to the database (`pool`), to the cache
(`cache`), serving (`up`), returning (`closing`). An interrupt lets `main` return; the
deferred `pool.Close()` (`main.go:37`) takes the free connections and waits for those
in use. Until then the listener's goroutine accepts requests, but a request gets
no connection for a new statement (the second conjunct of `Handle`). `Exit` ends
the process when no handler waits for a statement, `Crash` (a signal that is not caught, a
panic of the listener) at any time. `End` is what both do: readers and handlers
stop, notifications that have not reached the service are `lost`, subscriptions are
gone.

`notices`, of `MessageBoard`, are the notifications handed to a goroutine; those
neither published nor lost are `Waiting`, and `Deliver` takes any of them, in any
order. `topic`, `state`, `stream` and `got` are the state of `RoomBroadcast`; `dial[c]` is
where the subscribe handler of a connection is, with the check of the room, the
upgrade and the registration as steps of their own. A connection and a
notification name their topic by the raw key of the URL, a statement by the room
the key denotes (`Denotes`), so two keys may denote one room.

Three histories serve the properties: what had been announced (`heard`) and who was
being served (`joined`) when a reader was received, and for each reaction which
others on its message have taken effect since its statement took the snapshot it
counted in (`since`): what its count lacks.

### AuthSession

A user is named by the email: it is unique, rows are never deleted and never
change it, so email and id stand for each other. A request takes its browser's
cookie when it arrives (`id[r]`); `user[r]` is the row its handler holds in memory.
`GetUserByEmail`, `CreateUser`, `UpdateUser` are single statements on the row,
`SetSessionData`, `DeleteSession` and the lookup in `AuthMiddleware` single cache
commands; each may fail, or take effect and be reported as failed. `Respond` brings
a cookie to the browser, or does not. `session.Save` of the callback only writes a
header, so it is part of the steps around it: the cookie goes out with the
answer even when the cache then fails. `gone` are the requests whose process
ended while a command was under way; the command may still take effect.
`Expire` and `CookieExpires` may happen at any time. Profiles are reduced to the
provider, one edited field (`name`) and `new_user`; the fields that nobody edits
behave as the provider does.

Four histories serve the properties: who was vouched for (`vouched`), what each
row has been (`stored`), for whom two requests overlapped between taking the
row and setting the session (`overlapped`), and which requests a session had let
through when it ended (`stragglers`, in `EndSession`).

`AtomicAccounts` is what is left when requests, statements and commands are taken
away: authentications, accounts opened and edited by their owners, sessions granted
to owners and taken back, and a memory that may forget but only knows what the
account has been. `Accounts` in `AuthSession` maps the users table, the cookies and
the cache to it.

## The runs

| Run | Instance | What it shows |
|-----|----------|---------------|
| `hub` | 3 connections, 1 room and the rooms list, 2 notifiers, 3 notes | `HubInv`, `DeliveryInv` and their parts, no gap, no duplicate, nothing missed while live, and the refinement of `RoomBroadcast`. Two notifiers are enough for every overlap of two loops, three connections for a join, a removal and a failing write around one loop, three notes for a stream with a beginning, a middle and an end |
| `hub_liveness` | 2 connections, 1 room and the list, 2 notifiers | under `FairSpec`: a cancelled connection is closed, a notification ends, a dead client is not written to for ever |
| `reactions` | 4 requests of 2 users on one message | the table adds up, counts are in range, and exact when no other statement overlaps |
| `board` | 3 requests, any operation, seeded and new rooms and messages | answers, statuses, checks before writes, and the refinement of `AtomicBoard` |
| `sessions` | 3 requests (login, logout, info, update) from 2 browsers: 2 providers know one account, and from the first browser there is a second one | sessions belong to who was vouched for, hold what the row has been, equal it unless two requests overlapped, and come back after a logout or an expiry by a login or a straggler only (`SessionReturnsByLogin`); and the refinement of `AtomicAccounts`. A second account in one browser is what lets a cookie of one user meet a session of another |
| `reads` | 2 readers, 2 writers of rooms, messages, answers and reactions; a room and a message that do not exist at first | acknowledged writes are read, reads never go back, and the refinement of `AtomicReads`. Two readers are what "reading again" needs, two writers what lets a message be posted to a new room, or two changes be made, between two queries or two reads |
| `server` | 2 writers (message, reactions of 2 users), 1 reader of the list, who may misspell its room, 1 subscriber, any number of interrupts, crashes and restarts | announcements and data (`HeardThenRead`, `NothingFallsBetween`), the counts of a list (`ListedCounts`) and of a stream: the last one told lacks exactly the changes that overtook it (`LastCountMissesOvertakers`) |
| `server_live` | 2 writers, 1 subscriber of the room or of the list | under `AFairSpec`: changes reach their subscribers, an interrupted server stops |
| `spelling` | 1 writer, 1 subscriber, 1 room with 2 spellings of its id | expected violation: a message is not announced to a subscriber under the other spelling |
| `session_profile` | as `sessions` | expected violation: login and update overlap, both succeed, the session keeps the old profile |
| `reaction_count` | as `reactions` | expected violation: the count is not the total |
| `notice_room` | as `board` | expected violation: the notification goes to the URL's room, not the message's |

Symmetry is used in `hub`, `reactions`, `sessions`, `reads` (of the readers) and
`server` (of the writers), whose configurations do not tell the permuted values
apart, and in no run with a liveness property; the refinements checked in
`hub`, `sessions` and `reads` are safety properties. Only `hub_liveness` checks
for deadlock: in the others notes, requests, readers and connections are used
once, so these instances really stop.
Every count of them is such a bound: the sets are finite, and used up.

### Fairness

`FairSpec` is used by `hub_liveness`. A goroutine that can run, runs. The
Go mutex goes into starvation mode when a waiter has waited for a millisecond
and then hands the lock over in order, which justifies strong fairness of
everything that waits for it. Writes to a client that reads complete, and writing
again and again to a client that is gone fails in the end (TCP reset or
timeout). `ClientsKeepReading` is an assumption about clients, not about the code:
the service sets no write deadline, so one client that stays connected and does
not read stops every topic. `DeadIsForgotten` is about topics that keep being
notified: on a quiet topic a client that left is never noticed.

`AFairSpec` is used by `server_live`. A handler goes on because its queries end,
with an answer or an error; a notification is delivered because it gets the mutex
and its loop ends, which `NotifyReturns` shows of the service if clients keep
reading; `main` goes on once `pool.Close()` has returned. Nothing makes anybody
start the server again, ask, or subscribe.

## The proofs

`WebSocketHubProofs` proves `Spec => []HubInv` for any sets `Conns`, `RoomKeys`
and `Notifiers`, finite or not, from `HubAssumption` (the list is not a room, `None`
is no topic). `HubInv` is inductive: that no connection in a loop is
removed (`NoWriteAfterLeave`) needs that the mutex is held by the one notifier in
its loop (`OneWriterAtATime`), and that a loop's connections are subscribers of
its topic needs the agreement of maps and goroutines (`RegisteredWhileServed`).
That the mutex is given back is liveness, which `hub_liveness` checks.

`MessageBoardProofs` proves `Spec => []BoardInv` from `BoardAssumption`, for any
sets of requests, users, rooms, messages and inputs. `BoardInv` adds to what the
runs check that a check once passed stays true (`ChecksHold`: nothing deletes a
room or a message, so a row that was found is there when the statement
runs), that a request takes effect at most once, and before its reply if that is not
a 500 (`EffectsOnce`), the primary key of the reactions (`ReactionKey`) and that the
sets that are counted are finite (`Finite`). There is one lemma per kind of step
(a check passed, a rejection, a snapshot, a refused statement, a handler that gives
up, a reply, a restart), one per statement, and one per handler that puts them together. From
the invariant follow the four safety properties and further arguments:

* `ReactionsBalance`: an insert adds one request and one row to its user and
  message, a remove adds one request and takes the one row the primary key
  allows, every other step leaves both sides alone.
* `CountsExactAlone`: a statement whose snapshot is the table it commits to adds
  one row to it or takes one from it, and counts just that.
* `CountsStayInRange`, for finitely many users: a snapshot has the primary key too
  (`SnapshotKey`), so it has at most one row per user, and a remove that returns has
  found its own.
* `BoardIsAtomic`: a commit is one action of `AtomicBoard` on the mapped state, a
  reply is its announcement, every other step is a stutter.

`AuthSessionProofs` proves `Spec => []SessionInv` from `AuthAssumption`.
`SessionsAreVouched` needs that an account keeps its provider (`RowsKeepProvider`,
which rests on the unique email) and that a handler on its way to a session was
vouched for (`InHand`); `SessionsWereRows` needs that the copy a profile update
edits differs from the row in edited fields only. `AccountIsKept` follows.
`SessionsFollowRows` proves `SessionIsProfileUnlessRaced`: as long as nothing has failed,
and for a user whose requests have not overlapped (`InStep`), at most one request is
about to set the session, it has the row as it is in hand, and if there is none the
session is the row. What has failed shows for ever (`Ends`: a status is never
taken back, and a request whose process ended gets lost), so nothing need be said of it.
`SessionsAreAccounts` proves the refinement of `AtomicAccounts`: a statement on the row is
`Open` or `Edit`, with the proof that `InHand` has kept; a cookie that arrives is `Grant`,
and `SessionsAreVouched` says that it goes to an owner; a command on the cache, also one
whose process has ended, is `Remember`, and what it sets is something the row has been.
`SessionsReturn` proves `SessionReturnsByLogin`: a profile update on its way to the
session has the entry that let it through still there, or is one of the stragglers of
its last end (`ThroughIsKnown`).

`HubDeliveryProofs` proves `DSpec => []DeliveryInv` on top of `HubInv`, for any sets of
connections, rooms, notifiers and notes. `DeliveryInv` says of each connection
what it was written in terms of its topic's log: the part of the log since it
joined, and the current note if its round has come past it. From it follow
`NothingMissed` and `NoGaps`, and the refinement: under the mapping of `got` and
`state` the end of a round is `Publish`, a registration `Join`, a failed write `Break`, a
removal `Leave`, and everything else, writes included, a stutter. The proof is per
connection: what a round does to one connection does not depend on the others.

`DeliveryIsHub` says that the notes change nothing for the hub that carries them.

`BoardReadsProofs` proves `RSpec => []ReadInv`. `ReadYourWrites` and `MonotonicReads`
are conjuncts of `ReadInv`; what makes them inductive is that effects stay
(`EffectsStay`), that what was read is still true (`StillTrue`), both of which rest on
`BoardInv`, and that readers go one way (`ReadersInOrder`). `ListedCounts` follows from
what the table adds up to per message (`TotalsAddUp`), and from the bounds only
widening while the statement that lists is on its way. `ReadersLook` proves the refinement of
`AtomicReads`: a room that was checked is there when the query runs (`RoomsChecked`),
the rows a query returns are all there is to see (`QuerySees`, with one pair per row
of the reactions by their primary key, so that counting pairs and counting rows is the same),
and a "not found" is true when it is given (`DeniedSees`). `BoardBesideReaders` says that
readers change nothing on the board.

`AmaServerProofs` first
shows that the server takes only steps of `BoardReads`, so `BoardInv` and `ReadInv`
hold of it, and then that `ServerInv` is inductive: nothing but a sent statement
survives a process (`NothingLeftBehind`), and what was announced before a reader
asked is done (`HeardIsDone`), while what came later a served connection has been
told (`HeardOrGot`). `HeardThenRead` and `NothingFallsBetween` follow, and `ListedCounts`
carries over. `LastCountHolds` proves `LastCountMissesOvertakers`. The law behind it
(`CountLaw`) is that a count and the changes since its snapshot make the total: a
statement that takes its snapshot counts the table; every change that takes effect
moves the total by one and joins those that all other counts of the message
lack; and what it returns itself is its snapshot moved by one. What a connection got is
the end of its stream (`GotTheEnd`), so if all changes are announced under its key,
those that the last count lacks are in the stream, and they are before it.

The last theorems put the parts together. `ServerIsBoard` says that the server takes only
steps of `BoardReads` and of `MessageBoard`; so each request is one atomic step and
each reading one look across crashes, interrupts and restarts (`ServerIsAtomic`), an answer is
final, a status true, the reactions add up, and no client sees the data go back
(`ServerAnswersOnce`, `ServerStatusTrue`, `ServerNeverGoesBack`).

Only model-checked is liveness under fairness (`hub_liveness`, `server_live`), which is
beyond TLAPS. Every invariant, action property and refinement that the passing runs check
is also a theorem.

## Divergences found

* The count returned and announced by a reaction is the snapshot's count plus
  one, not the total: two overlapping reactions both announce 1
  (`reaction_count`).
* A reaction or an answer is announced to the room of the URL, which need not be
  the room of the message (`notice_room`).
* A profile update answered with success can leave the old profile in the
  session, if a login or another update overlaps it (`session_profile`).
* A message posted under one spelling of a room's id is not announced to a
  subscriber under another (`spelling`).

Two observations the models contain, of which nothing in the repository says
otherwise: a client is connected (the upgrade is answered) before it is registered,
and misses what is announced in between, which `NothingFallsBetween` says how to
make up for; and a message can be read through the URL of a room it is not in.

## Not modelled

* CORS headers, request ids, logging, the health check and the recoverer of the
  router; names and defaults of environment variables: no state the properties
  are about.
* `LoginHandler` and `AuthInit`, which redirect and configure; encoding and
  encryption of the session.
* The order of lists and the columns copied from users; message texts and JSON.
* The generated row structs, migrations and `terndotenv`, containers and
  deployment.
* The memory of the service: the maps of rooms that were once subscribed to are
  never deleted, nor are connections on a topic that is no longer notified. The
  code bounds neither, so there is nothing to check.
* In `AuthSession` a command to a store that is reported as failed takes effect at once
  or never, unless the process ends; only the statements of the board may commit later.
* That a closed pool refuses queries to readers too: in `AmaServer` a reader may still get
  its rows while the server is closing, which only adds to what is checked.
* The composition of sessions and board: the middleware hands a handler the user,
  which is an input here.

## Plan

1. Done: `WebSocketHub`, `HubDelivery`, `RoomBroadcast`, `MessageBoard`,
   `AtomicBoard`, `AuthSession`, with their proofs and refinements.
2. Done: `BoardReads` and `AmaServer`: reads between writes, main, raw keys, the
   order and the loss of notifications, with their proofs.
3. Done: the proofs of the properties that count, and of
   `SessionIsProfileUnlessRaced`.
4. Done: `AtomicAccounts` and `AtomicReads` with the proofs that `AuthSession` and
   `BoardReads` implement them, and the theorems that carry the promises of the
   parts over to the server.
5. Left: the liveness runs could be backed by proofs of their safety halves, for
   instance that a closing server only gets fewer statements to wait for.
