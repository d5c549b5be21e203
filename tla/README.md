# Verification of the Postgres-native chat application

TLA+ models of the chat server in this repository, the TLC runs that check them
on small instances, and TLAPS proofs of the main invariants for every instance.
Paths such as `src/chat/chat.service.ts` are those of the repository. `PROJECT.json`
maps every definition to the lines it stands for.

## 1. The system

Several identical Node processes ("nodes") serve HTTP and WebSocket clients from
one PostgreSQL database, which is both the store and the message bus
(`LISTEN`/`NOTIFY`). Nothing else is shared between nodes.

| Component | State | Operations | Talks to |
|---|---|---|---|
| LISTEN client (`postgres.service.ts`) | `roomSubscriptionCounts`, `listenClient`, `reconnectTimer`, `reconnectBackoffMs`, `destroyed`; on the server, the channels of the connection | subscribe, unsubscribe, error event, reconnect, `ensureListenChannels`, destroy | server; emits room, presence and typing events |
| WebSocket rooms (`chat-ws.service.ts`, `chat.service.ts`) | `userSockets`, `roomSockets`, `isAlive` of a socket, table `presence` | connect, frames `join_room` and `leave_room`, close, error, heartbeat, presence sweep | LISTEN client, pool |
| Room messages (`chat.service.ts`, `chat.controller.ts`, `db/migrations`) | tables `messages`, `room_sequences` | `send_message`, POST and GET of messages, catch-up in `join_room`, the triggers | pool, NOTIFY |
| Rooms and membership (`rooms.service.ts`) | tables `rooms`, `room_members` | create, join, leave, list, `isMember` | pool |
| Delivery (`chat-ws.service.ts`, `postgres.service.ts`) | batch buffers, flush timer, broadcasts queued with `setImmediate`, send buffers | notification handler, enqueue, flush, broadcast, history frame | LISTEN client, sockets |
| Presence and typing (`chat.service.ts`, `001_init.sql`, `chat-ws.service.ts`) | tables `presence`, `typing` | frames `typing_start` and `typing_stop`, upserts, deletes, triggers on INSERT OR UPDATE, broadcasts, sweep | all nodes |
| Sessions (`auth.service.ts`, `users.service.ts`) | tables `users`, `sessions` | register, login, refresh, logout | pool |
| Frame validation (`ws-payload-validation.ts`) | none | four validators | |
| Pool (`postgres.service.ts`) | connections checked out | query, transaction, `SET statement_timeout` on checkout | server |
| Migrations (`scripts/migrate.js`) | table `schema_migrations` | run | server |

Bootstrap, Swagger, Docker, Nginx and the k6 scripts keep no state of the
program's own.

What is hard:

* **Interleaving at awaits.** A `message` listener is an async function that nobody
  awaits: two frames of one socket are handled at once, and a close, a heartbeat or
  a failing connection falls between any two awaits. The code between two awaits runs
  alone.
* **Two views of one fact.** `roomSockets` (a set) and `roomSubscriptionCounts` (a
  number) are to agree on which rooms a node needs, and are changed at different
  times; the server's registered channels are a third view, behind a queue.
* **Failure.** The LISTEN connection breaks and is replaced, with backoff, while
  calls are pending on it; pool queries fail before or after they took effect.
* **Check, then act.** `register` looks up and inserts, `refresh` reads the sessions,
  inserts one and revokes another, the migration script reads what is applied and then
  applies: each in separate queries, with others doing the same.
* **Ordering across transactions.** `seq` is handed out inside transactions of
  different nodes that wait, fail and roll back; readers page by `seq`.

Correctness per component: the LISTEN client listens on what it means to and never
stays deaf; a socket that was told `joined_room` is served, a closed one is gone; `seq` is gapless and announced in order, and readers miss nothing;
live messages come in order and nothing falls between history and live stream; the newest
presence and typing row reaches every client, and a crashed node's rows go away; accounts
are unique, a refresh takes no login away from any device, and a logout is final; every
migration is applied once and in order, and exit code 0 means that all are.

## 2. Modules

| Module | Models | Extends |
|---|---|---|
| `ListenClient` | the LISTEN side of `PostgresService` | |
| `ListenClientProofs` | TLAPS proofs of its invariants | `ListenClient` |
| `RoomSockets` | one node's sockets, rooms and presence rows, composed with the LISTEN client | `ListenClient` |
| `RoomSocketsProofs` | TLAPS proofs that a node uses the LISTEN client as specified, of its registry, and of what a joined client may rely on | `RoomSockets`, `ListenClientProofs` |
| `MessageLog` | abstract: a room is a log, a post appends and announces in one step | |
| `RoomMessages` | posting, the triggers, catch-up and paging, membership | instantiates `MessageLog` |
| `RoomMessagesProofs` | TLAPS proofs of the invariants of posting | `RoomMessages` |
| `RoomLogProofs` | TLAPS proofs of the readers' invariants and that rooms implement `MessageLog` | `RoomMessagesProofs` |
| `Delivery` | how a posted message reaches the sockets of one node, live and as history | `RoomSockets` |
| `DeliveryProofs` | TLAPS proofs of order, of the flush timer and that nothing is missed | `Delivery`, `RoomSocketsProofs` |
| `Indicators` | presence and typing of one room on several nodes: rows, triggers, broadcasts, crash, sweep | |
| `IndicatorsProofs` | TLAPS proofs of its types and that the newest row reaches every client in the room | `Indicators` |
| `Sessions` | register, login, refresh and logout on `users` and `sessions` | |
| `SessionsProofs` | TLAPS proofs of its invariants | `Sessions` |
| `Migrate` | concurrent runs of `scripts/migrate.js` | |
| `MigrateProofs` | TLAPS proofs of its invariants | `Migrate` |
| `MC*` | constants and symmetry sets for TLC | |

A definition marked `mutant of X` is a changed form of `X`, as a plausible bug would
have it. It is used by no specification; each property of a passing run is known to
fail when `X` is replaced by such a mutant (`PROJECT.json`, `mutants`).

### ListenClient

One action is the code from one `await` to the next. `counts` is
`roomSubscriptionCounts` (0 for an absent key). The connection is the client of the
`pg` package, modelled from how it is used: queries are answered first in, first out
(`queue`, `Reply`), are kept while the client connects (`Accepts`), are rejected at
once on a broken or ending one (`Refuses`) and all together, in order, when the
connection breaks (`RejectPending`); a client whose `connect()` failed may also leave
a query unanswered (`Hangs`). The `catch` blocks of subscribe and unsubscribe, which
delete the count or set it to 1, run within `RejectPending` (`RolledBack`).

`ensureListenChannels` iterates the live keys of a `Map` and awaits at each one:
`toVisit` are the keys it has not met, `KeyAdded` and `KeyDeleted` what a change of the
map does to the iteration. `reconnect` is the place of `doReconnect`: `ending` (awaits
`old.end()`), `connecting`, `ensuring`. `Destroy` is `onModuleDestroy`. The initial
state is the one `onModuleInit` leaves. Callers are unconstrained.

### RoomSockets

The node's handlers are the `Callers` of `ListenClient`. `join_room` is `JoinFrame`
(adds the socket, awaits the membership query), `JoinMember` or `JoinNotMember`,
`JoinSubscribed`, `JoinPresence`; `leave_room` is `LeaveFrame`, `LeaveDelete`,
`LeaveDone`. `DbFails` is a query that is rejected: the listener logs it, and the client
is told nothing. `cleanupSocket` is `CleanupSockets`: the unsubscribes it calls
without awaiting run in the same turn, so they are collected in `drops` and nothing but
`Drop` may happen until it is empty. `asked` and `acked` are history variables: the
pairs (socket, room) whose last request is a join, and those that were sent
`joined_room` since they last left. `Heartbeat` and `Sweep` end with `destroyed`:
`onModuleDestroy` of `ChatWsService` clears their intervals, and Nest calls it in the same
shutdown as that of `PostgresService`.

### RoomMessages and MessageLog

Handlers of all nodes (`Senders`) check the membership (`CheckMember`), and their INSERT
takes the row of `room_sequences` (`AssignSeq`), and commits (`Commit`), exceeds the
NOTIFY payload (`PayloadTooLong`) or fails, rolled back or committed without an answer
(`QueryFails`). A content is one of four sizes, which is what the code tells apart.
`CatchUp` is the history read of `join_room`. The `next_cursor` it answers is the `seq` of a
row, a `BIGINT`, which `pg` returns as a string; the client keeps it as it came or makes a
number of it (`form`), and a `last_seen_seq` that is a string is refused by the validator
(`Accepted`). The cursor of `GET` is a string as well, and `parseInt` of the controller takes
it. `FirstPage` and `NextPage` those of
`GET /rooms/:id/messages`, whose membership query changes nothing and is part of the
step. `LogSpec` states that all this implements `MessageLog`, where the log of a room is
the table in the order of `seq`.

### Delivery

Extends the node with the way of a message. `Post` is a commit on any node: by
`RoomMessages`, messages commit as 1, 2, ... and are announced in that order, so the table
of a room is a number (`committed`) and the LISTEN connection a queue (`wire`), which is
lost with the connection (`Listen`). `Notified` is the notification handler with
`enqueueRoomMessage`, `Flush` the timer with `flushRoomMessageBatches` and
`broadcastToRoom`, `Send` its `setImmediate` callback; callbacks run before the next
turn of timers, so `Flush` waits for them. Which sockets are over the backpressure
threshold is chosen at each flush among `Slow`. `Join` adds a `last_seen_seq` to
`JoinFrame`, and `ReadHistory` splits the history query from the step `JoinPresence` of
`RoomSockets`; `Handle`, `Leave` and `Listen` are the other steps of the node with what they
mean here. `history`, `heard` and `skipped` are history variables of what a socket was sent.
An answer to a LISTEN may overtake an earlier notification in the model (`queue` and `wire`
are two queues), which no property depends on.

### Indicators

The rows that `join_room`, `leave_room`, `typing_start` and `typing_stop` write, on several
nodes at once; the handlers of one node and its LISTEN client are in `RoomSockets`, so here
a handler is its membership query (`CheckMember`) and its write (`Execute`), and a LISTEN
connection is up or down (`Lost`, `Reconnected`). A write is known by its number, which
takes the place of `last_seen` and `started_at`; `row` holds the write that made a user's
row. A trigger (`Fires`) puts a note of each upsert on the `wire` of every node that
listens; `Notified` is the handler of the notification with its broadcast to the sockets
of the node. `Crash` takes a node with its sockets, handlers and connection; its rows stay
until `Sweep`, on the timer of any node, deletes what is `stale`. `shown` and `since` are
history variables: what a client was last sent of each user, and the write after which it
is owed every other one (it joined then, or its node was deaf or its socket skipped).

### Sessions

A request goes from query to query: `Register` and `Login` are the look-up, `Refresh` the
look-up with the choice of the session to replace, `InsertUser` the `INSERT INTO users`
against the unique constraints, `CreateSession` the `INSERT INTO sessions`, `Revoke` the
`UPDATE` that ends a refresh; `Logout` is one query. Sessions are numbered as they are
created and expire in that order (`lapsed`). A session records the token that asked for
it (`from`). `Matches` is what `bcrypt.compare` says of a token and a session's hash: bcrypt
reads 72 bytes, and the refresh tokens of one user differ only after that, so any of them
matches any live session of the user. `held` are the tokens that reached a client,
`loggedOut` the sessions a logout was asked to end. `DbFails` is a query that is rejected
before or after it took effect, or a node that is gone with the request.

### Migrate

Runners go through `scripts/migrate.js` query by query. Versions are numbered as their
file names sort. The SQL of a version and its row in `schema_migrations` are one
transaction, which takes effect with `Commit`; all three scripts replace the function
`notify_new_message`, so `Script` waits while another transaction that has run its script
is open, and `Refused` is what PostgreSQL answers when that one committed: the object
exists, the function was updated concurrently, or the key is taken. `Fault` is any other end
of a run; a COMMIT under way may still take effect.

## 3. Runs

Passing:

| Run | Instance | Shows |
|---|---|---|
| `listen_client` | 2 rooms, 2 callers, counts to 2, 2 faults, backoff 1..2 | all invariants of `ListenClient`, and `CountedIsListened` under fairness |
| `room_sockets` | 2 sockets of 2 users, 1 room, 2 handlers; joins, closes, heartbeat, HTTP join and leave, one failing query, shutdown | `AckedIsServed` where no leave and no LISTEN fault interferes |
| `room_sockets_all` | 1 socket, 2 handlers, one failing query; also `leave_room`, refused connections, sweep, a client that vanishes | types, `ClosedNotRegistered`, that the node uses the LISTEN client as specified (`ListenSpec`), and under fairness `VanishedIsCleanedUp` and `HandlersFinish` |
| `room_messages` | 2 handlers, 1 room, 3 messages, pages of 2, a reader, a pager, 1 fault | the invariants of `RoomMessages`, refinement of `MessageLog`, `PagesAreContiguous`, `PostsFinish` |
| `delivery` | 2 sockets of one user, 1 handler, 2 messages, history pages of 2, one slow socket, one LISTEN fault, `leave_room`, close, shutdown | `LiveInOrder`, `BufferedIsScheduled`, `NothingMissed` as long as joins do not overlap |
| `sessions` | 2 requests at once, 2 e-mails, 2 names, 4 sessions, one failing query; expiry, logout of one session or all | `AccountsUnique`, `HeldCanRefresh`, `LoginsKept` |
| `migrate` | 3 runners, 3 versions, of which some may be applied already; faults at any query, restarts | `AppliedInOrder`, `OkIsMigrated`, `SomeRunFinishes`, and under fairness `RunsEnd` |
| `indicators` | 2 devices of one user on 2 nodes, 2 handlers, 2 writes; a node that crashes, one whose LISTEN connection breaks, a slow socket | `NewestShown`, and under fairness `AbsentIsSwept` |

Violated, each a disagreement between a comment and the code:

| Run | Property | What happens |
|---|---|---|
| `room_sockets_leave` | `AckedIsServed` | `leave_room` unsubscribes in `removeSocketFromRoom` and again in `handleLeaveRoom`, or without a join before it: the node stops listening on a room with an acknowledged socket |
| `delivery_overlap` | `NothingMissed` | a second join is counted while the LISTEN of the first is pending; it reads its history before the node listens, and a message in between is lost to it |
| `room_messages_limit` | `AcceptedIsStored` | a content within `MAX_MESSAGE_LENGTH` exceeds the NOTIFY payload; the INSERT fails |
| `sessions_logout` | `LoggedOutStaysOut` | a logout falls between the read and the INSERT of a refresh: the session that is logged out has a live successor |

**Bounds.** `MaxFaults` and `MaxDbFaults` cap faults: two let the connection break again
while it is being replaced, which is the longest chain of phases; after it the state is
the same as after one. `MaxSubscribers` caps counts: the code tells 0, 1 and more apart.
`MaxBackoff` is the second step of the backoff, so doubling, capping and resetting occur.
Two rooms show that the loop of `ensureListenChannels` meets a change behind, at and
before its position. Two handlers post at once: one holds the row, the other waits; that
more of them keep the order is proved. Three messages are a full page and one that is
not full. In `delivery`, two messages make batches of one and of two, and a history of
one page, full or not; the constraint `LostWhileAlone` lets the connection break, or the
module be destroyed, only while the second socket is not connected yet, and `FirstStays` does not follow
the first socket once it is closed, which the second one shows. `Events` says
which kinds of event an instance has; those a run leaves out are in another one.
`MaxSubscribers` is 4 in `room_sockets` and 3 in `room_sockets_all` and `delivery`, and one
of it is kept free for an `UNLISTEN` that fails and restores its count, so a handler is
never stopped by the bound.
In `sessions`, four sessions let two refreshes of one token and a further login overlap, and
any of them be expired, revoked or logged out. In `migrate`, three runners are one that wins,
one that is refused and one that comes after both. In `indicators`, two writes are a row and
its replacement, which is what `NewestShown` compares; one user on two nodes is the case in
which a row changes its `node_id`; one node never crashes, since a sweep needs a node.

Deadlock is checked in all passing runs but `room_sockets_all`, `delivery` and `indicators`,
where all sockets may be closed for good; elsewhere the environment can always go on.

**Fairness.** The server answers (`Reply`), timers fire (`ReconnectTimer`, and `Heartbeat` until
a shutdown clears it, after which `VanishedIsCleanedUp` promises nothing more), the
old client's `end()` settles, and a `connect()` succeeds or fails (faults are bounded):
what Node and TCP do. `EnsureListen(ch)` is strongly fair because a key of a `Map` is met
in insertion order, so keys added later cannot overtake it for ever. Handlers are strongly
fair because a step that is ready waits while another turn (`drops`) lasts. `SenderStep`
is strongly fair because PostgreSQL grants a row lock in the order of waiting. `Proceed`
of `Migrate` is strongly fair for the same reason: a query is answered, and one that waits for
another transaction is granted its lock in turn; a runner may stop where it is only by
`Fault`. In `Indicators`, time passes (`Ages`) and the sweep timer of a node that is there
fires (`Sweep`); no fairness is asked of handlers or notifications. Nothing
obliges a client to send, close or answer, a connection to break, or Nest to shut down.
`HandlersFinish` is claimed without connection faults only: with one, a query may be
given to a client that never answers it, in the code as in the model.

## 4. Proofs

TLAPS proves, for all values of the constants that satisfy the assumptions of the
modules (`ListenAssumption`, `MessageAssumption`, `SocketAssumption`,
`DeliveryAssumption`, `IndicatorsAssumption`, `SessionsAssumption`, `MigrateAssumption`):

* `ListenClientProofs`: `TypeOK`, `ListenIntent`, `SettledListens`,
  `RecoveryUnderWay`, `ConnectionPhases` and the action property
  `BackoffFallsWhenListening`. The inductive invariant `ListenInv` joins the type
  invariant, `ListenIntent`, `RecoveryUnderWay` and `ConnectionPhases` with the facts
  on the phases that they need: `ListenIntent` alone is not inductive, since `NewClient`
  may start from any queue and a LISTEN of `ensureListenChannels` must be known to be of a
  wanted channel or to be followed by an UNLISTEN.
* `RoomSocketsProofs`: `NodeTypeOK`, `ClosedNotRegistered` and `Spec => ListenSpec`, so that all
  that is proved of the LISTEN client for callers that do as they please holds in a node
  (`NodeListensAsMeant`). The step to show is that a handler calls only when it awaits nothing:
  `Owned` says that a query in the queue is the one its caller awaits, `Awaiting` that only a
  handler at such an await has a promise, and `JoinsBounded` that the count of a room plus the
  joins that are about to raise it stay within `MaxSubscribers`, a failed UNLISTEN included.
  The run of `ListenSpec` has no LISTEN faults; the theorem has.
  `AckedIsServed` is proved as `faults = 0 => AckedIsServed` for nodes whose clients leave by
  closing only (`ServedWhileConnected`). A count alone says nothing of who needs it, so
  `ServeInv` relates it to the sockets: who joins or has joined is in the room's set (`Joined`), a
  room is given up only when that set is empty (`DropsEmpty`), so the count of a room stays above
  zero from the subscribe of one that stays open (`NeededCounted`). Neither
  hypothesis can be dropped: `room_sockets_leave` shows that for leaves, and section 5 says what
  a LISTEN that fails does.
* `RoomMessagesProofs`: `StoreTypeOK`, `RowHeldByOne`, `InsertFindsRow`, `GaplessSeq`,
  `NotifiedInOrder`. `GaplessSeq` is inductive only with `RowHeldByOne`: the transaction
  that commits must hold the row and its `seq` must still be the row's value; that a waiting
  INSERT is for a room that has a row comes from `InsertFindsRow`.
* `RoomLogProofs`: `TypeOK`, `CatchUpSkipsNothing`, `PagesAreContiguous` and `Spec => LogSpec`.
  By `GaplessSeq` the rows a query sees are an interval of `seq`, so the lemmas are about
  intervals: the first rows and the last rows of one, in order, are one again
  (`FirstOfInterval`, `LastOfInterval`), and `InOrder` lists it. `ReadInv` adds to the
  invariant of posting that what a reader was given is the log up to its cursor (`GotIsLog`), and
  that the pages of a pager are an interval that ends in the log, with 1 as its beginning when no
  older one is left (`PagesOfLog`). A commit is then the `Append` of `MessageLog`, a catch-up
  its read, and every other step a stutter.
* `DeliveryProofs`: `DeliveryTypeOK`, `LiveInOrder`, `BufferedIsScheduled` and `NothingMissed`.
  A message goes through four stages: wire, buffer, callback, socket. `FlowInv` says that each stage is in order and
  ahead of those before it, and that none is beyond what is committed; without the last
  fact a new message would not be known to be the newest. The steps of the node matter
  only in that they leave the stages alone or lose the wire, so the proof of order does not
  depend on which sockets are in which rooms. `NothingMissed` does, and on the LISTEN client:
  `DeliveryIsOfNode` says that the node is one of `RoomSockets`, so `NodeInv` and
  `ListenIntent` hold of it. It is proved of the behaviours in which the node handles the frames
  about one room one at a time (`GaplessInTurn`, with `OneAtATime` as a condition on the behaviour,
  and `GaplessAlone` for one handler); `delivery_overlap` shows that it fails without.
  `TurnsInv` says that then a pending LISTEN is that of the join under way
  (`ListensJoin`), and that the room of one that has subscribed is counted, so when it reads its
  history the server has the channel registered (`ListenedOn`). From there `HistoryKept` goes on: the
  channel stays registered while the socket is open and asks for the room, and every
  message after the history has been sent or is in one of the stages (`Reaches`). Joins of any
  number of sockets to different rooms may overlap, and queries may fail. Once a LISTEN
  connection broke, `NothingMissed` promises nothing, as the code does.
* `IndicatorsProofs`: `NewestShown` and `IndicatorsTypeOK`. A notification that is delivered could
  put an old value in the place of a new one; `FlowInv` excludes it: each wire is in the order of the writes
  (`OrderInv`), newer than all that clients of its node were shown (`ShownInv`), and not newer
  than the row it is about (`RowInv`). `BoundsInv`, that nothing is beyond the last write, makes
  a new note the newest. A crash, a lost connection, a sweep or a leave only removes notes,
  rows or what is owed, which is one lemma (`Quiet`). `RestInv` is what the types need beyond
  that: a count of the frames that may still write, which keeps them within the bound of writes.
* `SessionsProofs`: `SessionsTypeOK`, `AccountsUnique`, `HeldCanRefresh`, `LoginsKept`. `HeldCanRefresh`
  follows from `ChainInv`: from every session on there is one of the same user that is not
  revoked, or was logged out. That is inductive with `RequestInv`, which knows of a refresh
  that it revokes an older session than the one it has inserted before: it rests on the order
  of these two queries. Sessions that are not revoked and later than a token that has not
  lapsed have not lapsed either. `LoginsKept` compares two numbers of sessions, which no step
  can be read off; `PairInv` has the reason: there is an injection from the sessions that were
  revoked and not logged out to sessions that refreshes of the same user created, none of which
  belongs to a refresh that has yet to revoke. The refresh that revokes adds its own pair.
* `MigrateProofs`: `MigrateTypeOK`, `AppliedInOrder`, `OkIsMigrated`, `SomeRunFinishes`.
  `RunnerInv` says of each runner that every version before its place is recorded, and that
  what it has stored is not recorded by another; `OneHolder` that the open transactions which
  have run their script are one at most. `Frontier` carries the last property: while no query
  has failed and a version is missing, there is a runner that no other one has overtaken, and
  such a runner is not refused.

Each step of `Next` has a step of the proof or a lemma; the temporal theorems follow from them
by PTL. All safety invariants that a run checks are proved, `AckedIsServed` and
`NothingMissed` under the conditions above, which are also those of their runs; so are the
refinements `ListenSpec` and `LogSpec`. Only model-checked: the liveness properties
`CountedIsListened`, `VanishedIsCleanedUp`, `HandlersFinish`, `PostsFinish`, `RunsEnd` and
`AbsentIsSwept`, which rest on fairness and are out of the prover's reach.

## 5. Known gaps between comments and code that have no run

* `README.md:119` says the creator of a room is already a member; `createRoom` inserts no
  membership.
* A join that is refused leaves its socket in the room's set until it closes
  (`chat-ws.service.ts:269`), although `chat.service.ts:36` describes the membership check
  as the first step.
* The doc comment of `onModuleDestroy` (`postgres.service.ts:234`) says it closes the LISTEN
  client; a `doReconnect` that awaits `old.end()` meanwhile opens a new one afterwards,
  since it tests `destroyed` before the await only (`Destroy` and `NewClient` in
  `ListenClient`).
* `subscribeToRoomChannel` deletes the key of the room when its LISTEN fails
  (`postgres.service.ts:288`), whatever count others have added meanwhile, although the comment
  above says that this keeps "our in-memory state" consistent: a second join that was told
  `joined_room` is counted no more (`RolledBack` in `ListenClient`). With
  `MaxFaults = 1`, TLC finds `AckedIsServed` violated in nine states: one socket joins, a second
  one joins and is answered while the LISTEN is pending, the connection breaks, and the count of
  both is gone, so the reconnect leaves the room out. `AckedIsServed` is checked without LISTEN
  faults for that reason.
* The doc comment of `cleanupSocket` (`chat-ws.service.ts:364`) says it unsubscribes empty rooms.
  A socket that closes during its join is cleaned up before its room is counted
  (`chat.service.ts:60`), and the count of the empty room stays up.
* `sweepStalePresence` removes rows "from crashed nodes (which never update last_seen again)"
  (`chat.service.ts:121`); no other node updates `last_seen` either after `join_room`, so clients
  that have been in a room for a minute are swept as well. No property says that a
  client in a room has a presence row.
* `next_cursor` of a `history` frame is a string (`chat.service.ts:74-81`: `seq` is a `BIGINT`,
  and no type parser is set), and so is `seq` of its messages, while `last_seen_seq` is declared a
  number (`chat.service.ts:10`) and `validateJoinRoomPayload` answers anything else with
  `invalid_payload` (`ws-payload-validation.ts:46-53`). A client that sends `next_cursor` back as it
  came, as `loadtest/k6-chat-ws.js:383,402` does, is refused after its first page, and is then in
  no room either: in `RoomMessages`, `CatchUp` is disabled for good once `form` is a string.
  `seq` of a live message is a number, since it comes from `json_build_object`.
* `next_cursor` of `GET /rooms/:id/messages` is a string for the same reason, where
  `message-response.dto.ts:33` says `number | null`.
* A presence row is one for all devices of a user, so `leave_room` on one of them removes the
  row of the others, and `AbsentIsSwept` has no converse.
* A typing row has a "short TTL" by `001_init.sql:71`, and nothing makes it expire. `DELETE`
  notifies nobody, although `chat.service.ts:222` speaks of signalling that the user is no
  longer typing, and a `typing_stop` may be executed before the `typing_start` it follows.
* `findUserByEmailOrUsername` (`auth.service.ts:90-98`) looks the user name up only if
  `findByEmail` returns `null`, and it returns a promise: the name is never looked up, and a
  registration with a known name fails in the unique constraint. With a known e-mail the
  existing account is answered, not a "Newly created user" (`auth.controller.ts:27`).
* `logout` without a `sessionId` ends all sessions of the user, where `auth.controller.ts:86`
  says the current one; no answer of the server contains a session id.
* A refresh token matches any live session of its user (`Matches` in `Sessions`), so a refresh
  may replace the session of another device. `LoginsKept` and `HeldCanRefresh` hold in spite
  of it.
* A client of the pool whose `SET statement_timeout` fails is not released
  (`postgres.service.ts:119-132`).
* `app-2` to `app-5` (`docker-compose.yml:35-95`) start when PostgreSQL is healthy, whether or
  not `app-1` has migrated.
* `README.md:74` says that clients should handle batched and single messages;
  `loadtest/k6-chat-ws.js` handles `new_message` only.
* `README.md:74` speaks of 20 ms batches; the window is 30 ms.
* `main.ts` does not enable shutdown hooks, so `onModuleDestroy` runs only when the
  application is closed by the program.

## 6. Plan

1. Proofs: whether `AckedIsServed` holds with `leave_room` on a node whose frames about one room
   do not overlap (`OneAtATime`), if only sockets that have joined a room leave it.
2. `Delivery`: what is buffered is sent in the end; an abstract specification where a socket
   sees an increasing subsequence of the log.
3. `Pool`: connections checked out under `connect`, its wrapper and `transaction`.

## 7. Not modelled

Framework wiring, DTO decorators, JWT contents, logging, Swagger, Nginx, the load tests; of
Docker only the order in which things start matters, and it is a known gap. The validators are
pure checks of types and lengths: what they let through is in the actions that frames start.
A `pg` pool is a query that succeeds or fails; its bookkeeping of connections is that of the
`pg` package, and `transaction` has no caller. Non-canonical spellings of a room id
(the channel name is the id as the client wrote it) are outside the model: a room id is a
value.
