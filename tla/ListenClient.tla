---------------------------- MODULE ListenClient ----------------------------
(***************************************************************************)
(* The LISTEN side of PostgresService (src/postgres/postgres.service.ts):  *)
(* the reference-counted room subscriptions, the one dedicated connection  *)
(* that carries LISTEN / UNLISTEN, and the loop that replaces it when it   *)
(* breaks.                                                                 *)
(*                                                                         *)
(* The connection is the client of the "pg" package: it runs the queries   *)
(* it is given first in, first out, keeps those it is given while it is    *)
(* still connecting, and rejects what is pending when it breaks.  Node     *)
(* runs the code between two awaits without interruption, so one action is *)
(* the code from one await to the next.                                    *)
(***************************************************************************)
EXTENDS Naturals, Sequences

CONSTANTS
    Rooms,           \* room ids
    Callers,         \* handlers that await subscribe / unsubscribe
    InitialBackoff,  \* INITIAL_RECONNECT_MS
    MaxBackoff,      \* MAX_RECONNECT_MS
    MaxSubscribers,  \* bound: no call to subscribe to a room starts at this count
    MaxFaults        \* bound: connections that break or cannot be opened

\* PgNotifyChannel: the two channels every node listens on.
GlobalChannels == {"presence", "typing"}

\* Owners of a query that no handler awaits: ensureListenChannels, and the
\* calls of unsubscribeFromRoomChannel whose promise is only given a catch.
Internal == {"ensure", "detached"}

ASSUME ListenAssumption ==
    /\ Rooms \cap GlobalChannels = {}
    /\ Callers \cap Internal = {}
    /\ InitialBackoff \in Nat \ {0}
    /\ MaxBackoff \in Nat
    /\ InitialBackoff <= MaxBackoff
    /\ MaxSubscribers \in Nat
    /\ MaxFaults \in Nat

Channels == Rooms \cup GlobalChannels

Query == [op : {"LISTEN", "UNLISTEN"}, ch : Channels, by : Callers \cup Internal]

VARIABLES
    counts,          \* roomSubscriptionCounts; 0 stands for an absent key
    client,          \* listenClient: connecting, open, dead, or failed to connect
    queue,           \* queries given to listenClient and not answered yet
    listened,        \* channels the server has registered for the connection
    reconnect,       \* where doReconnect stands; idle when it is not running
    toVisit,         \* channels ensureListenChannels has still to issue
    reconnectTimer,  \* a reconnect is scheduled
    backoff,         \* reconnectBackoffMs
    destroyed,       \* onModuleDestroy has run
    promise,         \* what each caller's awaited call has come to
    faults           \* connections lost or refused so far

connVars == <<client, listened, reconnect, reconnectTimer, backoff, destroyed, faults>>
listenVars == <<counts, client, queue, listened, reconnect, toVisit,
                reconnectTimer, backoff, destroyed, promise, faults>>

TypeOK ==
    /\ counts \in [Rooms -> Nat]
    /\ client \in {"connecting", "open", "dead", "failed"}
    /\ queue \in Seq(Query)
    /\ listened \subseteq Channels
    /\ reconnect \in {"idle", "ending", "connecting", "ensuring"}
    /\ toVisit \subseteq Channels
    /\ reconnectTimer \in BOOLEAN
    /\ backoff \in InitialBackoff..MaxBackoff
    /\ destroyed \in BOOLEAN
    /\ promise \in [Callers -> {"none", "pending", "ok", "failed"}]
    /\ faults \in 0..MaxFaults

-----------------------------------------------------------------------------
Counted == {r \in Rooms : counts[r] > 0}

\* The channels this node means to listen on.
Wanted == GlobalChannels \cup Counted

\* The state onModuleInit leaves: connected, both global channels listened on.
ListenInit ==
    /\ counts = [r \in Rooms |-> 0]
    /\ client = "open"
    /\ queue = <<>>
    /\ listened = GlobalChannels
    /\ reconnect = "idle"
    /\ toVisit = {}
    /\ reconnectTimer = FALSE
    /\ backoff = InitialBackoff
    /\ destroyed = FALSE
    /\ promise = [c \in Callers |-> "none"]
    /\ faults = 0

-----------------------------------------------------------------------------
(* The pg client. *)

\* A query is queued and will be answered or rejected later.
Accepts == client \in {"connecting", "open"}

\* A query is rejected at once: the connection broke, or end() was called.
Refuses == client = "dead" \/ reconnect = "ending" \/ client = "failed"

\* A client whose connect() failed may also keep a query without ever
\* answering it: it is neither connected nor marked as broken.
Hangs == client = "failed" /\ reconnect # "ending"

Issue(op, ch, by) == queue' = Append(queue, [op |-> op, ch |-> ch, by |-> by])

\* The promise of a call: a detached call has nobody waiting for it.
Settle(c, result) ==
    promise' = IF c \in Callers THEN [promise EXCEPT ![c] = result] ELSE promise

\* The iteration over roomSubscriptionCounts.keys() is live: it meets a key
\* added while it runs and skips one that is deleted.
KeyAdded(r) == toVisit' = IF reconnect \in {"connecting", "ensuring"}
                          THEN toVisit \cup {r} ELSE toVisit
SnapshotOfKeys(r) == toVisit' = toVisit  \* mutant of KeyDeleted
KeyDeleted(r) == toVisit' = toVisit \ {r}

\* What the rejections of the pending queries leave in the count of a room.
\* They run in queue order, so the last subscribe or unsubscribe decides: a
\* failed LISTEN deletes the key, a failed UNLISTEN sets it to 1.
RolledBack(r) ==
    LET own == {i \in DOMAIN queue : queue[i].ch = r /\ queue[i].by # "ensure"}
        lastIs(op) == \E i \in own : queue[i].op = op /\ \A j \in own : j <= i
    IN  IF lastIs("LISTEN") THEN 0 ELSE IF lastIs("UNLISTEN") THEN 1 ELSE counts[r]

\* The connection is gone, and with it what the server had registered.
RejectPending ==
    /\ counts' = [r \in Rooms |-> RolledBack(r)]
    /\ promise' = [c \in Callers |->
                      IF \E i \in DOMAIN queue : queue[i].by = c THEN "failed" ELSE promise[c]]
    /\ queue' = <<>>
    /\ listened' = {}
    /\ toVisit' = {}

-----------------------------------------------------------------------------
(* subscribeToRoomChannel *)

AwaitsFirstSubscriber(c, r) ==  \* mutant of SubscribeAgain
    /\ counts[r] > 0
    /\ counts' = [counts EXCEPT ![r] = @ + 1]
    /\ Settle(c, "pending")
    /\ UNCHANGED <<queue, toVisit>>

SubscribeAgain(c, r) ==
    /\ counts[r] > 0
    /\ counts' = [counts EXCEPT ![r] = @ + 1]
    /\ Settle(c, "ok")
    /\ UNCHANGED <<queue, toVisit>>

SubscribeFirst(c, r) ==
    /\ counts[r] = 0
    /\ Accepts
    /\ counts' = [counts EXCEPT ![r] = 1]
    /\ Issue("LISTEN", r, c)
    /\ KeyAdded(r)
    /\ Settle(c, "pending")

\* The LISTEN is rejected and the count rolled back to an absent key.
SubscribeRefused(c, r) ==
    /\ counts[r] = 0
    /\ Refuses
    /\ Settle(c, "failed")
    /\ UNCHANGED <<counts, queue, toVisit>>

SubscribeHangs(c, r) ==
    /\ counts[r] = 0
    /\ Hangs
    /\ counts' = [counts EXCEPT ![r] = 1]
    /\ Settle(c, "pending")
    /\ UNCHANGED <<queue, toVisit>>

Subscribe(c, r) ==
    /\ \/ SubscribeAgain(c, r)
       \/ SubscribeFirst(c, r)
       \/ SubscribeRefused(c, r)
       \/ SubscribeHangs(c, r)
    /\ UNCHANGED connVars

-----------------------------------------------------------------------------
(* unsubscribeFromRoomChannel *)

UnsubscribeNone(c, r) ==
    /\ counts[r] = 0
    /\ Settle(c, "ok")
    /\ UNCHANGED <<counts, queue, toVisit>>

UnsubscribeBelowZero(c, r) ==  \* mutant of UnsubscribeOne
    /\ counts[r] # 1
    /\ counts' = [counts EXCEPT ![r] = @ - 1]
    /\ Settle(c, "ok")
    /\ UNCHANGED <<queue, toVisit>>

UnsubscribeOne(c, r) ==
    /\ counts[r] > 1
    /\ counts' = [counts EXCEPT ![r] = @ - 1]
    /\ Settle(c, "ok")
    /\ UNCHANGED <<queue, toVisit>>

UnsubscribeLast(c, r) ==
    /\ counts[r] = 1
    /\ Accepts
    /\ counts' = [counts EXCEPT ![r] = 0]
    /\ Issue("UNLISTEN", r, c)
    /\ KeyDeleted(r)
    /\ Settle(c, "pending")

\* The UNLISTEN is rejected and the count restored to 1.
UnsubscribeRefused(c, r) ==
    /\ counts[r] = 1
    /\ Refuses
    /\ Settle(c, "failed")
    /\ UNCHANGED <<counts, queue, toVisit>>

UnsubscribeHangs(c, r) ==
    /\ counts[r] = 1
    /\ Hangs
    /\ counts' = [counts EXCEPT ![r] = 0]
    /\ Settle(c, "pending")
    /\ UNCHANGED <<queue, toVisit>>

Unsubscribe(c, r) ==
    /\ \/ UnsubscribeNone(c, r)
       \/ UnsubscribeOne(c, r)
       \/ UnsubscribeLast(c, r)
       \/ UnsubscribeRefused(c, r)
       \/ UnsubscribeHangs(c, r)
    /\ UNCHANGED connVars

-----------------------------------------------------------------------------
(* The server answers the oldest query. *)

Reply ==
    /\ client = "open"
    /\ queue # <<>>
    /\ LET q == Head(queue) IN
          /\ listened' = IF q.op = "LISTEN" THEN listened \cup {q.ch}
                                            ELSE listened \ {q.ch}
          /\ Settle(q.by, "ok")
    /\ queue' = Tail(queue)
    /\ UNCHANGED <<counts, client, reconnect, toVisit, reconnectTimer,
                   backoff, destroyed, faults>>

\* The handler that awaited the call goes on with its result.
Resume(c) ==
    /\ promise[c] \in {"ok", "failed"}
    /\ promise' = [promise EXCEPT ![c] = "none"]

-----------------------------------------------------------------------------
(* Failure and recovery of the connection. *)

Uncapped == 2 * backoff  \* mutant of Doubled
Doubled == IF 2 * backoff < MaxBackoff THEN 2 * backoff ELSE MaxBackoff

ScheduleWhenIdle ==  \* mutant of ScheduleReconnect
    IF destroyed \/ reconnectTimer \/ reconnect # "idle"
    THEN UNCHANGED <<reconnectTimer, backoff>>
    ELSE reconnectTimer' = TRUE /\ backoff' = Doubled

ScheduleReconnect ==
    IF destroyed \/ reconnectTimer
    THEN UNCHANGED <<reconnectTimer, backoff>>
    ELSE reconnectTimer' = TRUE /\ backoff' = Doubled

\* The client emits "error".  A doReconnect in ensureListenChannels fails with
\* it; its catch finds the timer already set.
ConnectionLost ==
    /\ client = "open"
    /\ faults < MaxFaults
    /\ faults' = faults + 1
    /\ client' = "dead"
    /\ RejectPending
    /\ reconnect' = "idle"
    /\ ScheduleReconnect
    /\ UNCHANGED destroyed

\* The timer calls doReconnect, which drops the old client and awaits its end.
ReconnectTimer ==
    /\ reconnectTimer
    /\ reconnectTimer' = FALSE
    /\ reconnect' = IF destroyed THEN "idle" ELSE "ending"
    /\ UNCHANGED <<counts, client, queue, listened, toVisit, backoff,
                   destroyed, promise, faults>>

ForgetsRooms ==  \* mutant of NewClient
    /\ reconnect = "ending"
    /\ client' = "connecting"
    /\ queue' = <<>>
    /\ listened' = {}
    /\ toVisit' = GlobalChannels
    /\ reconnect' = "connecting"
    /\ UNCHANGED <<counts, reconnectTimer, backoff, destroyed, promise, faults>>

\* end() has settled: a new client takes the place of the old one.
NewClient ==
    /\ reconnect = "ending"
    /\ client' = "connecting"
    /\ queue' = <<>>
    /\ listened' = {}
    /\ toVisit' = Wanted
    /\ reconnect' = "connecting"
    /\ UNCHANGED <<counts, reconnectTimer, backoff, destroyed, promise, faults>>

ResetsOnConnect ==  \* mutant of Connected
    /\ reconnect = "connecting"
    /\ client' = "open"
    /\ reconnect' = "ensuring"
    /\ backoff' = InitialBackoff
    /\ UNCHANGED <<counts, queue, listened, toVisit, reconnectTimer,
                   destroyed, promise, faults>>

Connected ==
    /\ reconnect = "connecting"
    /\ client' = "open"
    /\ reconnect' = "ensuring"
    /\ UNCHANGED <<counts, queue, listened, toVisit, reconnectTimer,
                   backoff, destroyed, promise, faults>>

GivesUp ==  \* mutant of ConnectFailed
    /\ reconnect = "connecting"
    /\ faults < MaxFaults
    /\ faults' = faults + 1
    /\ client' = "failed"
    /\ RejectPending
    /\ reconnect' = "idle"
    /\ UNCHANGED <<reconnectTimer, backoff, destroyed>>

ConnectFailed ==
    /\ reconnect = "connecting"
    /\ faults < MaxFaults
    /\ faults' = faults + 1
    /\ client' = "failed"
    /\ RejectPending
    /\ reconnect' = "idle"
    /\ ScheduleReconnect
    /\ UNCHANGED destroyed

\* ensureListenChannels issues one LISTEN at a time: presence, typing, rooms.
EnsureIdle == \A i \in DOMAIN queue : queue[i].by # "ensure"

EnsureOrder(ch) ==
    \/ ch = "presence"
    \/ ch = "typing" /\ "presence" \notin toVisit
    \/ ch \in Rooms /\ toVisit \cap GlobalChannels = {}

EnsureListen(ch) ==
    /\ reconnect = "ensuring"
    /\ EnsureIdle
    /\ ch \in toVisit
    /\ EnsureOrder(ch)
    /\ Issue("LISTEN", ch, "ensure")
    /\ toVisit' = toVisit \ {ch}
    /\ UNCHANGED <<counts, client, listened, reconnect, reconnectTimer,
                   backoff, destroyed, promise, faults>>

EnsureDone ==
    /\ reconnect = "ensuring"
    /\ EnsureIdle
    /\ toVisit = {}
    /\ reconnect' = "idle"
    /\ backoff' = InitialBackoff
    /\ UNCHANGED <<counts, client, queue, listened, toVisit, reconnectTimer,
                   destroyed, promise, faults>>

LeavesTimer ==  \* mutant of Destroy
    /\ ~destroyed
    /\ destroyed' = TRUE
    /\ client' = "dead"
    /\ RejectPending
    /\ reconnect' = IF reconnect = "ending" THEN "ending" ELSE "idle"
    /\ UNCHANGED <<reconnectTimer, backoff, faults>>

\* onModuleDestroy: no more reconnects, and end() on the present client.  A
\* doReconnect that still awaits the end of the old client is not stopped.
Destroy ==
    /\ ~destroyed
    /\ destroyed' = TRUE
    /\ reconnectTimer' = FALSE
    /\ client' = "dead"
    /\ RejectPending
    /\ reconnect' = IF reconnect = "ending" THEN "ending" ELSE "idle"
    /\ UNCHANGED <<backoff, faults>>

-----------------------------------------------------------------------------
\* What goes on in the service without being called.
Internally ==
    \/ Reply
    \/ ConnectionLost
    \/ ReconnectTimer
    \/ NewClient
    \/ Connected
    \/ ConnectFailed
    \/ \E ch \in Channels : EnsureListen(ch)
    \/ EnsureDone
    \/ Destroy

\* The rest of the program, unconstrained: any caller subscribes or
\* unsubscribes whenever it is not awaiting, and anyone may unsubscribe
\* without awaiting.
Called ==
    \/ \E c \in Callers, r \in Rooms :
          /\ promise[c] = "none"
          /\ \/ counts[r] < MaxSubscribers /\ Subscribe(c, r)
             \/ Unsubscribe(c, r)
    \/ \E r \in Rooms : Unsubscribe("detached", r)
    \/ \E c \in Callers : Resume(c) /\ UNCHANGED <<counts, queue, toVisit, connVars>>

ListenNext == Internally \/ Called

ListenSpec == ListenInit /\ [][ListenNext]_listenVars

\* The server answers, timers fire, closing and connecting come to an end.
\* Nothing obliges a caller to call, a connection to break or Nest to shut down.
\* The keys of a Map are met in insertion order, so a key that is added while
\* the loop runs cannot overtake an older one: each is reached in the end.
ListenFairness ==
    /\ WF_listenVars(Reply)
    /\ WF_listenVars(ReconnectTimer)
    /\ WF_listenVars(NewClient)
    /\ WF_listenVars(Connected)
    /\ \A ch \in Channels : SF_listenVars(EnsureListen(ch))
    /\ WF_listenVars(EnsureDone)

FairListenSpec == ListenSpec /\ ListenFairness

-----------------------------------------------------------------------------
(* Properties *)

\* Whether the connection listens on ch once the queue has been answered: the
\* last query about ch decides, and without one the server's present state.
Effective(ch) ==
    \/ \E i \in DOMAIN queue :
          /\ queue[i].ch = ch
          /\ queue[i].op = "LISTEN"
          /\ \A j \in DOMAIN queue : j > i => queue[j].ch # ch
    \/ ch \in listened /\ \A i \in DOMAIN queue : queue[i].ch # ch

\* On a connection that is not lost, the channels the node means to listen on
\* (the global ones and every room with a positive count) are exactly those
\* whose LISTEN is in force, on its way, or still to be issued by
\* ensureListenChannels -- however subscribe, unsubscribe and the
\* re-subscription loop interleave.
ListenIntent ==
    Accepts => \A ch \in Channels : ch \in Wanted <=> Effective(ch) \/ ch \in toVisit

\* The reference counts mean what the comment on roomSubscriptionCounts says:
\* once a connected client has no query pending and no re-subscription is
\* running, the server delivers the global channels and exactly the rooms
\* whose count is positive.
SettledListens ==
    client = "open" /\ reconnect = "idle" /\ queue = <<>> => listened = Wanted

\* A listen client that broke or could not connect is always about to be
\* replaced: a timer is set or doReconnect is on its way (scheduleReconnect is
\* reached from the error event and from doReconnect's catch), unless the
\* module is being destroyed.
RecoveryUnderWay ==
    client \in {"dead", "failed"} /\ ~destroyed => reconnectTimer \/ reconnect = "ending"

\* The phases of doReconnect and the state of the client go together: what ends
\* is a broken client, what connects is a fresh one, and channels are still to
\* be visited only while a new client is set up.  A reconnect is scheduled only
\* for a broken client, and never by a destroyed module.
ConnectionPhases ==
    /\ client = "connecting" <=> reconnect = "connecting"
    /\ reconnect = "ensuring" => client = "open"
    /\ reconnect = "ending" => client \in {"dead", "failed"}
    /\ toVisit # {} => reconnect \in {"connecting", "ensuring"}
    /\ reconnectTimer => client \in {"dead", "failed"} /\ reconnect = "idle" /\ ~destroyed

\* reconnectBackoffMs falls back to its initial value only when every wanted
\* channel is listened on, or will be when the queue is answered.
BackoffFallsWhenListening ==
    [][backoff' < backoff => client = "open" /\ \A ch \in Wanted : Effective(ch)]_listenVars

\* A subscribed room does not stay deaf: when a room is counted, the server
\* comes to deliver it, or it is unsubscribed, however often the connection
\* broke (MaxFaults times) in between.
CountedIsListened ==
    \A r \in Rooms : counts[r] > 0 ~> (r \in listened \/ counts[r] = 0 \/ destroyed)

=============================================================================
