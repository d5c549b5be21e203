-------------------------- MODULE ListenClientProofs --------------------------
(***************************************************************************)
(* Proofs about ListenClient for any rooms, callers, back-off limits and   *)
(* number of broken connections.  The inductive invariant is ListenInv:    *)
(* ListenIntent says what the queue of LISTEN and UNLISTEN amounts to, and *)
(* is preserved only together with ConnectionPhases, which says when the   *)
(* code that changes it can run at all.                                    *)
(***************************************************************************)
EXTENDS ListenClient, SequenceTheorems, TLAPS

ListenInv ==
    /\ TypeOK
    /\ ConnectionPhases
    /\ RecoveryUnderWay
    /\ ListenIntent

\* A query joins the queue at its end.
LEMMA IssueType ==
    ASSUME queue \in Seq(Query), NEW op \in {"LISTEN", "UNLISTEN"}, NEW ch \in Channels,
           NEW by \in Callers \cup Internal, Issue(op, ch, by)
    PROVE  queue' \in Seq(Query)
  BY DEF Issue, Query

\* The result of a call keeps the promises well typed.
LEMMA SettleType ==
    ASSUME TypeOK, NEW c, NEW result \in {"none", "pending", "ok", "failed"},
           Settle(c, result)
    PROVE  promise' \in [Callers -> {"none", "pending", "ok", "failed"}]
  BY DEF Settle, TypeOK

\* Rejecting what is pending leaves a well-typed state and nothing to visit.
LEMMA RejectType ==
    ASSUME TypeOK, RejectPending
    PROVE  /\ counts' \in [Rooms -> Nat]
           /\ promise' \in [Callers -> {"none", "pending", "ok", "failed"}]
           /\ queue' \in Seq(Query)
           /\ listened' = {}
           /\ toVisit' = {}
  <1>1. \A r \in Rooms : RolledBack(r) \in Nat
    BY DEF RolledBack, TypeOK
  <1> QED
    BY <1>1 DEF RejectPending, TypeOK

\* The back-off never exceeds its limit and scheduling never lowers it.
LEMMA ScheduleBackoff ==
    ASSUME TypeOK, ScheduleReconnect
    PROVE  /\ backoff' \in InitialBackoff..MaxBackoff
           /\ reconnectTimer' \in BOOLEAN
           /\ backoff <= backoff'
  <1>1. /\ backoff \in Nat
        /\ InitialBackoff <= backoff
        /\ backoff <= MaxBackoff
        /\ reconnectTimer \in BOOLEAN
    BY ListenAssumption DEF TypeOK
  <1>2. CASE destroyed \/ reconnectTimer
    BY <1>1, <1>2, ListenAssumption DEF ScheduleReconnect
  <1>3. CASE ~(destroyed \/ reconnectTimer)
    <2>1. reconnectTimer' = TRUE /\ backoff' = Doubled
      BY <1>3 DEF ScheduleReconnect
    <2>2. /\ Doubled \in InitialBackoff..MaxBackoff
          /\ backoff <= Doubled
      BY <1>1, ListenAssumption DEF Doubled
    <2> QED
      BY <2>1, <2>2
  <1> QED
    BY <1>2, <1>3

-----------------------------------------------------------------------------
(* What a step does, in the cases the proofs distinguish. *)

\* A call of subscribe or unsubscribe leaves the connection alone.
Calls(by, r) == Subscribe(by, r) \/ Unsubscribe(by, r)

LEMMA CallType ==
    ASSUME TypeOK, NEW by \in Callers \cup Internal, NEW r \in Rooms, Calls(by, r)
    PROVE  TypeOK'
  <1>1. r \in Channels
    BY DEF Channels
  <1>2. counts' \in [Rooms -> Nat]
    BY DEF Calls, Subscribe, Unsubscribe, SubscribeAgain, SubscribeFirst, SubscribeRefused,
           SubscribeHangs, UnsubscribeNone, UnsubscribeOne, UnsubscribeLast,
           UnsubscribeRefused, UnsubscribeHangs, TypeOK
  <1>3. queue' \in Seq(Query)
    BY <1>1, IssueType
    DEF Calls, Subscribe, Unsubscribe, SubscribeAgain, SubscribeFirst, SubscribeRefused,
        SubscribeHangs, UnsubscribeNone, UnsubscribeOne, UnsubscribeLast,
        UnsubscribeRefused, UnsubscribeHangs, TypeOK
  <1>4. toVisit' \subseteq Channels
    BY <1>1
    DEF Calls, Subscribe, Unsubscribe, SubscribeAgain, SubscribeFirst, SubscribeRefused,
        SubscribeHangs, UnsubscribeNone, UnsubscribeOne, UnsubscribeLast,
        UnsubscribeRefused, UnsubscribeHangs, TypeOK, KeyAdded, KeyDeleted
  <1>5. promise' \in [Callers -> {"none", "pending", "ok", "failed"}]
    BY SettleType
    DEF Calls, Subscribe, Unsubscribe, SubscribeAgain, SubscribeFirst, SubscribeRefused,
        SubscribeHangs, UnsubscribeNone, UnsubscribeOne, UnsubscribeLast,
        UnsubscribeRefused, UnsubscribeHangs
  <1>6. UNCHANGED connVars
    BY DEF Calls, Subscribe, Unsubscribe
  <1> QED
    BY <1>2, <1>3, <1>4, <1>5, <1>6 DEF TypeOK, connVars

\* Every step keeps the types.
LEMMA TypeStep ==
    ASSUME TypeOK, [ListenNext]_listenVars
    PROVE  TypeOK'
  <1>1. CASE Reply
    <2>1. Head(queue) \in Query /\ Tail(queue) \in Seq(Query)
      BY <1>1 DEF Reply, TypeOK
    <2>2. listened' \subseteq Channels
      BY <1>1, <2>1 DEF Reply, TypeOK, Query
    <2>3. promise' \in [Callers -> {"none", "pending", "ok", "failed"}]
      BY <1>1, SettleType DEF Reply
    <2> QED
      BY <1>1, <2>1, <2>2, <2>3 DEF Reply, TypeOK
  <1>2. CASE ConnectionLost
    BY <1>2, RejectType, ScheduleBackoff, ListenAssumption DEF ConnectionLost, TypeOK
  <1>3. CASE ReconnectTimer
    BY <1>3 DEF ReconnectTimer, TypeOK
  <1>4. CASE NewClient
    BY <1>4 DEF NewClient, TypeOK, Wanted, Counted, Channels
  <1>5. CASE Connected
    BY <1>5 DEF Connected, TypeOK
  <1>6. CASE ConnectFailed
    BY <1>6, RejectType, ScheduleBackoff, ListenAssumption DEF ConnectFailed, TypeOK
  <1>7. ASSUME NEW ch \in Channels, EnsureListen(ch)
        PROVE  TypeOK'
    <2>1. queue' \in Seq(Query)
      BY <1>7, IssueType DEF EnsureListen, TypeOK, Internal
    <2> QED
      BY <1>7, <2>1 DEF EnsureListen, TypeOK
  <1>8. CASE EnsureDone
    BY <1>8, ListenAssumption DEF EnsureDone, TypeOK
  <1>9. CASE Destroy
    BY <1>9, RejectType DEF Destroy, TypeOK
  <1>10. ASSUME NEW c \in Callers, Resume(c), UNCHANGED <<counts, queue, toVisit, connVars>>
         PROVE  TypeOK'
    BY <1>10 DEF Resume, TypeOK, connVars
  <1>11. CASE UNCHANGED listenVars
    BY <1>11 DEF listenVars, TypeOK
  <1> QED
    BY <1>1, <1>2, <1>3, <1>4, <1>5, <1>6, <1>7, <1>8, <1>9, <1>10, <1>11, CallType
    DEF ListenNext, Internally, Called, Calls, Internal

\* ... and the phases of doReconnect in step with the client.
LEMMA PhasesStep ==
    ASSUME TypeOK, ConnectionPhases, RecoveryUnderWay, [ListenNext]_listenVars
    PROVE  ConnectionPhases' /\ RecoveryUnderWay'
  <1>1. CASE Reply
    BY <1>1 DEF Reply, ConnectionPhases, RecoveryUnderWay
  <1>2. CASE ConnectionLost
    BY <1>2 DEF ConnectionLost, RejectPending, ScheduleReconnect, ConnectionPhases,
                RecoveryUnderWay, TypeOK
  <1>3. CASE ReconnectTimer
    BY <1>3 DEF ReconnectTimer, ConnectionPhases, RecoveryUnderWay
  <1>4. CASE NewClient
    BY <1>4 DEF NewClient, ConnectionPhases, RecoveryUnderWay
  <1>5. CASE Connected
    BY <1>5 DEF Connected, ConnectionPhases, RecoveryUnderWay
  <1>6. CASE ConnectFailed
    BY <1>6 DEF ConnectFailed, RejectPending, ScheduleReconnect, ConnectionPhases,
                RecoveryUnderWay, TypeOK
  <1>7. ASSUME NEW ch \in Channels, EnsureListen(ch)
        PROVE  ConnectionPhases' /\ RecoveryUnderWay'
    BY <1>7 DEF EnsureListen, ConnectionPhases, RecoveryUnderWay
  <1>8. CASE EnsureDone
    BY <1>8 DEF EnsureDone, ConnectionPhases, RecoveryUnderWay
  <1>9. CASE Destroy
    BY <1>9 DEF Destroy, RejectPending, ConnectionPhases, RecoveryUnderWay
  <1>10. ASSUME NEW by \in Callers \cup Internal, NEW r \in Rooms, Calls(by, r)
         PROVE  ConnectionPhases' /\ RecoveryUnderWay'
    <2>1. UNCHANGED connVars
      BY <1>10 DEF Calls, Subscribe, Unsubscribe
    <2>2. toVisit' # {} => toVisit # {} \/ reconnect \in {"connecting", "ensuring"}
      BY <1>10
      DEF Calls, Subscribe, Unsubscribe, SubscribeAgain, SubscribeFirst, SubscribeRefused,
          SubscribeHangs, UnsubscribeNone, UnsubscribeOne, UnsubscribeLast,
          UnsubscribeRefused, UnsubscribeHangs, KeyAdded, KeyDeleted
    <2> QED
      BY <2>1, <2>2 DEF connVars, ConnectionPhases, RecoveryUnderWay
  <1>11. ASSUME UNCHANGED <<toVisit, connVars>>
         PROVE  ConnectionPhases' /\ RecoveryUnderWay'
    BY <1>11 DEF connVars, ConnectionPhases, RecoveryUnderWay
  <1> QED
    BY <1>1, <1>2, <1>3, <1>4, <1>5, <1>6, <1>7, <1>8, <1>9, <1>10, <1>11
    DEF ListenNext, Internally, Called, Calls, Internal, listenVars, connVars

-----------------------------------------------------------------------------
(* What the queue amounts to. *)

\* A query that joins the queue decides about its own channel and no other.
LEMMA EffectiveIssue ==
    ASSUME queue \in Seq(Query), UNCHANGED listened, NEW op, NEW ch \in Channels, NEW by,
           Issue(op, ch, by), NEW d \in Channels
    PROVE  Effective(d)' <=> IF d = ch THEN op = "LISTEN" ELSE Effective(d)
  <1> DEFINE n == Len(queue)
  <1>1. /\ n \in Nat
        /\ DOMAIN queue = 1..n
        /\ DOMAIN queue' = 1..(n + 1)
        /\ \A i \in 1..n : queue'[i] = queue[i]
        /\ queue'[n + 1].op = op
        /\ queue'[n + 1].ch = ch
    BY DEF Issue
  <1>2. CASE d = ch
    BY <1>1, <1>2 DEF Effective
  <1>3. CASE d # ch
    BY <1>1, <1>3 DEF Effective
  <1> QED
    BY <1>2, <1>3

\* An answer moves a decision from the queue to the server.
LEMMA EffectiveReply ==
    ASSUME TypeOK, Reply, NEW d \in Channels
    PROVE  Effective(d)' <=> Effective(d)
  <1> DEFINE n == Len(queue)
  <1>1. queue \in Seq(Query) /\ queue # <<>> /\ queue' = Tail(queue)
    BY DEF Reply, TypeOK
  <1>2. n \in Nat /\ n > 0 /\ DOMAIN queue = 1..n
    BY <1>1
  <1>3. /\ Len(queue') = n - 1
        /\ queue' \in Seq(Query)
        /\ \A i \in 1..(n - 1) : queue'[i] = queue[i + 1]
    BY <1>1, HeadTailProperties
  <1>4. DOMAIN queue' = 1..(n - 1)
    BY <1>3
  <1>5. /\ Head(queue) = queue[1]
        /\ queue[1] \in Query
    BY <1>1, <1>2
  <1>6. listened' = IF queue[1].op = "LISTEN" THEN listened \cup {queue[1].ch}
                                              ELSE listened \ {queue[1].ch}
    BY <1>5 DEF Reply
  <1> HIDE DEF n
  <1>7. CASE \E i \in 2..n : queue[i].ch = d
    <2>1. ~(\A i \in DOMAIN queue : queue[i].ch # d)
      BY <1>2, <1>7
    <2>2. ~(\A i \in DOMAIN queue' : queue'[i].ch # d)
      <3>1. PICK i \in 2..n : queue[i].ch = d
        BY <1>7
      <3>2. i - 1 \in DOMAIN queue' /\ queue'[i - 1] = queue[i]
        BY <1>2, <1>3, <1>4, <3>1
      <3> QED
        BY <3>1, <3>2
    <2>3. Effective(d) => Effective(d)'
      <3>1. SUFFICES ASSUME NEW i \in DOMAIN queue, queue[i].ch = d, queue[i].op = "LISTEN",
                            \A j \in DOMAIN queue : j > i => queue[j].ch # d
                     PROVE  Effective(d)'
        BY <2>1 DEF Effective
      <3>2. i \in 2..n
        BY <1>2, <1>7, <3>1
      <3>3. i - 1 \in DOMAIN queue' /\ queue'[i - 1] = queue[i]
        BY <1>2, <1>3, <1>4, <3>2
      <3>4. \A j \in DOMAIN queue' : j > i - 1 => queue'[j].ch # d
        <4>1. SUFFICES ASSUME NEW j \in DOMAIN queue', j > i - 1
                       PROVE  queue'[j].ch # d
          OBVIOUS
        <4>2. j + 1 \in DOMAIN queue /\ j + 1 > i /\ queue'[j] = queue[j + 1]
          BY <1>2, <1>3, <1>4, <3>2, <4>1
        <4> QED
          BY <3>1, <4>2
      <3> QED
        BY <3>1, <3>3, <3>4 DEF Effective
    <2>4. Effective(d)' => Effective(d)
      <3>1. SUFFICES ASSUME NEW i \in DOMAIN queue', queue'[i].ch = d, queue'[i].op = "LISTEN",
                            \A j \in DOMAIN queue' : j > i => queue'[j].ch # d
                     PROVE  Effective(d)
        BY <2>2 DEF Effective
      <3>2. i + 1 \in DOMAIN queue /\ queue'[i] = queue[i + 1]
        BY <1>2, <1>3, <1>4
      <3>3. \A j \in DOMAIN queue : j > i + 1 => queue[j].ch # d
        <4>1. SUFFICES ASSUME NEW j \in DOMAIN queue, j > i + 1
                       PROVE  queue[j].ch # d
          OBVIOUS
        <4>2. j - 1 \in DOMAIN queue' /\ j - 1 > i /\ queue'[j - 1] = queue[j]
          BY <1>2, <1>3, <1>4, <4>1
        <4> QED
          BY <3>1, <4>2
      <3> QED
        BY <3>1, <3>2, <3>3 DEF Effective
    <2> QED
      BY <2>3, <2>4
  <1>8. CASE \A i \in 2..n : queue[i].ch # d
    <2>1. \A i \in DOMAIN queue' : queue'[i].ch # d
      BY <1>2, <1>3, <1>4, <1>8
    <2>2. Effective(d)' <=> d \in listened'
      BY <2>1 DEF Effective
    <2>3. CASE queue[1].ch = d
      <3>1. Effective(d) <=> queue[1].op = "LISTEN"
        BY <1>2, <1>8, <2>3 DEF Effective
      <3> QED
        BY <1>6, <2>2, <2>3, <3>1
    <2>4. CASE queue[1].ch # d
      <3>1. \A i \in DOMAIN queue : queue[i].ch # d
        BY <1>2, <1>8, <2>4
      <3>2. Effective(d) <=> d \in listened
        BY <3>1 DEF Effective
      <3> QED
        BY <1>6, <2>2, <2>4, <3>2
    <2> QED
      BY <2>3, <2>4
  <1> QED
    BY <1>7, <1>8

LEMMA EffectiveSame ==
    ASSUME UNCHANGED <<queue, listened>>, NEW d
    PROVE  Effective(d)' <=> Effective(d)
  BY DEF Effective

-----------------------------------------------------------------------------
(* ListenIntent *)

\* subscribe and unsubscribe change the count, the queue and the channels still
\* to be visited together.
LEMMA CallIntent ==
    ASSUME TypeOK, ConnectionPhases, ListenIntent,
           NEW by \in Callers \cup Internal, NEW r \in Rooms, Calls(by, r)
    PROVE  ListenIntent'
  <1>1. UNCHANGED connVars
    BY DEF Calls, Subscribe, Unsubscribe
  <1>2. SUFFICES ASSUME Accepts, NEW d \in Channels
                 PROVE  (d \in Wanted)' <=> (Effective(d) \/ d \in toVisit)'
    BY <1>1 DEF ListenIntent, Accepts, connVars
  <1>3. d \in Wanted <=> Effective(d) \/ d \in toVisit
    BY <1>2 DEF ListenIntent
  <1>4. ~Refuses /\ ~Hangs
    BY <1>2 DEF Accepts, Refuses, Hangs, ConnectionPhases
  <1>5. r \in Channels /\ r \notin GlobalChannels
    BY ListenAssumption DEF Channels
  <1>6. CASE SubscribeFirst(by, r)
    <2>1. (d \in Wanted)' <=> d \in Wanted \/ d = r
      BY <1>6 DEF SubscribeFirst, TypeOK, Wanted, Counted
    <2>2. Effective(d)' <=> IF d = r THEN TRUE ELSE Effective(d)
      BY <1>1, <1>5, <1>6, EffectiveIssue DEF SubscribeFirst, TypeOK, connVars
    <2>3. (d \in toVisit)' => d \in toVisit \/ d = r
      BY <1>6 DEF SubscribeFirst, KeyAdded
    <2>4. d \in toVisit => (d \in toVisit)'
      BY <1>6 DEF SubscribeFirst, KeyAdded
    <2> QED
      BY <1>3, <2>1, <2>2, <2>3, <2>4
  <1>7. CASE UnsubscribeLast(by, r)
    <2>1. (d \in Wanted)' <=> d \in Wanted /\ d # r
      BY <1>5, <1>7 DEF UnsubscribeLast, TypeOK, Wanted, Counted
    <2>2. Effective(d)' <=> IF d = r THEN FALSE ELSE Effective(d)
      BY <1>1, <1>5, <1>7, EffectiveIssue DEF UnsubscribeLast, TypeOK, connVars
    <2>3. (d \in toVisit)' <=> d \in toVisit /\ d # r
      BY <1>7 DEF UnsubscribeLast, KeyDeleted
    <2> QED
      BY <1>3, <2>1, <2>2, <2>3
  <1>8. CASE UNCHANGED <<queue, toVisit>> /\ Counted' = Counted
    <2>1. Effective(d)' <=> Effective(d)
      BY <1>1, <1>8, EffectiveSame DEF connVars
    <2> QED
      BY <1>3, <1>8, <2>1 DEF Wanted
  <1>9. SubscribeAgain(by, r) => UNCHANGED <<queue, toVisit>> /\ Counted' = Counted
    BY DEF SubscribeAgain, Counted, TypeOK
  <1>10. UnsubscribeOne(by, r) => UNCHANGED <<queue, toVisit>> /\ Counted' = Counted
    BY DEF UnsubscribeOne, Counted, TypeOK
  <1>11. UnsubscribeNone(by, r) => UNCHANGED <<queue, toVisit>> /\ Counted' = Counted
    BY DEF UnsubscribeNone, Counted
  <1> QED
    BY <1>4, <1>6, <1>7, <1>8, <1>9, <1>10, <1>11
    DEF Calls, Subscribe, Unsubscribe, SubscribeRefused, SubscribeHangs,
        UnsubscribeRefused, UnsubscribeHangs

\* Every step keeps the intent: a broken client has none, a fresh one has all of
\* it still to visit, and a visited channel has its LISTEN in the queue.
LEMMA IntentStep ==
    ASSUME TypeOK, ConnectionPhases, ListenIntent, [ListenNext]_listenVars
    PROVE  ListenIntent'
  <1>1. CASE Reply
    <2>1. SUFFICES ASSUME NEW d \in Channels
                   PROVE  (d \in Wanted)' <=> (Effective(d) \/ d \in toVisit)'
      BY DEF ListenIntent
    <2>2. Effective(d)' <=> Effective(d)
      BY <1>1, EffectiveReply
    <2> QED
      BY <1>1, <2>2 DEF Reply, ListenIntent, Accepts, Wanted, Counted
  <1>2. ASSUME client' \in {"dead", "failed"}
        PROVE  ListenIntent'
    BY <1>2 DEF ListenIntent, Accepts
  <1>3. CASE ReconnectTimer
    BY <1>2, <1>3 DEF ReconnectTimer, ConnectionPhases
  <1>4. CASE NewClient
    <2>1. \A d \in Channels : ~Effective(d)'
      BY <1>4 DEF NewClient, Effective
    <2>2. toVisit' = Wanted'
      BY <1>4 DEF NewClient, Wanted, Counted
    <2> QED
      BY <2>1, <2>2 DEF ListenIntent
  <1>5. ASSUME UNCHANGED <<counts, queue, listened, toVisit>>, Accepts' => Accepts
        PROVE  ListenIntent'
    <2>1. \A d \in Channels : Effective(d)' <=> Effective(d)
      BY <1>5, EffectiveSame
    <2> QED
      BY <1>5, <2>1 DEF ListenIntent, Wanted, Counted
  <1>6. CASE Connected
    BY <1>5, <1>6 DEF Connected, Accepts, ConnectionPhases
  <1>7. ASSUME NEW ch \in Channels, EnsureListen(ch)
        PROVE  ListenIntent'
    <2>1. Accepts
      BY <1>7 DEF EnsureListen, ConnectionPhases, Accepts
    <2>2. SUFFICES ASSUME NEW d \in Channels
                   PROVE  (d \in Wanted)' <=> (Effective(d) \/ d \in toVisit)'
      BY DEF ListenIntent
    <2>3. Effective(d)' <=> IF d = ch THEN TRUE ELSE Effective(d)
      BY <1>7, EffectiveIssue DEF EnsureListen, TypeOK
    <2>4. (d \in toVisit)' <=> d \in toVisit /\ d # ch
      BY <1>7 DEF EnsureListen
    <2>5. ch \in toVisit
      BY <1>7 DEF EnsureListen
    <2> QED
      BY <1>7, <2>1, <2>3, <2>4, <2>5 DEF EnsureListen, ListenIntent, Wanted, Counted
  <1>8. CASE EnsureDone
    BY <1>5, <1>8 DEF EnsureDone, Accepts
  <1>9. CASE ConnectionLost \/ ConnectFailed \/ Destroy
    BY <1>2, <1>9 DEF ConnectionLost, ConnectFailed, Destroy
  <1>10. ASSUME UNCHANGED <<counts, queue, toVisit, connVars>>
         PROVE  ListenIntent'
    BY <1>5, <1>10 DEF connVars, Accepts
  <1> QED
    BY <1>1, <1>3, <1>4, <1>6, <1>7, <1>8, <1>9, <1>10, CallIntent
    DEF ListenNext, Internally, Called, Calls, Internal, listenVars, connVars

-----------------------------------------------------------------------------
(* Theorems *)

LEMMA InvInit ==
    ASSUME ListenInit
    PROVE  ListenInv
  <1>1. TypeOK
    <2>1. backoff \in InitialBackoff..MaxBackoff /\ faults \in 0..MaxFaults
      BY ListenAssumption DEF ListenInit
    <2>2. queue \in Seq(Query)
      BY DEF ListenInit
    <2>3. listened \subseteq Channels /\ toVisit \subseteq Channels
      BY DEF ListenInit, Channels
    <2> QED
      BY <2>1, <2>2, <2>3 DEF ListenInit, TypeOK
  <1>2. ConnectionPhases /\ RecoveryUnderWay
    BY DEF ListenInit, ConnectionPhases, RecoveryUnderWay
  <1>3. ListenIntent
    BY DEF ListenInit, ListenIntent, Effective, Wanted, Counted
  <1> QED
    BY <1>1, <1>2, <1>3 DEF ListenInv

LEMMA InvStep ==
    ASSUME ListenInv, [ListenNext]_listenVars
    PROVE  ListenInv'
  BY TypeStep, PhasesStep, IntentStep DEF ListenInv

\* ListenInv is an invariant of the LISTEN client.
THEOREM ListenInvariant == ListenSpec => []ListenInv
  <1>1. ListenInit => ListenInv
    BY InvInit
  <1>2. ListenInv /\ [ListenNext]_listenVars => ListenInv'
    BY InvStep
  <1> QED
    BY <1>1, <1>2, PTL DEF ListenSpec

\* The state of the LISTEN client is well typed (postgres.service.ts, the fields
\* of PostgresService).
THEOREM TypeCorrect == ListenSpec => []TypeOK
  <1>1. ListenInv => TypeOK
    BY DEF ListenInv
  <1> QED
    BY <1>1, ListenInvariant, PTL

\* The channels the node means to listen on are those whose LISTEN is in force,
\* queued or still to be visited, for any number of rooms and callers.
THEOREM IntentHolds == ListenSpec => []ListenIntent
  <1>1. ListenInv => ListenIntent
    BY DEF ListenInv
  <1> QED
    BY <1>1, ListenInvariant, PTL

\* A connected client that has nothing pending listens on exactly the global
\* channels and the rooms that are counted.
THEOREM SettledCorrect == ListenSpec => []SettledListens
  <1>1. ListenInv => SettledListens
    <2>1. SUFFICES ASSUME ListenInv, client = "open", reconnect = "idle", queue = <<>>
                   PROVE  listened = Wanted
      BY DEF SettledListens
    <2>2. \A ch \in Channels : Effective(ch) <=> ch \in listened
      BY <2>1 DEF Effective
    <2>3. toVisit = {}
      BY <2>1 DEF ListenInv, ConnectionPhases
    <2>4. listened \subseteq Channels /\ Wanted \subseteq Channels
      BY <2>1 DEF ListenInv, TypeOK, Wanted, Counted, Channels
    <2>5. \A ch \in Channels : ch \in Wanted <=> ch \in listened
      BY <2>1, <2>2, <2>3 DEF ListenInv, ListenIntent, Accepts
    <2> QED
      BY <2>4, <2>5
  <1> QED
    BY <1>1, ListenInvariant, PTL

\* doReconnect and its timer are in step with the client, in every phase and after a
\* shutdown.
THEOREM PhasesHold == ListenSpec => []ConnectionPhases
  <1>1. ListenInv => ConnectionPhases
    BY DEF ListenInv
  <1> QED
    BY <1>1, ListenInvariant, PTL

\* A broken client is always about to be replaced.
THEOREM RecoveryHolds == ListenSpec => []RecoveryUnderWay
  <1>1. ListenInv => RecoveryUnderWay
    BY DEF ListenInv
  <1> QED
    BY <1>1, ListenInvariant, PTL

\* The back-off starts again from its initial value only when all wanted
\* channels are listened on or will be (doReconnect, after ensureListenChannels).
THEOREM BackoffCorrect == ListenSpec => BackoffFallsWhenListening
  <1> DEFINE Falls == backoff' < backoff
                          => client = "open" /\ \A ch \in Wanted : Effective(ch)
  <1>1. ASSUME ListenInv, [ListenNext]_listenVars
        PROVE  [Falls]_listenVars
    <2>1. CASE EnsureDone
      <3>1. client = "open" /\ toVisit = {}
        BY <1>1, <2>1 DEF EnsureDone, ListenInv, ConnectionPhases
      <3>2. Wanted \subseteq Channels
        BY DEF Wanted, Counted, Channels
      <3>3. \A ch \in Wanted : Effective(ch)
        BY <1>1, <3>1, <3>2 DEF ListenInv, ListenIntent, Accepts
      <3> QED
        BY <3>1, <3>3
    <2>2. backoff \in Nat
      BY <1>1, ListenAssumption DEF ListenInv, TypeOK
    <2>3. CASE ConnectionLost \/ ConnectFailed
      <3>1. backoff <= backoff' /\ backoff' \in Nat
        BY <1>1, <2>3, ScheduleBackoff, ListenAssumption
        DEF ConnectionLost, ConnectFailed, ListenInv
      <3> QED
        BY <2>2, <3>1
    <2>4. CASE UNCHANGED backoff
      BY <2>2, <2>4
    <2> QED
      BY <1>1, <2>1, <2>3, <2>4
      DEF ListenNext, Internally, Called, Subscribe, Unsubscribe, connVars, listenVars,
          Reply, ReconnectTimer, NewClient, Connected, EnsureListen, Destroy
  <1> QED
    BY <1>1, ListenInvariant, PTL DEF ListenSpec, BackoffFallsWhenListening

=============================================================================
