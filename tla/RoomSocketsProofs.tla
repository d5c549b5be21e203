------------------------- MODULE RoomSocketsProofs -------------------------
(***************************************************************************)
(* Proofs about RoomSockets, for all values of its constants: the node     *)
(* uses the LISTEN client as ListenClient allows, which brings the         *)
(* theorems of ListenClientProofs into the node, its state is well typed,  *)
(* a closed socket is registered nowhere, and a client that was sent       *)
(* joined_room is served.                                                  *)
(*                                                                         *)
(* That a handler calls only when it awaits nothing rests on Owned: a      *)
(* query in the queue belongs to a caller that awaits it, and to one call  *)
(* of its.  That counts stay within MaxSubscribers rests on JoinsBounded.  *)
(* That a joined client is served rests on ServeInv: its socket is among   *)
(* those of the room from the frame on, so the room is not given up.       *)
(***************************************************************************)
EXTENDS RoomSockets, ListenClientProofs, FiniteSetTheorems

\* Each query of a caller is the one that the caller awaits.
Owned == \A i \in DOMAIN queue : queue[i].by \in Callers =>
            /\ promise[queue[i].by] = "pending"
            /\ \A j \in DOMAIN queue : queue[j].by = queue[i].by => j = i

\* A handler that is not at an await of the LISTEN client has called nothing.
Awaiting == \A h \in Callers : promise[h] # "none" => handler[h].pc \in {"subscribe", "unsubscribe"}

Joining(r) == {h \in Callers : handler[h].pc = "member" /\ handler[h].room = r}

\* What JoinsAllowed leaves room for: the handlers H of a room at count n.
Bounded(H, n) ==
    /\ IsFiniteSet(H)
    /\ H # {} => Cardinality(H) <= MaxSubscribers - 1 /\ n + Cardinality(H) <= MaxSubscribers

JoinsBounded == \A r \in Rooms : Bounded(Joining(r), counts[r])

\* A handler that is at work has a socket and a room.
AtWork == \A h \in Callers : handler[h].pc # "idle" =>
              handler[h].sock \in Sockets /\ handler[h].room \in Rooms

\* A socket that is not connected is registered nowhere.
OnlyOpenRegistered ==
    \A s \in Sockets : conn[s] \in {"new", "closed"} =>
        /\ \A r \in Rooms : s \notin roomSockets[r]
        /\ \A u \in Users : s \notin userSockets[u]

NodeInv ==
    /\ NodeTypeOK
    /\ Owned
    /\ Awaiting
    /\ JoinsBounded
    /\ AtWork
    /\ OnlyOpenRegistered

-----------------------------------------------------------------------------
(* The LISTEN client *)

\* A caller that calls with nothing awaited, or nobody, adds at most one query,
\* and only to its own promise.
LEMMA OwnedCall ==
    ASSUME TypeOK, Owned, NEW by \in Callers \cup {"detached"}, NEW r \in Rooms,
           by \in Callers => promise[by] = "none", Calls(by, r)
    PROVE  /\ Owned'
           /\ \A h \in Callers : h # by => promise'[h] = promise[h]
  <1>1. "detached" \notin Callers
    BY ListenAssumption DEF Internal
  <1>2. \A h \in Callers : h # by => promise'[h] = promise[h]
    BY DEF Calls, Subscribe, Unsubscribe, SubscribeAgain, SubscribeFirst, SubscribeRefused,
           SubscribeHangs, UnsubscribeNone, UnsubscribeOne, UnsubscribeLast,
           UnsubscribeRefused, UnsubscribeHangs, Settle, TypeOK
  <1>3. by \in Callers => \A i \in DOMAIN queue : queue[i].by # by
    BY DEF Owned
  <1>4. CASE queue' = queue
    BY <1>2, <1>3, <1>4 DEF Owned
  <1>5. CASE \E op \in {"LISTEN", "UNLISTEN"} : Issue(op, r, by) /\ Settle(by, "pending")
    <2> PICK op \in {"LISTEN", "UNLISTEN"} : Issue(op, r, by) /\ Settle(by, "pending")
      BY <1>5
    <2>1. by \in Callers => promise'[by] = "pending"
      BY DEF Settle, TypeOK
    <2>2. Len(queue) \in Nat /\ DOMAIN queue = 1..Len(queue)
      BY DEF TypeOK
    <2>3. /\ DOMAIN queue' = 1..Len(queue) + 1
          /\ \A i \in DOMAIN queue : queue'[i] = queue[i]
          /\ queue'[Len(queue) + 1].by = by
      BY <2>2 DEF Issue, TypeOK
    <2> QED
      BY <1>2, <1>3, <2>1, <2>2, <2>3 DEF Owned
  <1> QED
    BY <1>2, <1>4, <1>5
    DEF Calls, Subscribe, Unsubscribe, SubscribeAgain, SubscribeFirst, SubscribeRefused,
        SubscribeHangs, UnsubscribeNone, UnsubscribeOne, UnsubscribeLast,
        UnsubscribeRefused, UnsubscribeHangs

\* What goes on without being called settles only what is awaited.
LEMMA OwnedInternal ==
    ASSUME TypeOK, Owned, Internally
    PROVE  Owned' /\ \A h \in Callers : promise[h] = "none" => promise'[h] = "none"
  <1>1. CASE Reply
    <2>1. /\ Len(queue) \in Nat /\ DOMAIN queue = 1..Len(queue) /\ 1 \in DOMAIN queue
          /\ DOMAIN queue' = 1..Len(queue) - 1
          /\ \A i \in DOMAIN queue' : queue'[i] = queue[i + 1] /\ i + 1 \in DOMAIN queue
          /\ Head(queue) = queue[1]
      BY <1>1 DEF Reply, TypeOK
    <2>2. \A h \in Callers : h # queue[1].by => promise'[h] = promise[h]
      BY <1>1, <2>1 DEF Reply, Settle, TypeOK
    <2>3. \A i \in DOMAIN queue' : queue'[i].by \in Callers => queue'[i].by # queue[1].by
      BY <2>1 DEF Owned
    <2>4. ASSUME NEW i \in DOMAIN queue', queue'[i].by \in Callers
          PROVE  promise'[queue'[i].by] = "pending"
      BY <2>1, <2>2, <2>3, <2>4 DEF Owned
    <2>5. ASSUME NEW i \in DOMAIN queue', queue'[i].by \in Callers,
                 NEW j \in DOMAIN queue', queue'[j].by = queue'[i].by
          PROVE  j = i
      <3>1. j + 1 = i + 1
        BY <2>1, <2>5 DEF Owned
      <3> QED
        BY <2>1, <3>1
    <2>6. Owned'
      BY <2>4, <2>5 DEF Owned
    <2>7. \A h \in Callers : promise[h] = "none" => h # queue[1].by
      BY <2>1 DEF Owned
    <2> QED
      BY <2>2, <2>6, <2>7
  <1>2. CASE RejectPending
    <2>1. Owned'
      BY <1>2 DEF RejectPending, Owned
    <2>2. \A h \in Callers : promise[h] = "none" => \A i \in DOMAIN queue : queue[i].by # h
      BY DEF Owned
    <2> QED
      BY <1>2, <2>1, <2>2 DEF RejectPending
  <1>3. CASE queue' = <<>> /\ promise' = promise
    BY <1>3 DEF Owned
  <1>4. CASE queue' = queue /\ promise' = promise
    BY <1>4 DEF Owned
  <1>5. ASSUME NEW ch \in Channels, EnsureListen(ch)
        PROVE  Owned' /\ promise' = promise
    <2>1. "ensure" \notin Callers
      BY ListenAssumption DEF Internal
    <2>2. Len(queue) \in Nat /\ DOMAIN queue = 1..Len(queue)
      BY DEF TypeOK
    <2>3. /\ DOMAIN queue' = 1..Len(queue) + 1
          /\ \A i \in DOMAIN queue : queue'[i] = queue[i]
          /\ queue'[Len(queue) + 1].by = "ensure"
          /\ promise' = promise
      BY <1>5, <2>2 DEF EnsureListen, Issue, TypeOK
    <2> QED
      BY <2>1, <2>2, <2>3 DEF Owned
  <1> QED
    BY <1>1, <1>2, <1>3, <1>4, <1>5
    DEF Internally, ConnectionLost, ReconnectTimer, NewClient, Connected, ConnectFailed,
        EnsureDone, Destroy

\* A caller that goes on awaits nothing.
LEMMA OwnedResume ==
    ASSUME TypeOK, Owned, NEW c \in Callers, Resume(c), UNCHANGED queue
    PROVE  /\ Owned'
           /\ promise'[c] = "none"
           /\ \A h \in Callers : h # c => promise'[h] = promise[h]
  <1>1. /\ promise'[c] = "none"
        /\ \A h \in Callers : h # c => promise'[h] = promise[h]
    BY DEF Resume, TypeOK
  <1>2. \A i \in DOMAIN queue : queue[i].by # c
    BY DEF Resume, Owned
  <1> QED
    BY <1>1, <1>2 DEF Owned

\* Only a call, a rejection or a rollback changes a count; a rollback leaves at
\* most 1 where it was less.
LEMMA CountsInternal ==
    ASSUME TypeOK, Internally, NEW r \in Rooms
    PROVE  counts'[r] = counts[r] \/ counts'[r] \in {0, 1}
  <1>1. CASE RejectPending
    BY <1>1 DEF RejectPending, RolledBack
  <1>2. CASE counts' = counts
    BY <1>2
  <1> QED
    BY <1>1, <1>2
    DEF Internally, Reply, ConnectionLost, ReconnectTimer, NewClient, Connected, ConnectFailed,
        EnsureListen, EnsureDone, Destroy

\* A call changes the count of its room only, by one.
LEMMA CountsCall ==
    ASSUME TypeOK, NEW by, NEW r \in Rooms, Calls(by, r)
    PROVE  /\ \A q \in Rooms : q # r => counts'[q] = counts[q]
           /\ counts'[r] <= counts[r] + 1
           /\ Unsubscribe(by, r) => counts'[r] <= counts[r]
  <1>1. \A q \in Rooms : counts[q] \in Nat
    BY DEF TypeOK
  <1> QED
    BY <1>1
    DEF Calls, Subscribe, Unsubscribe, SubscribeAgain, SubscribeFirst, SubscribeRefused,
        SubscribeHangs, UnsubscribeNone, UnsubscribeOne, UnsubscribeLast,
        UnsubscribeRefused, UnsubscribeHangs, TypeOK

-----------------------------------------------------------------------------
(* The steps of the node are steps of the LISTEN client *)

\* A join that goes on to subscribe finds the count below its bound.
LEMMA RoomToJoin ==
    ASSUME NodeInv, NEW h \in Callers, handler[h].pc = "member"
    PROVE  /\ handler[h].room \in Rooms
           /\ counts[handler[h].room] < MaxSubscribers
  <1> DEFINE r == handler[h].room
  <1>1. r \in Rooms /\ h \in Joining(r)
    BY DEF NodeInv, AtWork, Joining
  <1>2. IsFiniteSet(Joining(r)) /\ counts[r] + Cardinality(Joining(r)) <= MaxSubscribers
    BY <1>1 DEF NodeInv, JoinsBounded, Bounded
  <1>3. Cardinality(Joining(r)) \in Nat /\ Cardinality(Joining(r)) # 0
    BY <1>1, <1>2, FS_CardinalityType, FS_EmptySet
  <1>4. counts[r] \in Nat /\ MaxSubscribers \in Nat
    BY <1>1, ListenAssumption DEF NodeInv, NodeTypeOK, TypeOK
  <1> QED
    BY <1>1, <1>2, <1>3, <1>4

\* Each step of the node is one of the LISTEN client, or none.
LEMMA ListenStep ==
    ASSUME NodeInv, [Next]_vars
    PROVE  [ListenNext]_listenVars
  <1>1. ASSUME NEW r \in drops, Drop(r)
        PROVE  ListenNext
    BY <1>1 DEF Drop, NodeInv, NodeTypeOK, ListenNext, Called
  <1>2. ASSUME NEW h \in Callers, JoinMember(h)
        PROVE  ListenNext
    <2>1. promise[h] = "none"
      BY <1>2 DEF JoinMember, NodeInv, Awaiting
    <2> QED
      BY <1>2, <2>1, RoomToJoin DEF JoinMember, ListenNext, Called
  <1>3. ASSUME NEW h \in Callers, LeaveDelete(h)
        PROVE  ListenNext
    <2>1. promise[h] = "none"
      BY <1>3 DEF LeaveDelete, NodeInv, Awaiting
    <2>2. handler[h].room \in Rooms
      BY <1>3 DEF LeaveDelete, NodeInv, AtWork
    <2> QED
      BY <1>3, <2>1, <2>2 DEF LeaveDelete, ListenNext, Called
  <1>4. ASSUME NEW h \in Callers, JoinSubscribed(h) \/ LeaveDone(h)
        PROVE  ListenNext
    BY <1>4 DEF JoinSubscribed, LeaveDone, ListenNext, Called
  <1>5. CASE Listening
    BY <1>5 DEF Listening, ListenNext
  <1>6. CASE Around
    BY <1>6 DEF Around, Connect, ConnectRefused, Close, SocketError, Pong, Vanish, Heartbeat,
                HttpJoin, HttpLeave, Ages, Sweep
  <1>7. ASSUME NEW h \in Callers, JoinNotMember(h) \/ JoinPresence(h) \/ DbFails(h)
        PROVE  UNCHANGED listenVars
    BY <1>7 DEF JoinNotMember, JoinPresence, DbFails
  <1>8. ASSUME NEW h \in Callers, NEW s \in Sockets, NEW r \in Rooms,
               JoinFrame(h, s, r) \/ LeaveFrame(h, s, r)
        PROVE  UNCHANGED listenVars
    BY <1>8 DEF JoinFrame, LeaveFrame
  <1>9. CASE UNCHANGED vars
    BY <1>9 DEF vars
  <1> QED
    BY <1>1, <1>2, <1>3, <1>4, <1>5, <1>6, <1>7, <1>8, <1>9 DEF Next, Step, HandlerStep

-----------------------------------------------------------------------------
(* The invariant *)

\* A step after which fewer handlers are about to subscribe, or as many at a count
\* that is not greater, or at most 1.
LEMMA BoundKept ==
    ASSUME NodeInv, NEW r \in Rooms, NEW H \in SUBSET Joining(r), NEW n \in Nat,
           n <= counts[r] \/ n <= 1 \/ (n <= counts[r] + 1 /\ H # Joining(r))
    PROVE  Bounded(H, n)
  <1>1. Bounded(Joining(r), counts[r]) /\ counts[r] \in Nat /\ MaxSubscribers \in Nat
    BY ListenAssumption DEF NodeInv, NodeTypeOK, TypeOK, JoinsBounded
  <1>2. /\ IsFiniteSet(Joining(r)) /\ IsFiniteSet(H)
        /\ Cardinality(H) <= Cardinality(Joining(r))
        /\ Cardinality(H) = Cardinality(Joining(r)) => H = Joining(r)
    BY <1>1, FS_Subset DEF Bounded
  <1>3. Cardinality(H) \in Nat /\ Cardinality(Joining(r)) \in Nat
    BY <1>2, FS_CardinalityType
  <1>4. CASE H = {}
    BY <1>2, <1>4 DEF Bounded
  <1>5. CASE H # {}
    <2>1. Cardinality(Joining(r)) <= MaxSubscribers - 1
          /\ counts[r] + Cardinality(Joining(r)) <= MaxSubscribers
      BY <1>1, <1>5 DEF Bounded
    <2> QED
      BY <1>1, <1>2, <1>3, <2>1 DEF Bounded
  <1> QED
    BY <1>4, <1>5

\* A join that starts is one more, and JoinsAllowed has made room for it.
LEMMA BoundJoinFrame ==
    ASSUME NodeInv, NEW h \in Callers, NEW s \in Sockets, NEW r \in Rooms, JoinFrame(h, s, r)
    PROVE  JoinsBounded'
  <1>1. handler[h].pc # "member" /\ UNCHANGED counts
    BY DEF JoinFrame, Idle, listenVars
  <1>2. /\ handler' = [handler EXCEPT ![h] = [pc |-> "member", sock |-> s, room |-> r]]
        /\ handler \in [Callers -> Handler]
    BY DEF JoinFrame, NodeInv, NodeTypeOK
  <1>3. ASSUME NEW q \in Rooms, q # r
        PROVE  Joining(q)' = Joining(q)
    BY <1>1, <1>2, <1>3 DEF Joining
  <1>4. Joining(r)' = Joining(r) \cup {h} /\ h \notin Joining(r)
    BY <1>1, <1>2 DEF Joining
  <1>5. Bounded(Joining(r), counts[r]) /\ counts[r] \in Nat /\ MaxSubscribers \in Nat
    BY ListenAssumption DEF NodeInv, NodeTypeOK, TypeOK, JoinsBounded
  <1>6. counts[r] + Cardinality(Joining(r)) < MaxSubscribers - 1
    BY DEF JoinFrame, JoinsAllowed, Joining
  <1>7. /\ IsFiniteSet(Joining(r) \cup {h})
        /\ Cardinality(Joining(r) \cup {h}) = Cardinality(Joining(r)) + 1
        /\ Cardinality(Joining(r)) \in Nat
    BY <1>4, <1>5, FS_AddElement, FS_CardinalityType DEF Bounded
  <1>8. Bounded(Joining(r)', counts'[r])
    BY <1>1, <1>4, <1>5, <1>6, <1>7 DEF Bounded
  <1> QED
    BY <1>1, <1>3, <1>8 DEF NodeInv, JoinsBounded

\* The step of one handler, which ends no later at "member" than it was.
LEMMA BoundHandler ==
    ASSUME NodeInv, NEW h \in Callers, NEW x, x.pc # "member",
           handler' = [handler EXCEPT ![h] = x],
           TypeOK',
           \/ UNCHANGED counts
           \/ handler[h].pc = "member" /\ Subscribe(h, handler[h].room)
           \/ handler[h].room \in Rooms /\ Unsubscribe(h, handler[h].room)
    PROVE  JoinsBounded'
  <1>1. handler \in [Callers -> Handler] /\ TypeOK
    BY DEF NodeInv, NodeTypeOK
  <1>2. \A q \in Rooms : counts[q] \in Nat /\ counts'[q] \in Nat
    BY <1>1 DEF TypeOK
  <1>3. ASSUME NEW q \in Rooms
        PROVE  Bounded(Joining(q)', counts'[q])
    <2>1. Joining(q)' = Joining(q) \ {h}
      BY <1>1 DEF Joining
    <2>2. CASE counts'[q] <= counts[q]
      BY <1>2, <2>1, <2>2, BoundKept
    <2>3. CASE handler[h].pc = "member" /\ q = handler[h].room /\ Subscribe(h, q)
      <3>1. h \in Joining(q)
        BY <2>3 DEF Joining
      <3>2. counts'[q] <= counts[q] + 1
        BY <1>1, <2>3, CountsCall DEF Calls
      <3> QED
        BY <1>2, <2>1, <3>1, <3>2, BoundKept
    <2>4. CASE handler[h].pc = "member" /\ q # handler[h].room /\ Subscribe(h, handler[h].room)
      <3>1. handler[h].room \in Rooms
        BY <2>4 DEF NodeInv, AtWork
      <3> QED
        BY <1>1, <1>2, <2>2, <2>4, <3>1, CountsCall DEF Calls
    <2>5. CASE handler[h].room \in Rooms /\ Unsubscribe(h, handler[h].room)
      BY <1>1, <1>2, <2>2, <2>5, CountsCall DEF Calls
    <2> QED
      BY <1>2, <2>2, <2>3, <2>4, <2>5
  <1> QED
    BY <1>3 DEF JoinsBounded

\* Every step keeps the bound.
LEMMA BoundStep ==
    ASSUME NodeInv, [Next]_vars, TypeOK'
    PROVE  JoinsBounded'
  <1>1. TypeOK /\ handler \in [Callers -> Handler] /\ drops \subseteq Rooms
    BY DEF NodeInv, NodeTypeOK
  <1>2. \A q \in Rooms : counts[q] \in Nat /\ counts'[q] \in Nat
    BY <1>1 DEF TypeOK
  <1>3. CASE UNCHANGED <<counts, handler>>
    BY <1>3 DEF NodeInv, JoinsBounded, Joining
  <1>4. ASSUME UNCHANGED handler,
               \A q \in Rooms : counts'[q] <= counts[q] \/ counts'[q] <= 1
        PROVE  JoinsBounded'
    <2>1. \A q \in Rooms : Joining(q)' = Joining(q)
      BY <1>4 DEF Joining
    <2>2. \A q \in Rooms : Bounded(Joining(q), counts'[q])
      BY <1>2, <1>4, BoundKept
    <2> QED
      BY <2>1, <2>2 DEF JoinsBounded
  <1>5. ASSUME NEW r \in drops, Drop(r)
        PROVE  JoinsBounded'
    <2>1. \A q \in Rooms : counts'[q] <= counts[q]
      BY <1>1, <1>2, <1>5, CountsCall DEF Drop, Calls
    <2> QED
      BY <1>4, <1>5, <2>1 DEF Drop
  <1>6. CASE Listening
    <2>1. \A q \in Rooms : counts'[q] = counts[q] \/ counts'[q] \in {0, 1}
      BY <1>1, <1>6, CountsInternal DEF Listening
    <2> QED
      BY <1>2, <1>4, <1>6, <2>1 DEF Listening, nodeVars
  <1>7. ASSUME NEW h \in Callers, HandlerStep(h) \/ DbFails(h)
        PROVE  JoinsBounded'
    <2>1. handler[h].pc # "idle" => handler[h].room \in Rooms
      BY DEF NodeInv, AtWork
    <2>2. Idle.pc # "member" /\ handler[h] \in Handler
      BY <1>1 DEF Idle
    <2>3. CASE JoinMember(h)
      <3>1. handler' = [handler EXCEPT ![h] = [handler[h] EXCEPT !.pc = "subscribe"]]
        BY <2>3 DEF JoinMember
      <3> QED
        BY <2>2, <2>3, <3>1, BoundHandler DEF JoinMember, Handler
    <2>4. CASE LeaveDelete(h)
      <3>1. handler' = [handler EXCEPT ![h] = [handler[h] EXCEPT !.pc = "unsubscribe"]]
        BY <2>4 DEF LeaveDelete
      <3> QED
        BY <2>1, <2>2, <2>4, <3>1, BoundHandler DEF LeaveDelete, Handler
    <2>5. CASE JoinSubscribed(h)
      <3> DEFINE x == IF promise[h] = "ok" THEN [handler[h] EXCEPT !.pc = "presence"] ELSE Idle
      <3>1. handler' = [handler EXCEPT ![h] = x] /\ UNCHANGED counts
        BY <2>5 DEF JoinSubscribed
      <3>2. x.pc # "member"
        BY <2>2 DEF Handler
      <3> QED
        BY <3>1, <3>2, BoundHandler
    <2>6. CASE JoinNotMember(h) \/ JoinPresence(h) \/ LeaveDone(h) \/ DbFails(h)
      <3>1. handler' = [handler EXCEPT ![h] = Idle] /\ UNCHANGED counts
        BY <2>6 DEF JoinNotMember, JoinPresence, LeaveDone, DbFails, listenVars
      <3> QED
        BY <2>2, <3>1, BoundHandler
    <2> QED
      BY <1>7, <2>3, <2>4, <2>5, <2>6 DEF HandlerStep
  <1>8. ASSUME NEW h \in Callers, NEW s \in Sockets, NEW r \in Rooms, LeaveFrame(h, s, r)
        PROVE  JoinsBounded'
    <2>1. /\ handler' = [handler EXCEPT ![h] = [pc |-> "delete", sock |-> s, room |-> r]]
          /\ UNCHANGED counts
      BY <1>8 DEF LeaveFrame, listenVars
    <2> QED
      BY <2>1, BoundHandler
  <1>9. CASE Around
    BY <1>3, <1>9
    DEF Around, Connect, ConnectRefused, Close, SocketError, Pong, Vanish, Heartbeat,
        HttpJoin, HttpLeave, Ages, Sweep, listenVars
  <1>10. CASE UNCHANGED vars
    BY <1>3, <1>10 DEF vars, nodeVars, listenVars
  <1> QED
    BY <1>5, <1>6, <1>7, <1>8, <1>9, <1>10, BoundJoinFrame DEF Next, Step

\* A step of a handler at no await of the LISTEN client, or one that ends there.
LEMMA AwaitHandler ==
    ASSUME NodeInv, NEW h \in Callers, NEW x, handler' = [handler EXCEPT ![h] = x],
           x.pc \in {"subscribe", "unsubscribe"} \/ promise'[h] = "none",
           \A g \in Callers : g # h => promise'[g] = promise[g]
    PROVE  Awaiting'
  BY DEF NodeInv, NodeTypeOK, Awaiting

\* A handler calls when it awaits nothing, and goes on when its call is settled.
LEMMA OwnedStep ==
    ASSUME NodeInv, [Next]_vars
    PROVE  Owned' /\ Awaiting'
  <1>1. TypeOK /\ Owned /\ Awaiting /\ handler \in [Callers -> Handler] /\ drops \subseteq Rooms
    BY DEF NodeInv, NodeTypeOK
  <1>2. CASE UNCHANGED <<queue, promise, handler>>
    BY <1>1, <1>2 DEF Owned, Awaiting
  <1>3. ASSUME NEW r \in drops, Drop(r)
        PROVE  Owned' /\ Awaiting'
    <2>1. "detached" \notin Callers
      BY ListenAssumption DEF Internal
    <2>2. Owned' /\ \A h \in Callers : promise'[h] = promise[h]
      BY <1>1, <1>3, <2>1, OwnedCall DEF Drop, Calls
    <2> QED
      BY <1>1, <1>3, <2>2 DEF Drop, Awaiting
  <1>4. CASE Listening
    <2>1. Owned' /\ \A h \in Callers : promise[h] = "none" => promise'[h] = "none"
      BY <1>1, <1>4, OwnedInternal DEF Listening
    <2> QED
      BY <1>1, <1>4, <2>1 DEF Listening, nodeVars, Awaiting
  <1>5. ASSUME NEW h \in Callers, HandlerStep(h) \/ DbFails(h)
        PROVE  Owned' /\ Awaiting'
    <2>1. handler[h] \in Handler /\ (handler[h].pc # "idle" => handler[h].room \in Rooms)
      BY <1>1 DEF NodeInv, AtWork
    <2>2. handler[h].pc \notin {"subscribe", "unsubscribe"} => promise[h] = "none"
      BY <1>1 DEF Awaiting
    <2>3. CASE JoinMember(h)
      <3>1. handler' = [handler EXCEPT ![h] = [handler[h] EXCEPT !.pc = "subscribe"]]
        BY <2>3 DEF JoinMember
      <3>2. Owned' /\ \A g \in Callers : g # h => promise'[g] = promise[g]
        BY <1>1, <2>1, <2>2, <2>3, OwnedCall DEF JoinMember, Calls
      <3>3. [handler[h] EXCEPT !.pc = "subscribe"].pc = "subscribe"
        BY <2>1 DEF Handler
      <3> QED
        BY <3>1, <3>2, <3>3, AwaitHandler
    <2>4. CASE LeaveDelete(h)
      <3>1. handler' = [handler EXCEPT ![h] = [handler[h] EXCEPT !.pc = "unsubscribe"]]
        BY <2>4 DEF LeaveDelete
      <3>2. Owned' /\ \A g \in Callers : g # h => promise'[g] = promise[g]
        BY <1>1, <2>1, <2>2, <2>4, OwnedCall DEF LeaveDelete, Calls
      <3>3. [handler[h] EXCEPT !.pc = "unsubscribe"].pc = "unsubscribe"
        BY <2>1 DEF Handler
      <3> QED
        BY <3>1, <3>2, <3>3, AwaitHandler
    <2>5. CASE JoinSubscribed(h) \/ LeaveDone(h)
      <3>1. PICK x : handler' = [handler EXCEPT ![h] = x]
        BY <2>5 DEF JoinSubscribed, LeaveDone
      <3>2. Owned' /\ promise'[h] = "none" /\ \A g \in Callers : g # h => promise'[g] = promise[g]
        BY <1>1, <2>5, OwnedResume DEF JoinSubscribed, LeaveDone
      <3> QED
        BY <3>1, <3>2, AwaitHandler
    <2>6. CASE JoinNotMember(h) \/ JoinPresence(h) \/ DbFails(h)
      <3>1. handler' = [handler EXCEPT ![h] = Idle] /\ UNCHANGED <<queue, promise>>
        BY <2>6 DEF JoinNotMember, JoinPresence, DbFails, listenVars
      <3>2. promise[h] = "none"
        BY <2>2, <2>6 DEF JoinNotMember, JoinPresence, DbFails
      <3>3. Owned'
        BY <1>1, <3>1 DEF Owned
      <3> QED
        BY <3>1, <3>2, <3>3, AwaitHandler
    <2> QED
      BY <1>5, <2>3, <2>4, <2>5, <2>6 DEF HandlerStep
  <1>6. ASSUME NEW h \in Callers, NEW s \in Sockets, NEW r \in Rooms,
               JoinFrame(h, s, r) \/ LeaveFrame(h, s, r)
        PROVE  Owned' /\ Awaiting'
    <2>1. PICK x : handler' = [handler EXCEPT ![h] = x]
      BY <1>6 DEF JoinFrame, LeaveFrame
    <2>2. UNCHANGED <<queue, promise>> /\ promise[h] = "none"
      BY <1>1, <1>6 DEF JoinFrame, LeaveFrame, Idle, Awaiting, listenVars
    <2>3. Owned'
      BY <1>1, <2>2 DEF Owned
    <2> QED
      BY <2>1, <2>2, <2>3, AwaitHandler
  <1>7. CASE Around
    BY <1>2, <1>7
    DEF Around, Connect, ConnectRefused, Close, SocketError, Pong, Vanish, Heartbeat,
        HttpJoin, HttpLeave, Ages, Sweep, listenVars
  <1>8. CASE UNCHANGED vars
    BY <1>2, <1>8 DEF vars, nodeVars, listenVars
  <1> QED
    BY <1>3, <1>4, <1>5, <1>6, <1>7, <1>8 DEF Next, Step

-----------------------------------------------------------------------------
(* Types and registration *)

\* Handlers keep their types, and a socket and a room while they work.
LEMMA HandlerStepType ==
    ASSUME NodeInv, [Next]_vars
    PROVE  handler' \in [Callers -> Handler] /\ AtWork'
  <1>1. handler \in [Callers -> Handler] /\ AtWork
    BY DEF NodeInv, NodeTypeOK
  <1>2. Idle \in Handler /\ Idle.pc = "idle"
    BY DEF Idle, Handler
  <1>3. ASSUME NEW h \in Callers, NEW x \in Handler, handler' = [handler EXCEPT ![h] = x],
               x.pc # "idle" => x.sock \in Sockets /\ x.room \in Rooms
        PROVE  handler' \in [Callers -> Handler] /\ AtWork'
    BY <1>1, <1>3 DEF AtWork
  <1>4. CASE UNCHANGED handler
    BY <1>1, <1>4 DEF AtWork
  <1>5. ASSUME NEW h \in Callers, handler[h].pc # "idle",
               NEW c \in {"subscribe", "presence", "unsubscribe"},
               handler' = [handler EXCEPT ![h] = [handler[h] EXCEPT !.pc = c]]
        PROVE  handler' \in [Callers -> Handler] /\ AtWork'
    <2> DEFINE x == [handler[h] EXCEPT !.pc = c]
    <2>1. x \in Handler /\ x.sock = handler[h].sock /\ x.room = handler[h].room
      BY <1>1 DEF Handler
    <2>2. handler[h].sock \in Sockets /\ handler[h].room \in Rooms
      BY <1>1, <1>5 DEF AtWork
    <2> HIDE DEF x
    <2> QED
      BY <1>3, <1>5, <2>1, <2>2 DEF x
  <1>6. ASSUME NEW h \in Callers, HandlerStep(h) \/ DbFails(h)
        PROVE  \/ handler' = [handler EXCEPT ![h] = Idle]
               \/ /\ handler[h].pc # "idle"
                  /\ \E c \in {"subscribe", "presence", "unsubscribe"} :
                        handler' = [handler EXCEPT ![h] = [handler[h] EXCEPT !.pc = c]]
    BY <1>6 DEF HandlerStep, DbFails, JoinMember, JoinNotMember, JoinSubscribed, JoinPresence,
                LeaveDelete, LeaveDone
  <1>7. ASSUME NEW h \in Callers, NEW s \in Sockets, NEW r \in Rooms,
               JoinFrame(h, s, r) \/ LeaveFrame(h, s, r)
        PROVE  handler' \in [Callers -> Handler] /\ AtWork'
    <2>1. PICK c \in {"member", "delete"} :
              handler' = [handler EXCEPT ![h] = [pc |-> c, sock |-> s, room |-> r]]
      BY <1>7 DEF JoinFrame, LeaveFrame
    <2> DEFINE x == [pc |-> c, sock |-> s, room |-> r]
    <2>2. x \in Handler /\ x.sock \in Sockets /\ x.room \in Rooms
      BY DEF Handler
    <2> HIDE DEF x
    <2> QED
      BY <1>3, <2>1, <2>2 DEF x
  <1>8. (\E r \in drops : Drop(r)) \/ Around \/ Listening \/ UNCHANGED vars => UNCHANGED handler
    BY DEF Drop, Around, Connect, ConnectRefused, Close, SocketError, Pong, Vanish, Heartbeat,
           HttpJoin, HttpLeave, Ages, Sweep, Listening, vars, nodeVars
  <1> QED
    BY <1>2, <1>3, <1>4, <1>5, <1>6, <1>7, <1>8 DEF Next, Step

\* cleanupSocket takes sockets out of every set.
LEMMA Cleaned ==
    ASSUME NodeInv, NEW D \in SUBSET Sockets, CleanupSockets(D)
    PROVE  /\ roomSockets' \in [Rooms -> SUBSET Sockets]
           /\ userSockets' \in [Users -> SUBSET Sockets]
           /\ drops' \subseteq Rooms
           /\ \A r \in Rooms : roomSockets'[r] = roomSockets[r] \ D
           /\ \A u \in Users : userSockets'[u] = userSockets[u] \ D
  BY DEF NodeInv, NodeTypeOK, CleanupSockets

\* Sockets and their sets keep their types, and one that is not connected is in none
\* of them: only a frame of a socket that is connected adds it to a room, and the close
\* event takes it out of all.
LEMMA RegistryStep ==
    ASSUME NodeInv, [Next]_vars
    PROVE  /\ conn' \in [Sockets -> {"new", "open", "terminated", "closed"}]
           /\ alive' \in [Sockets -> BOOLEAN]
           /\ reachable' \in [Sockets -> BOOLEAN]
           /\ roomSockets' \in [Rooms -> SUBSET Sockets]
           /\ userSockets' \in [Users -> SUBSET Sockets]
           /\ drops' \subseteq Rooms
           /\ OnlyOpenRegistered'
  <1> DEFINE Reg == /\ conn \in [Sockets -> {"new", "open", "terminated", "closed"}]
                    /\ alive \in [Sockets -> BOOLEAN]
                    /\ reachable \in [Sockets -> BOOLEAN]
                    /\ roomSockets \in [Rooms -> SUBSET Sockets]
                    /\ userSockets \in [Users -> SUBSET Sockets]
                    /\ drops \subseteq Rooms
                    /\ OnlyOpenRegistered
  <1> SUFFICES Reg'
    OBVIOUS
  <1>1. Reg
    BY DEF NodeInv, NodeTypeOK
  <1>2. ASSUME UNCHANGED <<conn, alive, reachable, roomSockets, userSockets>>, drops' \subseteq drops
        PROVE  Reg'
    BY <1>1, <1>2 DEF OnlyOpenRegistered
  <1>3. ASSUME NEW s \in Sockets, Connect(s)
        PROVE  Reg'
    <2>1. UserOf[s] \in Users
      BY SocketAssumption
    <2>2. /\ UNCHANGED <<reachable, roomSockets, drops>>
          /\ conn' \in [Sockets -> {"new", "open", "terminated", "closed"}]
          /\ alive' \in [Sockets -> BOOLEAN]
          /\ conn'[s] = "open" /\ \A t \in Sockets : t # s => conn'[t] = conn[t]
      BY <1>1, <1>3 DEF Connect
    <2>3. userSockets' \in [Users -> SUBSET Sockets]
          /\ \A u \in Users : userSockets'[u] \subseteq userSockets[u] \cup {s}
      BY <1>1, <1>3, <2>1 DEF Connect
    <2>4. OnlyOpenRegistered'
      BY <1>1, <2>2, <2>3 DEF OnlyOpenRegistered
    <2> QED
      BY <1>1, <2>2, <2>3, <2>4
  <1>4. ASSUME NEW s \in Sockets, ConnectRefused(s)
        PROVE  Reg'
    <2>1. UNCHANGED <<alive, reachable, roomSockets, userSockets, drops>> /\ conn[s] = "new"
      BY <1>4 DEF ConnectRefused, registry
    <2>2. /\ conn' \in [Sockets -> {"new", "open", "terminated", "closed"}]
          /\ \A t \in Sockets : t # s => conn'[t] = conn[t]
      BY <1>1, <1>4 DEF ConnectRefused
    <2> QED
      BY <1>1, <2>1, <2>2 DEF OnlyOpenRegistered
  <1>5. ASSUME NEW D \in SUBSET Sockets, CleanupSockets(D), UNCHANGED reachable,
               alive' \in [Sockets -> BOOLEAN],
               conn' \in [Sockets -> {"new", "open", "terminated", "closed"}],
               \A t \in Sockets \ D : conn'[t] = conn[t]
        PROVE  Reg'
    <2>1. /\ roomSockets' \in [Rooms -> SUBSET Sockets]
          /\ userSockets' \in [Users -> SUBSET Sockets]
          /\ drops' \subseteq Rooms
          /\ \A r \in Rooms : roomSockets'[r] = roomSockets[r] \ D
          /\ \A u \in Users : userSockets'[u] = userSockets[u] \ D
      BY <1>5, Cleaned
    <2>2. OnlyOpenRegistered'
      BY <1>1, <1>5, <2>1 DEF OnlyOpenRegistered
    <2> QED
      BY <1>1, <1>5, <2>1, <2>2
  <1>6. ASSUME NEW s \in Sockets, Close(s) \/ SocketError(s)
        PROVE  Reg'
    <2>1. CleanupSockets({s}) /\ UNCHANGED <<alive, reachable>>
      BY <1>6 DEF Close, SocketError
    <2>2. /\ conn' \in [Sockets -> {"new", "open", "terminated", "closed"}]
          /\ \A t \in Sockets \ {s} : conn'[t] = conn[t]
      BY <1>1, <1>6 DEF Close, SocketError
    <2> QED
      BY <1>1, <1>5, <2>1, <2>2
  <1>7. CASE Heartbeat
    <2> DEFINE D == {s \in Clients : ~alive[s]}
    <2>1. D \in SUBSET Sockets /\ CleanupSockets(D) /\ UNCHANGED reachable
      BY <1>7 DEF Heartbeat, Clients
    <2>2. /\ conn' \in [Sockets -> {"new", "open", "terminated", "closed"}]
          /\ \A t \in Sockets \ D : conn'[t] = conn[t]
          /\ alive' \in [Sockets -> BOOLEAN]
      BY <1>1, <1>7 DEF Heartbeat
    <2> HIDE DEF D
    <2> QED
      BY <1>5, <2>1, <2>2
  <1>8. ASSUME NEW s \in Sockets, Pong(s) \/ Vanish(s)
        PROVE  Reg'
    <2>1. UNCHANGED <<conn, roomSockets, userSockets, drops>>
      BY <1>8 DEF Pong, Vanish, registry
    <2>2. alive' \in [Sockets -> BOOLEAN] /\ reachable' \in [Sockets -> BOOLEAN]
      BY <1>1, <1>8 DEF Pong, Vanish
    <2> QED
      BY <1>1, <2>1, <2>2 DEF OnlyOpenRegistered
  <1>9. ASSUME NEW h \in Callers, NEW s \in Sockets, NEW r \in Rooms, JoinFrame(h, s, r)
        PROVE  Reg'
    <2>1. UNCHANGED <<conn, alive, reachable, userSockets, drops>> /\ conn[s] \in {"open", "terminated"}
      BY <1>9 DEF JoinFrame, Receives
    <2>2. /\ roomSockets' \in [Rooms -> SUBSET Sockets]
          /\ \A q \in Rooms : roomSockets'[q] \subseteq roomSockets[q] \cup {s}
      BY <1>1, <1>9 DEF JoinFrame
    <2> QED
      BY <1>1, <2>1, <2>2 DEF OnlyOpenRegistered
  <1>10. ASSUME NEW h \in Callers, NEW s \in Sockets, NEW r \in Rooms, LeaveFrame(h, s, r)
         PROVE  Reg'
    <2>1. UNCHANGED <<conn, alive, reachable, userSockets>> /\ drops' \subseteq Rooms
      BY <1>10 DEF LeaveFrame
    <2>2. /\ roomSockets' \in [Rooms -> SUBSET Sockets]
          /\ \A q \in Rooms : roomSockets'[q] \subseteq roomSockets[q]
      BY <1>1, <1>10 DEF LeaveFrame
    <2> QED
      BY <1>1, <2>1, <2>2 DEF OnlyOpenRegistered
  <1>11. ASSUME NEW r \in drops, Drop(r)
         PROVE  Reg'
    BY <1>2, <1>11 DEF Drop
  <1>12. ASSUME NEW h \in Callers, HandlerStep(h) \/ DbFails(h)
         PROVE  Reg'
    BY <1>2, <1>12 DEF HandlerStep, DbFails, JoinMember, JoinNotMember, JoinSubscribed,
                       JoinPresence, LeaveDelete, LeaveDone, registry
  <1>13. CASE (\E u \in Users, r \in Rooms : HttpJoin(u, r) \/ HttpLeave(u, r))
              \/ (\E row \in presence : Ages(row)) \/ Sweep \/ Listening \/ UNCHANGED vars
    BY <1>2, <1>13 DEF HttpJoin, HttpLeave, Ages, Sweep, Listening, vars, nodeVars, registry
  <1> QED
    BY <1>3, <1>4, <1>6, <1>7, <1>8, <1>9, <1>10, <1>11, <1>12, <1>13 DEF Next, Step, Around

\* Tables and what clients were told keep their types.
LEMMA TablesStep ==
    ASSUME NodeInv, [Next]_vars
    PROVE  /\ members' \subseteq Users \X Rooms
           /\ presence' \subseteq Users \X Rooms
           /\ stale' \subseteq presence'
           /\ asked' \subseteq Sockets \X Rooms
           /\ acked' \subseteq Sockets \X Rooms
           /\ dbFaults' \in 0..MaxDbFaults
  <1> DEFINE Tab == /\ members \subseteq Users \X Rooms
                    /\ presence \subseteq Users \X Rooms
                    /\ stale \subseteq presence
                    /\ asked \subseteq Sockets \X Rooms
                    /\ acked \subseteq Sockets \X Rooms
                    /\ dbFaults \in 0..MaxDbFaults
  <1> SUFFICES Tab'
    OBVIOUS
  <1>1. Tab
    BY DEF NodeInv, NodeTypeOK
  <1>2. ASSUME UNCHANGED <<members, presence, stale, dbFaults>>,
               asked' \subseteq asked, acked' \subseteq acked
        PROVE  Tab'
    BY <1>1, <1>2
  <1>3. ASSUME NEW h \in Callers, HandlerStep(h) \/ DbFails(h)
        PROVE  Tab'
    <2>1. handler[h].pc # "idle" => Row(h) \in Users \X Rooms
                                   /\ <<handler[h].sock, handler[h].room>> \in Sockets \X Rooms
      BY SocketAssumption DEF Row, NodeInv, AtWork
    <2>2. CASE JoinMember(h) \/ JoinNotMember(h) \/ JoinSubscribed(h) \/ LeaveDone(h)
      BY <1>2, <2>2 DEF JoinMember, JoinNotMember, JoinSubscribed, LeaveDone, tables, told
    <2>3. CASE JoinPresence(h)
      BY <1>1, <2>1, <2>3 DEF JoinPresence, Upsert, Tell
    <2>4. CASE LeaveDelete(h)
      BY <1>1, <2>4 DEF LeaveDelete, Delete, told
    <2>5. CASE DbFails(h)
      <3>1. dbFaults' \in 0..MaxDbFaults
        BY <1>1, <2>5, SocketAssumption DEF DbFails
      <3>2. presence' \subseteq Users \X Rooms /\ stale' \subseteq presence'
        BY <1>1, <2>1, <2>5 DEF DbFails, Upsert, Delete
      <3> QED
        BY <1>1, <2>5, <3>1, <3>2 DEF DbFails, told
    <2> QED
      BY <1>3, <2>2, <2>3, <2>4, <2>5 DEF HandlerStep
  <1>4. ASSUME NEW h \in Callers, NEW s \in Sockets, NEW r \in Rooms,
               JoinFrame(h, s, r) \/ LeaveFrame(h, s, r)
        PROVE  Tab'
    BY <1>1, <1>4 DEF JoinFrame, LeaveFrame, tables
  <1>5. ASSUME NEW s \in Sockets, Connect(s) \/ ConnectRefused(s) \/ Pong(s) \/ Vanish(s)
        PROVE  Tab'
    BY <1>2, <1>5 DEF Connect, ConnectRefused, Pong, Vanish, tables, told
  <1>6. ASSUME NEW D, CleanupSockets(D), UNCHANGED <<tables, dbFaults>>
        PROVE  Tab'
    BY <1>2, <1>6 DEF CleanupSockets, tables
  <1>7. (\E s \in Sockets : Close(s) \/ SocketError(s)) \/ Heartbeat
            => UNCHANGED <<tables, dbFaults>> /\ \E D : CleanupSockets(D)
    BY DEF Close, SocketError, Heartbeat
  <1>8. ASSUME NEW u \in Users, NEW r \in Rooms, HttpJoin(u, r) \/ HttpLeave(u, r)
        PROVE  Tab'
    BY <1>1, <1>8 DEF HttpJoin, HttpLeave, told
  <1>9. CASE (\E row \in presence : Ages(row)) \/ Sweep
    BY <1>1, <1>9 DEF Ages, Sweep, told
  <1>10. CASE (\E r \in drops : Drop(r)) \/ Listening \/ UNCHANGED vars
    BY <1>2, <1>10 DEF Drop, Listening, vars, nodeVars, tables, told
  <1> QED
    BY <1>3, <1>4, <1>5, <1>6, <1>7, <1>8, <1>9, <1>10 DEF Next, Step, Around

-----------------------------------------------------------------------------
(* What a client that was sent joined_room may rely on *)

\* A node whose clients only join: leave_room has no part in it.
OnlyJoins == \A h \in Callers :
                 /\ handler[h].pc \in {"idle", "member", "subscribe", "presence"}
                 /\ handler[h].pc # "idle" => conn[handler[h].sock] # "new"

\* As long as no connection broke, there is one to subscribe with.
Steady == client = "open" /\ reconnect = "idle" /\ ~reconnectTimer

Undisturbed == faults = 0 /\ ~destroyed

\* An open socket that has been sent joined_room, or whose handler has called subscribe.
Needs(s, r) ==
    /\ conn[s] = "open"
    /\ \/ <<s, r>> \in acked
       \/ \E h \in Callers : /\ handler[h].pc \in {"subscribe", "presence"}
                             /\ handler[h].sock = s /\ handler[h].room = r

\* An open socket of which a join is under way or done is among those of the room.
Joined == \A s \in Sockets, r \in Rooms :
    /\ <<s, r>> \in acked => conn[s] = "open" /\ s \in roomSockets[r]
    /\ \A h \in Callers : /\ handler[h].pc # "idle"
                          /\ handler[h].sock = s /\ handler[h].room = r
                          /\ conn[s] = "open"
                          => s \in roomSockets[r]

\* Only a room that nobody is in is given up ...
DropsEmpty == \A r \in drops : roomSockets[r] = {}

\* ... so the rooms somebody needs stay counted.
NeededCounted == Undisturbed => /\ Steady
                                /\ \A s \in Sockets, r \in Rooms : Needs(s, r) => counts[r] > 0

ServeInv == OnlyJoins /\ Joined /\ DropsEmpty /\ NeededCounted

\* On a connection that is there a subscription is counted.
LEMMA SubscribeCounts ==
    ASSUME TypeOK, Steady, NEW c, NEW r \in Rooms, Subscribe(c, r)
    PROVE  counts'[r] > 0 /\ \A q \in Rooms : q # r => counts'[q] = counts[q]
  BY DEF Subscribe, SubscribeAgain, SubscribeFirst, SubscribeRefused, SubscribeHangs,
         Steady, Refuses, Hangs, TypeOK

\* Left alone, it changes no count and stays what it is.
LEMMA SteadyInternal ==
    ASSUME TypeOK, Undisturbed => Steady, Internally, Undisturbed'
    PROVE  Undisturbed /\ Steady' /\ UNCHANGED counts
  <1>1. faults \in Nat /\ destroyed \in BOOLEAN
    BY ListenAssumption DEF TypeOK
  <1> QED
    BY <1>1 DEF Internally, Reply, ConnectionLost, ReconnectTimer, NewClient, Connected,
                ConnectFailed, EnsureListen, EnsureDone, Destroy, Undisturbed, Steady

\* Handlers are those of joins, and of sockets that have connected.
LEMMA JoinsOnly ==
    ASSUME NodeInv, OnlyJoins, "leave_room" \notin Events, [Next]_vars
    PROVE  OnlyJoins'
  <1>1. /\ handler \in [Callers -> Handler] /\ Idle.pc = "idle"
        /\ conn \in [Sockets -> {"new", "open", "terminated", "closed"}]
        /\ AtWork
    BY DEF NodeInv, NodeTypeOK, Idle
  <1>2. \A s \in Sockets : conn[s] # "new" => conn'[s] # "new"
    BY <1>1 DEF Next, Step, Around, Listening, HandlerStep, DbFails, JoinFrame, LeaveFrame,
                Drop, Connect, ConnectRefused, Close, SocketError, Pong, Vanish, Heartbeat,
                HttpJoin, HttpLeave, Ages, Sweep, JoinMember, JoinNotMember, JoinSubscribed,
                JoinPresence, LeaveDelete, LeaveDone, vars, nodeVars
  <1>3. CASE UNCHANGED handler
    BY <1>1, <1>2, <1>3 DEF OnlyJoins, AtWork
  <1>4. ASSUME NEW h \in Callers, NEW x, handler' = [handler EXCEPT ![h] = x],
               x.pc \in {"idle", "member", "subscribe", "presence"},
               x.pc # "idle" => x.sock \in Sockets /\ conn[x.sock] # "new"
        PROVE  OnlyJoins'
    BY <1>1, <1>2, <1>4 DEF OnlyJoins, AtWork
  <1>5. ASSUME NEW h \in Callers, HandlerStep(h) \/ DbFails(h)
        PROVE  OnlyJoins'
    <2>1. \/ handler' = [handler EXCEPT ![h] = Idle]
          \/ \E c \in {"subscribe", "presence"} : /\ handler[h].pc # "idle"
                /\ handler' = [handler EXCEPT ![h] = [handler[h] EXCEPT !.pc = c]]
      BY <1>5 DEF OnlyJoins, HandlerStep, DbFails, JoinMember, JoinNotMember, JoinSubscribed,
                  JoinPresence, LeaveDelete, LeaveDone
    <2>2. CASE handler' = [handler EXCEPT ![h] = Idle]
      BY <1>1, <1>4, <2>2
    <2>3. ASSUME NEW c \in {"subscribe", "presence"}, handler[h].pc # "idle",
                 handler' = [handler EXCEPT ![h] = [handler[h] EXCEPT !.pc = c]]
          PROVE  OnlyJoins'
      <3>1. PICK x : x = [handler[h] EXCEPT !.pc = c]
        OBVIOUS
      <3>2. x.pc = c /\ x.sock = handler[h].sock
        BY <1>1, <3>1 DEF Handler
      <3>3. x.sock \in Sockets /\ conn[x.sock] # "new"
        BY <1>1, <2>3, <3>2 DEF AtWork, OnlyJoins
      <3> QED
        BY <1>4, <2>3, <3>1, <3>2, <3>3
    <2> QED
      BY <2>1, <2>2, <2>3
  <1>6. ASSUME NEW h \in Callers, NEW s \in Sockets, NEW r \in Rooms,
               JoinFrame(h, s, r) \/ LeaveFrame(h, s, r)
        PROVE  OnlyJoins'
    <2>1. PICK x : x = [pc |-> "member", sock |-> s, room |-> r]
      OBVIOUS
    <2>2. handler' = [handler EXCEPT ![h] = x] /\ conn[s] # "new"
      BY <1>6, <2>1 DEF JoinFrame, LeaveFrame, Receives
    <2> QED
      BY <1>4, <2>1, <2>2
  <1>7. (\E r \in drops : Drop(r)) \/ Around \/ Listening \/ UNCHANGED vars => UNCHANGED handler
    BY DEF Drop, Around, Connect, ConnectRefused, Close, SocketError, Pong, Vanish, Heartbeat,
           HttpJoin, HttpLeave, Ages, Sweep, Listening, vars, nodeVars
  <1> QED
    BY <1>3, <1>5, <1>6, <1>7 DEF Next, Step

\* A socket that needs a room keeps needing it, or comes to by the call of its handler.
NeedsKept == \A s \in Sockets, r \in Rooms :
    Needs(s, r)' => \/ Needs(s, r)
                    \/ \E h \in Callers : /\ handler[h].pc = "member" /\ handler[h].room = r
                                          /\ handler'[h].pc = "subscribe"

\* Sockets are taken out of a room only by what closes them.
LEMMA JoinedStep ==
    ASSUME NodeInv, OnlyJoins, Joined, "leave_room" \notin Events, [Next]_vars
    PROVE  Joined' /\ NeedsKept
  <1>1. /\ handler \in [Callers -> Handler] /\ AtWork /\ Idle.pc = "idle"
        /\ conn \in [Sockets -> {"new", "open", "terminated", "closed"}]
        /\ roomSockets \in [Rooms -> SUBSET Sockets]
        /\ acked \subseteq Sockets \X Rooms
    BY DEF NodeInv, NodeTypeOK, Idle
  <1>2. ASSUME UNCHANGED <<conn, handler, acked, roomSockets>>
        PROVE  Joined' /\ NeedsKept
    BY <1>2 DEF Joined, NeedsKept, Needs
  <1>3. ASSUME UNCHANGED <<handler, acked, roomSockets>>, NEW t \in Sockets, conn[t] = "new",
               \A s \in Sockets : s # t => conn'[s] = conn[s]
        PROVE  Joined' /\ NeedsKept
    <2>1. \A h \in Callers : handler[h].pc # "idle" => handler[h].sock # t
      BY <1>3 DEF OnlyJoins
    <2>2. \A r \in Rooms : <<t, r>> \notin acked
      BY <1>3 DEF Joined
    <2>3. \A s \in Sockets, r \in Rooms : s = t => ~Needs(s, r)'
      BY <1>3, <2>1, <2>2 DEF Needs
    <2>4. Joined'
      BY <1>3, <2>1, <2>2 DEF Joined
    <2>5. NeedsKept
      BY <1>3, <2>3 DEF NeedsKept, Needs
    <2> QED
      BY <2>4, <2>5
  <1>4. ASSUME NEW D \in SUBSET Sockets, CleanupSockets(D), UNCHANGED handler,
               \A s \in D : conn'[s] # "open", \A s \in Sockets \ D : conn'[s] = conn[s]
        PROVE  Joined' /\ NeedsKept
    <2>1. /\ \A r \in Rooms : roomSockets'[r] = roomSockets[r] \ D
          /\ \A s \in Sockets, r \in Rooms : <<s, r>> \in acked' => <<s, r>> \in acked /\ s \notin D
      BY <1>1, <1>4 DEF CleanupSockets
    <2> QED
      BY <1>4, <2>1 DEF Joined, NeedsKept, Needs
  <1>5. ASSUME NEW h \in Callers, NEW s \in Sockets, NEW r \in Rooms, JoinFrame(h, s, r)
        PROVE  Joined' /\ NeedsKept
    <2>1. PICK x : x = [pc |-> "member", sock |-> s, room |-> r]
      OBVIOUS
    <2>2. /\ UNCHANGED <<conn, acked>> /\ handler[h].pc = "idle"
          /\ handler'[h] = x /\ \A g \in Callers : g # h => handler'[g] = handler[g]
          /\ s \in roomSockets'[r] /\ \A q \in Rooms : roomSockets[q] \subseteq roomSockets'[q]
      BY <1>1, <1>5, <2>1 DEF JoinFrame
    <2> QED
      BY <2>1, <2>2 DEF Joined, NeedsKept, Needs
  <1>6. ASSUME NEW h \in Callers, HandlerStep(h) \/ DbFails(h)
        PROVE  Joined' /\ NeedsKept
    <2>1. handler[h].pc # "idle" => handler[h].sock \in Sockets /\ handler[h].room \in Rooms
      BY DEF NodeInv, AtWork
    <2> DEFINE Kept(c) == handler' = [handler EXCEPT ![h] = [handler[h] EXCEPT !.pc = c]]
    <2>2. /\ UNCHANGED <<conn, roomSockets>> /\ handler[h].pc # "idle"
          /\ \/ acked' = acked
             \/ handler[h].pc = "presence" /\ acked' = Tell(acked, h)
          /\ \/ handler' = [handler EXCEPT ![h] = Idle]
             \/ handler[h].pc = "member" /\ Kept("subscribe")
             \/ handler[h].pc = "subscribe" /\ Kept("presence")
      BY <1>1, <1>6 DEF OnlyJoins, HandlerStep, DbFails, JoinMember, JoinNotMember,
                        JoinSubscribed, JoinPresence, LeaveDelete, LeaveDone, registry, told
    <2>3. \A c : Kept(c) => /\ handler'[h].pc = c /\ handler'[h].sock = handler[h].sock
                            /\ handler'[h].room = handler[h].room
                            /\ \A g \in Callers : g # h => handler'[g] = handler[g]
      BY <1>1 DEF Handler
    <2>4. handler' = [handler EXCEPT ![h] = Idle] =>
              handler'[h].pc = "idle" /\ \A g \in Callers : g # h => handler'[g] = handler[g]
      BY <1>1
    <2> HIDE DEF Kept
    <2>5. /\ UNCHANGED <<conn, roomSockets>> /\ handler[h].pc # "idle"
          /\ \A g \in Callers : g # h => handler'[g] = handler[g]
          /\ \/ handler'[h].pc = "idle"
             \/ handler'[h].sock = handler[h].sock /\ handler'[h].room = handler[h].room
          /\ \/ acked' = acked
             \/ handler[h].pc = "presence" /\ acked' = Tell(acked, h)
          /\ \/ handler'[h].pc = "idle"
             \/ handler'[h].pc = "subscribe" /\ handler[h].pc = "member"
             \/ handler'[h].pc = "presence" /\ handler[h].pc = "subscribe"
      BY <2>2, <2>3, <2>4
    <2>6. ASSUME NEW s \in Sockets, NEW r \in Rooms, <<s, r>> \in acked', <<s, r>> \notin acked
          PROVE  /\ conn[s] = "open" /\ handler[h].sock = s /\ handler[h].room = r
                 /\ handler[h].pc = "presence"
      BY <2>5, <2>6 DEF Tell
    <2>7. ASSUME NEW s \in Sockets, NEW r \in Rooms
          PROVE  /\ <<s, r>> \in acked' => conn'[s] = "open" /\ s \in roomSockets'[r]
                 /\ \A g \in Callers : /\ handler'[g].pc # "idle"
                                       /\ handler'[g].sock = s /\ handler'[g].room = r
                                       /\ conn'[s] = "open"
                                       => s \in roomSockets'[r]
      <3>1. \A g \in Callers : /\ handler[g].pc # "idle"
                               /\ handler[g].sock = s /\ handler[g].room = r
                               /\ conn[s] = "open"
                               => s \in roomSockets[r]
        BY DEF Joined
      <3>2. <<s, r>> \in acked => conn[s] = "open" /\ s \in roomSockets[r]
        BY DEF Joined
      <3>3. <<s, r>> \in acked' => conn[s] = "open" /\ s \in roomSockets[r]
        BY <2>5, <2>6, <3>1, <3>2
      <3> QED
        BY <2>5, <3>1, <3>3
    <2>8. Joined'
      BY <2>7 DEF Joined
    <2>9. ASSUME NEW s \in Sockets, NEW r \in Rooms, Needs(s, r)',
                 \A g \in Callers : handler[g].pc = "member" /\ handler[g].room = r
                                       => handler'[g].pc # "subscribe"
          PROVE  Needs(s, r)
      <3>1. CASE <<s, r>> \in acked'
        BY <2>5, <2>6, <2>9, <3>1 DEF Needs
      <3>2. CASE \E g \in Callers : /\ handler'[g].pc \in {"subscribe", "presence"}
                                    /\ handler'[g].sock = s /\ handler'[g].room = r
        BY <2>5, <2>9, <3>2 DEF Needs
      <3> QED
        BY <2>9, <3>1, <3>2 DEF Needs
    <2>10. NeedsKept
      BY <2>9 DEF NeedsKept
    <2> QED
      BY <2>8, <2>10
  <1>7. ASSUME NEW s \in Sockets, Close(s) \/ SocketError(s)
        PROVE  Joined' /\ NeedsKept
    <2>1. CleanupSockets({s}) /\ UNCHANGED handler
      BY <1>7 DEF Close, SocketError
    <2>2. conn'[s] # "open" /\ \A t \in Sockets \ {s} : conn'[t] = conn[t]
      BY <1>1, <1>7 DEF Close, SocketError
    <2> QED
      BY <1>4, <2>1, <2>2
  <1>8. CASE Heartbeat
    <2>1. PICK D : D = {s \in Clients : ~alive[s]}
      OBVIOUS
    <2>2. D \in SUBSET Sockets /\ CleanupSockets(D) /\ UNCHANGED handler
      BY <1>8, <2>1 DEF Heartbeat, Clients
    <2>3. (\A s \in D : conn'[s] # "open") /\ \A s \in Sockets \ D : conn'[s] = conn[s]
      BY <1>1, <1>8, <2>1 DEF Heartbeat, Clients
    <2> QED
      BY <1>4, <2>2, <2>3
  <1>9. ASSUME NEW s \in Sockets, Connect(s) \/ ConnectRefused(s)
        PROVE  Joined' /\ NeedsKept
    <2>1. /\ UNCHANGED <<handler, acked, roomSockets>> /\ conn[s] = "new"
          /\ \A t \in Sockets : t # s => conn'[t] = conn[t]
      BY <1>1, <1>9 DEF Connect, ConnectRefused, registry, told
    <2> QED
      BY <1>3, <2>1
  <1>10. CASE \/ \E r \in drops : Drop(r)
              \/ \E s \in Sockets : Pong(s) \/ Vanish(s)
              \/ \E u \in Users, r \in Rooms : HttpJoin(u, r) \/ HttpLeave(u, r)
              \/ (\E row \in presence : Ages(row)) \/ Sweep \/ Listening \/ UNCHANGED vars
    BY <1>2, <1>10 DEF Drop, Pong, Vanish, HttpJoin, HttpLeave, Ages, Sweep, Listening, vars,
                       nodeVars, registry, told
  <1> QED
    BY <1>5, <1>6, <1>7, <1>8, <1>9, <1>10 DEF Next, Step, Around, LeaveFrame

\* A room that is given up has been emptied in the same turn.
LEMMA GivenUpEmpty ==
    ASSUME NodeInv, DropsEmpty, [Next]_vars
    PROVE  DropsEmpty'
  <1>1. ASSUME UNCHANGED roomSockets, drops' \subseteq drops
        PROVE  DropsEmpty'
    BY <1>1 DEF DropsEmpty
  <1>2. ASSUME NEW h \in Callers, NEW s \in Sockets, NEW r \in Rooms, LeaveFrame(h, s, r)
        PROVE  DropsEmpty'
    BY <1>2 DEF LeaveFrame, DropsEmpty, NodeInv, NodeTypeOK
  <1>3. ASSUME drops = {}, NEW h \in Callers, NEW s \in Sockets, NEW r \in Rooms,
               JoinFrame(h, s, r)
        PROVE  DropsEmpty'
    BY <1>3 DEF JoinFrame, DropsEmpty
  <1>4. CASE (\E s \in Sockets : Close(s) \/ SocketError(s)) \/ Heartbeat
    <2>1. PICK D : CleanupSockets(D)
      BY <1>4 DEF Close, SocketError, Heartbeat
    <2> QED
      BY <2>1 DEF CleanupSockets, DropsEmpty
  <1>5. CASE \/ \E r \in drops : Drop(r)
             \/ \E s \in Sockets : Connect(s) \/ ConnectRefused(s) \/ Pong(s) \/ Vanish(s)
             \/ \E u \in Users, r \in Rooms : HttpJoin(u, r) \/ HttpLeave(u, r)
             \/ (\E row \in presence : Ages(row)) \/ Sweep \/ Listening \/ UNCHANGED vars
             \/ \E h \in Callers : HandlerStep(h) \/ DbFails(h)
    BY <1>1, <1>5
    DEF Drop, Connect, ConnectRefused, Pong, Vanish, HttpJoin, HttpLeave, Ages, Sweep,
        Listening, vars, nodeVars, registry, HandlerStep, DbFails, JoinMember, JoinNotMember,
        JoinSubscribed, JoinPresence, LeaveDelete, LeaveDone
  <1> QED
    BY <1>2, <1>3, <1>4, <1>5 DEF Next, Step, Around

\* The count of a room falls only when the room is given up, and nobody needs it then.
LEMMA NeededStep ==
    ASSUME NodeInv, ServeInv, "leave_room" \notin Events, [Next]_vars
    PROVE  NeededCounted'
  <1>1. TypeOK /\ drops \subseteq Rooms /\ AtWork /\ NeedsKept /\ Joined'
    BY JoinedStep DEF NodeInv, NodeTypeOK, ServeInv
  <1>2. \A h \in Callers : handler[h].pc # "delete"
    BY DEF ServeInv, OnlyJoins
  <1>3. ASSUME UNCHANGED <<counts, connVars>>,
               \A h \in Callers : handler'[h].pc = "subscribe" => handler[h].pc = "subscribe"
        PROVE  NeededCounted'
    <2>1. \A s \in Sockets, r \in Rooms : Needs(s, r)' => Needs(s, r)
      BY <1>1, <1>3 DEF NeedsKept
    <2> QED
      BY <1>3, <2>1 DEF ServeInv, NeededCounted, Undisturbed, Steady, connVars
  <1>4. ASSUME NEW h \in Callers, JoinMember(h)
        PROVE  NeededCounted'
    <2>1. handler[h].room \in Rooms /\ Subscribe(h, handler[h].room) /\ UNCHANGED connVars
      BY <1>1, <1>4 DEF JoinMember, AtWork, Subscribe
    <2>2. \A g \in Callers : g # h => handler'[g] = handler[g]
      BY <1>1, <1>4 DEF JoinMember
    <2>3. \A s \in Sockets, r \in Rooms : Needs(s, r)' => Needs(s, r) \/ r = handler[h].room
      BY <1>1, <2>2 DEF NeedsKept
    <2>4. ASSUME Undisturbed'
          PROVE  Steady' /\ \A s \in Sockets, r \in Rooms : Needs(s, r)' => counts'[r] > 0
      <3>1. Undisturbed /\ Steady /\ Steady'
        BY <2>1, <2>4 DEF ServeInv, NeededCounted, Undisturbed, Steady, connVars
      <3>2. counts'[handler[h].room] > 0
            /\ \A q \in Rooms : q # handler[h].room => counts'[q] = counts[q]
        BY <1>1, <2>1, <3>1, SubscribeCounts
      <3> QED
        BY <2>3, <3>1, <3>2 DEF ServeInv, NeededCounted
    <2> QED
      BY <2>4 DEF NeededCounted
  <1>5. ASSUME NEW q \in drops, Drop(q)
        PROVE  NeededCounted'
    <2>1. /\ Unsubscribe("detached", q) /\ UNCHANGED <<connVars, handler, conn, roomSockets, acked>>
          /\ roomSockets[q] = {}
      BY <1>5 DEF Drop, Unsubscribe, ServeInv, DropsEmpty, told
    <2>2. \A r \in Rooms : r # q => counts'[r] = counts[r]
      BY <1>1, <2>1, CountsCall DEF Calls
    <2>3. \A s \in Sockets : ~Needs(s, q)'
      BY <1>1, <2>1 DEF Joined, Needs
    <2>4. \A s \in Sockets, r \in Rooms : Needs(s, r)' <=> Needs(s, r)
      BY <2>1 DEF Needs
    <2> QED
      BY <1>1, <2>1, <2>2, <2>3, <2>4
      DEF ServeInv, NeededCounted, Undisturbed, Steady, connVars
  <1>6. CASE Listening
    <2>1. \A s \in Sockets, r \in Rooms : Needs(s, r)' <=> Needs(s, r)
      BY <1>6 DEF Listening, nodeVars, told, Needs
    <2>2. Undisturbed' => Undisturbed /\ Steady' /\ UNCHANGED counts
      BY <1>1, <1>6, SteadyInternal DEF Listening, ServeInv, NeededCounted
    <2> QED
      BY <2>1, <2>2 DEF ServeInv, NeededCounted
  <1>7. ASSUME NEW h \in Callers, JoinNotMember(h) \/ JoinSubscribed(h) \/ JoinPresence(h)
                                  \/ LeaveDone(h) \/ DbFails(h)
        PROVE  NeededCounted'
    <2>1. UNCHANGED <<counts, connVars>>
      BY <1>7 DEF JoinNotMember, JoinSubscribed, JoinPresence, LeaveDone, DbFails, listenVars,
                  connVars
    <2>2. handler'[h].pc # "subscribe" /\ \A g \in Callers : g # h => handler'[g] = handler[g]
      BY <1>1, <1>7 DEF JoinNotMember, JoinSubscribed, JoinPresence, LeaveDone, DbFails, Idle,
                        NodeInv, NodeTypeOK, Handler
    <2> QED
      BY <1>3, <2>1, <2>2
  <1>8. ASSUME NEW h \in Callers, NEW s \in Sockets, NEW r \in Rooms, JoinFrame(h, s, r)
        PROVE  NeededCounted'
    <2>1. UNCHANGED <<counts, connVars>>
      BY <1>8 DEF JoinFrame, listenVars, connVars
    <2>2. handler'[h].pc # "subscribe" /\ \A g \in Callers : g # h => handler'[g] = handler[g]
      BY <1>8 DEF JoinFrame, NodeInv, NodeTypeOK
    <2> QED
      BY <1>3, <2>1, <2>2
  <1>9. CASE Around \/ UNCHANGED vars
    <2>1. UNCHANGED <<counts, connVars, handler>>
      BY <1>9 DEF Around, Connect, ConnectRefused, Close, SocketError, Pong, Vanish, Heartbeat,
                  HttpJoin, HttpLeave, Ages, Sweep, vars, nodeVars, listenVars, connVars
    <2> QED
      BY <1>3, <2>1
  <1> QED
    BY <1>2, <1>4, <1>5, <1>6, <1>7, <1>8, <1>9
    DEF Next, Step, HandlerStep, LeaveDelete, LeaveFrame

-----------------------------------------------------------------------------
(* The theorems *)

\* A node that has started.
LEMMA NodeInit == Init => NodeInv
  <1> SUFFICES ASSUME Init PROVE NodeInv
    OBVIOUS
  <1>1. TypeOK /\ queue = <<>> /\ \A h \in Callers : promise[h] = "none"
    BY InvInit DEF Init, ListenInv, ListenInit
  <1>2. Idle \in Handler /\ Idle.pc = "idle"
    BY DEF Idle, Handler
  <1>3. handler \in [Callers -> Handler] /\ \A h \in Callers : handler[h].pc = "idle"
    BY <1>2 DEF Init
  <1>4. NodeTypeOK
    BY <1>1, <1>3, SocketAssumption DEF Init, NodeTypeOK
  <1>5. Owned /\ Awaiting /\ AtWork
    BY <1>1, <1>3 DEF Owned, Awaiting, AtWork
  <1>6. JoinsBounded
    <2>1. \A r \in Rooms : Joining(r) = {}
      BY <1>3 DEF Joining
    <2> QED
      BY <2>1, FS_EmptySet DEF JoinsBounded, Bounded
  <1>7. OnlyOpenRegistered
    BY DEF Init, OnlyOpenRegistered
  <1> QED
    BY <1>4, <1>5, <1>6, <1>7 DEF NodeInv

\* Every step keeps the invariant.
LEMMA NodeStep ==
    ASSUME NodeInv, [Next]_vars
    PROVE  NodeInv'
  <1>1. TypeOK'
    BY ListenStep, TypeStep DEF NodeInv, NodeTypeOK
  <1> QED
    BY <1>1, OwnedStep, BoundStep, HandlerStepType, RegistryStep, TablesStep
    DEF NodeInv, NodeTypeOK

\* NodeInv is an invariant of a node.
THEOREM NodeInvariant == Spec => []NodeInv
  BY NodeInit, NodeStep, PTL DEF Spec

\* The state of a node is well typed (the fields of ChatWsService and PostgresService,
\* its handlers, and the tables room_members and presence).
THEOREM NodeTypeCorrect == Spec => []NodeTypeOK
  <1>1. NodeInv => NodeTypeOK
    BY DEF NodeInv
  <1> QED
    BY <1>1, NodeInvariant, PTL

\* A socket whose close event has fired is in no room and in no user's set, whatever
\* handlers go on after an await (chat-ws.service.ts, cleanupSocket and handleFrame).
THEOREM ClosedAreGone == Spec => []ClosedNotRegistered
  <1>1. NodeInv => ClosedNotRegistered
    BY DEF NodeInv, OnlyOpenRegistered, ClosedNotRegistered
  <1> QED
    BY <1>1, NodeInvariant, PTL

\* A node, with all that its handlers and cleanups do, implements the specification of
\* the LISTEN client: handlers call it one awaited call at a time, within its bounds.
THEOREM NodeUsesListenClient == Spec => ListenSpec
  <1>1. Init => ListenInit
    BY DEF Init
  <1>2. NodeInv /\ [Next]_vars => [ListenNext]_listenVars
    BY ListenStep
  <1> QED
    BY <1>1, <1>2, NodeInvariant, PTL DEF Spec, ListenSpec

\* So what is proved of the LISTEN client for any callers holds in a node: the rooms it
\* counts are those it listens on, or will.
THEOREM NodeListensAsMeant == Spec => []ListenIntent
  BY NodeUsesListenClient, IntentHolds, PTL

\* A node whose clients only join keeps ServeInv.
LEMMA ServeInvariant ==
    ASSUME "leave_room" \notin Events
    PROVE  Spec => []ServeInv
  <1>1. ASSUME Init
        PROVE  ServeInv
    <2>1. faults = 0 /\ Steady
      BY <1>1 DEF Init, ListenInit, Steady
    <2>2. \A h \in Callers : handler[h].pc = "idle"
      BY <1>1 DEF Init, Idle
    <2> QED
      BY <1>1, <2>1, <2>2 DEF Init, ServeInv, OnlyJoins, Joined, DropsEmpty, NeededCounted, Needs
  <1>2. NodeInv /\ ServeInv /\ [Next]_vars => ServeInv'
    BY JoinsOnly, JoinedStep, GivenUpEmpty, NeededStep DEF ServeInv
  <1> QED
    BY <1>1, <1>2, NodeInvariant, PTL DEF Spec

\* A client that was sent joined_room and is still connected is among the targets of
\* the room's broadcasts, and its node is subscribed to the room, as long as the LISTEN
\* connection has not broken (handleFrame and cleanupSocket in chat-ws.service.ts, with
\* subscribeToRoomChannel and unsubscribeFromRoomChannel).  Clients leave by closing: a
\* leave_room frame unsubscribes twice, which is why the theorem excludes it.
THEOREM ServedWhileConnected ==
    ASSUME "leave_room" \notin Events
    PROVE  Spec => [](faults = 0 => AckedIsServed)
  <1>1. NodeInv /\ ServeInv => (faults = 0 => AckedIsServed)
    BY DEF NodeInv, NodeTypeOK, ServeInv, Joined, NeededCounted, Needs, Undisturbed, AckedIsServed
  <1> QED
    BY <1>1, NodeInvariant, ServeInvariant, PTL

\* So where no connection breaks it always is.
THEOREM JoinedIsServed ==
    ASSUME "leave_room" \notin Events, MaxFaults = 0
    PROVE  Spec => []AckedIsServed
  <1>1. NodeInv => faults = 0
    BY DEF NodeInv, NodeTypeOK, TypeOK
  <1> QED
    BY <1>1, NodeInvariant, ServedWhileConnected, PTL

=============================================================================
