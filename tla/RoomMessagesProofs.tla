-------------------------- MODULE RoomMessagesProofs --------------------------
(***************************************************************************)
(* Proofs about RoomMessages for any rooms, users, handlers and bounds.    *)
(* GaplessSeq and NotifiedInOrder are inductive once it is known that the  *)
(* transaction that commits holds the row of room_sequences and has read   *)
(* its present value (RowHeldByOne).                                       *)
(***************************************************************************)
EXTENDS RoomMessages, SequenceTheorems, TLAPS

\* A handler that is at work has a user, a room and, holding the row, a seq
\* within the bound.
SenderBusy ==
    \A s \in Senders :
        /\ sender[s].pc # "idle" => sender[s].user \in Users /\ sender[s].room \in Rooms
        /\ sender[s].pc = "locked" => sender[s].seq <= MaxMessages

StoreInv ==
    /\ StoreTypeOK
    /\ SenderBusy
    /\ InsertFindsRow
    /\ RowHeldByOne
    /\ GaplessSeq
    /\ NotifiedInOrder

\* The steps that read leave everything else alone.
LEMMA ReadSteps ==
    ASSUME NEW u, NEW r, (\E kept : CatchUp(u, r, kept)) \/ FirstPage(u, r) \/ NextPage(u)
    PROVE  UNCHANGED <<roomVars, storeVars, sender, faults>>
  BY DEF CatchUp, FirstPage, NextPage

\* A step that leaves the store and the handlers alone keeps the invariant.
LEMMA Stutter ==
    ASSUME StoreInv, UNCHANGED <<roomVars, storeVars, sender, faults>>
    PROVE  StoreInv'
  BY DEF StoreInv, StoreTypeOK, SenderBusy, InsertFindsRow, RowHeldByOne, GaplessSeq,
         NotifiedInOrder, Seqs, roomVars, storeVars

-----------------------------------------------------------------------------
(* Committing *)

\* What a transaction that commits leaves in its room.
LEMMA CommitRoom ==
    ASSUME StoreInv, NEW s \in Senders, sender[s].pc = "locked", Committed(s)
    PROVE  /\ messages' \in [Rooms -> SUBSET Message]
           /\ channel' \in [Rooms -> Seq(Message)]
           /\ nextSeq' \in [Rooms -> Nat]
           /\ lock' \in [Rooms -> Senders \cup {None}]
           /\ GaplessSeq'
           /\ NotifiedInOrder'
  <1>0. PICK r, k, m : /\ r = sender[s].room
                       /\ k = sender[s].seq
                       /\ m = [seq |-> k, user |-> sender[s].user, size |-> sender[s].size]
    OBVIOUS
  <1>1. /\ r \in Rooms
        /\ k \in Nat
        /\ k = nextSeq[r]
        /\ k > 0
        /\ k <= MaxMessages
        /\ sender[s].user \in Users
        /\ sender[s].size \in Sizes
    BY <1>0 DEF StoreInv, StoreTypeOK, SenderBusy, InsertFindsRow, RowHeldByOne, Sender
  <1>2. m \in Message /\ m.seq = k
    BY <1>0, <1>1, MessageAssumption DEF Message
  <1>3. /\ messages' = [messages EXCEPT ![r] = @ \cup {m}]
        /\ channel' = [channel EXCEPT ![r] = Append(@, m)]
        /\ nextSeq' = [nextSeq EXCEPT ![r] = k + 1]
        /\ lock' = [lock EXCEPT ![r] = None]
    BY <1>0 DEF Committed
  <1>4. /\ messages \in [Rooms -> SUBSET Message]
        /\ channel \in [Rooms -> Seq(Message)]
        /\ nextSeq \in [Rooms -> Nat]
        /\ lock \in [Rooms -> Senders \cup {None}]
    BY DEF StoreInv, StoreTypeOK
  <1>5. /\ messages' \in [Rooms -> SUBSET Message]
        /\ channel' \in [Rooms -> Seq(Message)]
        /\ nextSeq' \in [Rooms -> Nat]
        /\ lock' \in [Rooms -> Senders \cup {None}]
    BY <1>1, <1>2, <1>3, <1>4
  <1>6. \A x \in Rooms : x # r => messages'[x] = messages[x] /\ channel'[x] = channel[x]
                                 /\ nextSeq'[x] = nextSeq[x]
    BY <1>3, <1>4
  <1>7. /\ messages'[r] = messages[r] \cup {m}
        /\ channel'[r] = Append(channel[r], m)
        /\ nextSeq'[r] = k + 1
    BY <1>1, <1>3, <1>4
  <1>8. \A x \in messages[r] : x.seq \in 1..(k - 1)
    <2>1. Seqs(r) = {q \in 1..nextSeq[r] : q < nextSeq[r]}
      BY <1>1 DEF StoreInv, GaplessSeq
    <2> QED
      BY <1>1, <2>1 DEF Seqs
  <1>9. GaplessSeq'
    <2>1. Seqs(r)' = {q \in 1..(k + 1) : q < k + 1}
      <3>1. Seqs(r) = {q \in 1..k : q < k}
        BY <1>1 DEF StoreInv, GaplessSeq
      <3>2. Seqs(r)' = Seqs(r) \cup {k}
        <4>1. \A x \in messages'[r] : x.seq \in Seqs(r) \cup {k}
          BY <1>2, <1>7 DEF Seqs
        <4>2. \A q \in Seqs(r) \cup {k} : \E x \in messages'[r] : x.seq = q
          BY <1>2, <1>7 DEF Seqs
        <4>3. Seqs(r)' = {x.seq : x \in messages'[r]}
          BY DEF Seqs
        <4> QED
          BY <4>1, <4>2, <4>3
      <3> QED
        BY <1>1, <3>1, <3>2
    <2>2. \A x, y \in messages'[r] : x.seq = y.seq => x = y
      <3>1. \A x, y \in messages[r] : x.seq = y.seq => x = y
        BY <1>1 DEF StoreInv, GaplessSeq
      <3>2. \A x \in messages[r] : x.seq # k
        BY <1>1, <1>8
      <3> QED
        BY <1>2, <1>7, <3>1, <3>2
    <2>3. \A x \in Rooms : x # r => Seqs(x)' = Seqs(x)
      BY <1>6 DEF Seqs
    <2>4. \A x \in Rooms :
            /\ Seqs(x) = {q \in 1..nextSeq[x] : q < nextSeq[x]}
            /\ \A y, z \in messages[x] : y.seq = z.seq => y = z
      BY DEF StoreInv, GaplessSeq
    <2>5. ASSUME NEW x \in Rooms
          PROVE  /\ Seqs(x)' = {q \in 1..nextSeq'[x] : q < nextSeq'[x]}
                 /\ \A y, z \in messages'[x] : y.seq = z.seq => y = z
      <3>1. CASE x = r
        BY <1>7, <2>1, <2>2, <3>1
      <3>2. CASE x # r
        <4>1. Seqs(x)' = Seqs(x) /\ messages'[x] = messages[x] /\ nextSeq'[x] = nextSeq[x]
          BY <1>6, <2>3, <3>2
        <4> QED
          BY <2>4, <4>1
      <3> QED
        BY <3>1, <3>2
    <2> QED
      BY <2>5 DEF GaplessSeq
  <1>10. NotifiedInOrder'
    <2> DEFINE n == Len(channel[r])
    <2>1. /\ channel[r] \in Seq(Message)
          /\ n \in Nat
          /\ DOMAIN channel[r] = 1..n
      BY <1>1, <1>4
    <2>2. /\ DOMAIN channel'[r] = 1..(n + 1)
          /\ \A i \in 1..n : channel'[r][i] = channel[r][i]
          /\ channel'[r][n + 1] = m
      BY <1>2, <1>7, <2>1
    <2> HIDE DEF n
    <2>3. /\ {channel[r][i] : i \in 1..n} = messages[r]
          /\ \A i \in 1..n : channel[r][i].seq = i
      BY <1>1, <2>1 DEF StoreInv, NotifiedInOrder
    <2>4. n + 1 = k
      <3>1. \A q \in 1..n : q \in 1..(k - 1)
        BY <1>8, <2>3
      <3>2. \A q \in 1..(k - 1) : q \in 1..n
        <4>1. SUFFICES ASSUME NEW q \in 1..(k - 1)
                       PROVE  q \in 1..n
          OBVIOUS
        <4>2. q \in Seqs(r)
          BY <1>1, <4>1 DEF StoreInv, GaplessSeq
        <4>3. PICK x \in messages[r] : x.seq = q
          BY <4>2 DEF Seqs
        <4>4. PICK i \in 1..n : channel[r][i] = x
          BY <2>3, <4>3
        <4> QED
          BY <2>3, <4>3, <4>4
      <3> QED
        BY <1>1, <2>1, <3>1, <3>2
    <2>5. {channel'[r][i] : i \in 1..(n + 1)} = messages'[r]
      <3>1. \A i \in 1..(n + 1) : channel'[r][i] \in messages'[r]
        BY <1>7, <2>1, <2>2, <2>3
      <3>2. \A x \in messages'[r] : \E i \in 1..(n + 1) : channel'[r][i] = x
        BY <1>7, <2>1, <2>2, <2>3
      <3> QED
        BY <3>1, <3>2
    <2>6. \A i \in 1..(n + 1) : channel'[r][i].seq = i
      <3>1. SUFFICES ASSUME NEW i \in 1..(n + 1)
                     PROVE  channel'[r][i].seq = i
        OBVIOUS
      <3>2. CASE i = n + 1
        BY <1>2, <2>2, <2>4, <3>2
      <3>3. CASE i \in 1..n
        BY <2>2, <2>3, <3>3
      <3> QED
        BY <2>1, <3>2, <3>3
    <2>7. \A x \in Rooms :
            /\ {channel[x][i] : i \in DOMAIN channel[x]} = messages[x]
            /\ \A i \in DOMAIN channel[x] : channel[x][i].seq = i
      BY DEF StoreInv, NotifiedInOrder
    <2>8. ASSUME NEW x \in Rooms
          PROVE  /\ {channel'[x][i] : i \in DOMAIN channel'[x]} = messages'[x]
                 /\ \A i \in DOMAIN channel'[x] : channel'[x][i].seq = i
      <3>1. CASE x = r
        BY <2>2, <2>5, <2>6, <3>1
      <3>2. CASE x # r
        <4>1. messages'[x] = messages[x] /\ channel'[x] = channel[x]
          BY <1>6, <3>2
        <4> QED
          BY <2>7, <4>1
      <3> QED
        BY <3>1, <3>2
    <2> QED
      BY <2>8 DEF NotifiedInOrder
  <1> QED
    BY <1>5, <1>9, <1>10

\* A transaction that ends, either way, frees the row and its handler.
LEMMA EndStep ==
    ASSUME StoreInv, NEW s \in Senders, sender[s].pc # "idle", Finish(s),
           UNCHANGED roomVars, faults' \in 0..MaxFaults,
           \/ RolledBack(s)
           \/ sender[s].pc = "locked" /\ Committed(s)
    PROVE  StoreInv'
  <1>1. sender' \in [Senders -> Sender]
    BY DEF StoreInv, StoreTypeOK, Finish, Idle, Sender, Sizes
  <1>2. /\ sender'[s].pc = "idle"
        /\ \A t \in Senders : t # s => sender'[t] = sender[t]
    BY DEF StoreInv, StoreTypeOK, Finish, Idle
  <1>3. SenderBusy'
    BY <1>2 DEF StoreInv, SenderBusy
  <1>4. CASE RolledBack(s)
    <2>1. UNCHANGED <<nextSeq, messages, channel>>
      BY <1>4 DEF RolledBack
    <2>2. \A x \in Rooms : lock'[x] = IF lock[x] = s THEN None ELSE lock[x]
      BY <1>4 DEF RolledBack
    <2>3. lock' \in [Rooms -> Senders \cup {None}]
      BY <1>4 DEF RolledBack, StoreInv, StoreTypeOK
    <2>4. StoreTypeOK'
      BY <1>1, <2>1, <2>3 DEF StoreInv, StoreTypeOK, roomVars
    <2>5. InsertFindsRow'
      BY <1>2, <2>1 DEF StoreInv, InsertFindsRow, roomVars
    <2>6. RowHeldByOne'
      <3>1. \A t \in Senders : sender'[t].pc = "locked" =>
                lock'[sender'[t].room] = t /\ sender'[t].seq = nextSeq'[sender'[t].room]
        BY <1>2, <2>1, <2>2 DEF StoreInv, RowHeldByOne, SenderBusy
      <3>2. \A x \in Rooms : lock'[x] # None =>
                sender'[lock'[x]].pc = "locked" /\ sender'[lock'[x]].room = x
        BY <1>2, <2>2 DEF StoreInv, StoreTypeOK, RowHeldByOne
      <3> QED
        BY <3>1, <3>2 DEF RowHeldByOne
    <2>7. GaplessSeq' /\ NotifiedInOrder'
      BY <2>1 DEF StoreInv, GaplessSeq, NotifiedInOrder, Seqs
    <2> QED
      BY <1>3, <2>4, <2>5, <2>6, <2>7 DEF StoreInv
  <1>5. CASE sender[s].pc = "locked" /\ Committed(s)
    <2>1. /\ messages' \in [Rooms -> SUBSET Message]
          /\ channel' \in [Rooms -> Seq(Message)]
          /\ nextSeq' \in [Rooms -> Nat]
          /\ lock' \in [Rooms -> Senders \cup {None}]
          /\ GaplessSeq'
          /\ NotifiedInOrder'
      BY <1>5, CommitRoom
    <2>2. PICK r \in Rooms : r = sender[s].room
      BY <1>5 DEF StoreInv, SenderBusy
    <2>3. /\ lock[r] = s
          /\ sender[s].seq = nextSeq[r]
          /\ r \in rooms
      BY <1>5, <2>2 DEF StoreInv, RowHeldByOne, InsertFindsRow
    <2>4. /\ \A x \in Rooms : x # r => nextSeq'[x] = nextSeq[x] /\ lock'[x] = lock[x]
          /\ nextSeq'[r] = sender[s].seq + 1
          /\ lock'[r] = None
      BY <1>5, <2>2 DEF Committed, StoreInv, StoreTypeOK
    <2>5. StoreTypeOK'
      BY <1>1, <2>1 DEF StoreInv, StoreTypeOK, roomVars
    <2>6. InsertFindsRow'
      <3>1. \A x \in Rooms : x \in rooms <=> nextSeq'[x] > 0
        <4>1. nextSeq[r] \in Nat
          BY DEF StoreInv, StoreTypeOK
        <4> QED
          BY <2>3, <2>4, <4>1 DEF StoreInv, InsertFindsRow
      <3> QED
        BY <1>2, <3>1 DEF StoreInv, InsertFindsRow, roomVars
    <2>7. RowHeldByOne'
      <3>1. \A t \in Senders : sender'[t].pc = "locked" =>
                lock'[sender'[t].room] = t /\ sender'[t].seq = nextSeq'[sender'[t].room]
        <4>1. SUFFICES ASSUME NEW t \in Senders, sender'[t].pc = "locked"
                       PROVE  /\ lock'[sender'[t].room] = t
                              /\ sender'[t].seq = nextSeq'[sender'[t].room]
          OBVIOUS
        <4>2. t # s /\ sender'[t] = sender[t]
          BY <1>2, <4>1
        <4>3. /\ lock[sender[t].room] = t
              /\ sender[t].seq = nextSeq[sender[t].room]
              /\ sender[t].room \in Rooms
          BY <4>1, <4>2 DEF StoreInv, RowHeldByOne, SenderBusy
        <4>4. sender[t].room # r
          BY <2>3, <4>2, <4>3
        <4> QED
          BY <2>4, <4>2, <4>3, <4>4
      <3>2. \A x \in Rooms : lock'[x] # None =>
                sender'[lock'[x]].pc = "locked" /\ sender'[lock'[x]].room = x
        <4>1. SUFFICES ASSUME NEW x \in Rooms, lock'[x] # None
                       PROVE  sender'[lock'[x]].pc = "locked" /\ sender'[lock'[x]].room = x
          OBVIOUS
        <4>2. x # r /\ lock'[x] = lock[x]
          BY <2>4, <4>1
        <4>3. /\ lock[x] \in Senders
              /\ sender[lock[x]].pc = "locked"
              /\ sender[lock[x]].room = x
          BY <4>1, <4>2 DEF StoreInv, StoreTypeOK, RowHeldByOne
        <4>4. lock[x] # s
          BY <2>2, <4>2, <4>3
        <4> QED
          BY <1>2, <4>2, <4>3, <4>4
      <3> QED
        BY <3>1, <3>2 DEF RowHeldByOne
    <2> QED
      BY <1>3, <2>1, <2>5, <2>6, <2>7 DEF StoreInv
  <1> QED
    BY <1>4, <1>5

\* A handler that takes the row reads the value no other can read until it ends.
LEMMA AssignStep ==
    ASSUME StoreInv, NEW s \in Senders, AssignSeq(s)
    PROVE  StoreInv'
  <1>1. PICK r \in Rooms : r = sender[s].room
    BY DEF AssignSeq, StoreInv, SenderBusy
  <1>2. /\ sender[s].pc = "insert"
        /\ lock[r] = None
        /\ nextSeq[r] \in Nat
        /\ nextSeq[r] <= MaxMessages
        /\ lock' = [lock EXCEPT ![r] = s]
        /\ sender' = [sender EXCEPT ![s].pc = "locked", ![s].seq = nextSeq[r]]
        /\ UNCHANGED <<roomVars, nextSeq, messages, channel, faults>>
    BY <1>1 DEF AssignSeq, StoreInv, StoreTypeOK
  <1>3. /\ sender \in [Senders -> Sender]
        /\ lock \in [Rooms -> Senders \cup {None}]
    BY DEF StoreInv, StoreTypeOK
  <1>4. /\ sender' \in [Senders -> Sender]
        /\ lock' \in [Rooms -> Senders \cup {None}]
    <2>1. PICK b : b = [sender[s] EXCEPT !.pc = "locked", !.seq = nextSeq[r]]
      OBVIOUS
    <2>2. sender[s] \in Sender
      BY <1>3
    <2>3. b \in Sender
      BY <1>2, <2>1, <2>2 DEF Sender
    <2>4. sender' = [sender EXCEPT ![s] = b]
      BY <1>2, <1>3, <2>1
    <2>5. sender' \in [Senders -> Sender]
      BY <1>3, <2>3, <2>4
    <2>6. lock' \in [Rooms -> Senders \cup {None}]
      BY <1>2, <1>3
    <2> QED
      BY <2>5, <2>6
  <1>5. /\ sender'[s].pc = "locked"
        /\ sender'[s].seq = nextSeq[r]
        /\ sender'[s].room = r
        /\ sender'[s].user = sender[s].user
        /\ \A t \in Senders : t # s => sender'[t] = sender[t]
    BY <1>1, <1>2, <1>3 DEF Sender
  <1>6. /\ lock'[r] = s
        /\ \A x \in Rooms : x # r => lock'[x] = lock[x]
    BY <1>2, <1>3
  <1>7. StoreTypeOK'
    BY <1>2, <1>4 DEF StoreInv, StoreTypeOK, roomVars
  <1>8. SenderBusy'
    BY <1>2, <1>5 DEF StoreInv, SenderBusy
  <1>9. InsertFindsRow'
    <2>1. /\ \A x \in Rooms : x \in rooms <=> nextSeq[x] > 0
          /\ \A p \in members : p[2] \in rooms
          /\ \A t \in Senders : sender[t].pc \in {"insert", "locked"} => sender[t].room \in rooms
      BY DEF StoreInv, InsertFindsRow
    <2>2. rooms' = rooms /\ members' = members /\ nextSeq' = nextSeq
      BY <1>2 DEF roomVars
    <2>3. ASSUME NEW t \in Senders, sender'[t].pc \in {"insert", "locked"}
          PROVE  sender'[t].room \in rooms
      <3>1. CASE t = s
        BY <1>1, <1>2, <1>5, <2>1, <3>1
      <3>2. CASE t # s
        BY <1>5, <2>1, <2>3, <3>2
      <3> QED
        BY <3>1, <3>2
    <2> QED
      BY <2>1, <2>2, <2>3 DEF InsertFindsRow
  <1>10. RowHeldByOne'
    <2>1. ASSUME NEW t \in Senders, sender'[t].pc = "locked"
          PROVE  lock'[sender'[t].room] = t /\ sender'[t].seq = nextSeq'[sender'[t].room]
      <3>1. CASE t = s
        BY <1>2, <1>5, <1>6, <3>1
      <3>2. CASE t # s
        <4>1. sender'[t] = sender[t]
          BY <1>5, <3>2
        <4>2. /\ lock[sender[t].room] = t
              /\ sender[t].seq = nextSeq[sender[t].room]
              /\ sender[t].room \in Rooms
          BY <2>1, <4>1 DEF StoreInv, RowHeldByOne, SenderBusy
        <4>3. sender[t].room # r
          BY <1>2, <4>2, MessageAssumption
        <4> QED
          BY <1>2, <1>6, <4>1, <4>2, <4>3
      <3> QED
        BY <3>1, <3>2
    <2>2. ASSUME NEW x \in Rooms, lock'[x] # None
          PROVE  sender'[lock'[x]].pc = "locked" /\ sender'[lock'[x]].room = x
      <3>1. CASE x = r
        BY <1>5, <1>6, <3>1
      <3>2. CASE x # r
        <4>1. /\ lock'[x] = lock[x]
              /\ lock[x] \in Senders
              /\ sender[lock[x]].pc = "locked"
              /\ sender[lock[x]].room = x
          BY <1>3, <1>6, <2>2, <3>2 DEF StoreInv, RowHeldByOne
        <4>2. lock[x] # s
          BY <1>2, <4>1
        <4> QED
          BY <1>5, <4>1, <4>2
      <3> QED
        BY <3>1, <3>2
    <2> QED
      BY <2>1, <2>2 DEF RowHeldByOne
  <1>11. GaplessSeq' /\ NotifiedInOrder'
    BY <1>2 DEF StoreInv, GaplessSeq, NotifiedInOrder, Seqs
  <1> QED
    BY <1>7, <1>8, <1>9, <1>10, <1>11 DEF StoreInv

\* A handler that does not yet hold a row starts or goes on to its INSERT.
LEMMA RequestStep ==
    ASSUME StoreInv, NEW s \in Senders, sender[s].pc \in {"idle", "check"},
           NEW b \in Sender, sender' = [sender EXCEPT ![s] = b],
           b.pc \in {"check", "insert"}, b.user \in Users, b.room \in Rooms,
           b.pc = "insert" => b.room \in rooms,
           UNCHANGED <<roomVars, storeVars, faults>>
    PROVE  StoreInv'
  <1>1. /\ sender'[s] = b
        /\ \A t \in Senders : t # s => sender'[t] = sender[t]
        /\ sender' \in [Senders -> Sender]
    BY DEF StoreInv, StoreTypeOK
  <1>2. StoreTypeOK'
    BY <1>1 DEF StoreInv, StoreTypeOK, roomVars, storeVars
  <1>3. SenderBusy'
    BY <1>1 DEF StoreInv, SenderBusy
  <1>4. InsertFindsRow'
    BY <1>1 DEF StoreInv, InsertFindsRow, roomVars, storeVars
  <1>5. RowHeldByOne'
    <2>1. \A x \in Rooms : lock[x] # s
      BY MessageAssumption DEF StoreInv, RowHeldByOne
    <2> QED
      BY <1>1, <2>1 DEF StoreInv, StoreTypeOK, RowHeldByOne, storeVars
  <1>6. GaplessSeq' /\ NotifiedInOrder'
    BY DEF StoreInv, GaplessSeq, NotifiedInOrder, Seqs, storeVars
  <1> QED
    BY <1>2, <1>3, <1>4, <1>5, <1>6 DEF StoreInv

\* createRoom adds a row for a room that had none, and so no messages.
LEMMA CreateStep ==
    ASSUME StoreInv, NEW r \in Rooms, CreateRoom(r)
    PROVE  StoreInv'
  <1>1. /\ r \notin rooms
        /\ rooms' = rooms \cup {r}
        /\ nextSeq' = [nextSeq EXCEPT ![r] = 1]
        /\ UNCHANGED <<members, lock, messages, channel, sender, faults>>
    BY DEF CreateRoom
  <1>2. /\ nextSeq[r] = 0
        /\ nextSeq'[r] = 1
        /\ \A x \in Rooms : x # r => nextSeq'[x] = nextSeq[x]
    BY <1>1 DEF StoreInv, StoreTypeOK, InsertFindsRow
  <1>3. StoreTypeOK'
    BY <1>1 DEF StoreInv, StoreTypeOK
  <1>4. SenderBusy'
    BY <1>1 DEF StoreInv, SenderBusy
  <1>5. InsertFindsRow'
    BY <1>1, <1>2 DEF StoreInv, InsertFindsRow
  <1>6. RowHeldByOne'
    BY <1>1, <1>2 DEF StoreInv, RowHeldByOne, InsertFindsRow, SenderBusy
  <1>7. GaplessSeq'
    <2>1. Seqs(r) = {}
      BY <1>2 DEF StoreInv, GaplessSeq
    <2>2. \A x \in Rooms : Seqs(x)' = Seqs(x)
      BY <1>1 DEF Seqs
    <2>3. \A x \in Rooms : Seqs(x)' = {q \in 1..nextSeq'[x] : q < nextSeq'[x]}
      <3>1. SUFFICES ASSUME NEW x \in Rooms
                     PROVE  Seqs(x)' = {q \in 1..nextSeq'[x] : q < nextSeq'[x]}
        OBVIOUS
      <3>2. CASE x = r
        <4>1. {q \in 1..1 : q < 1} = {}
          OBVIOUS
        <4> QED
          BY <1>2, <2>1, <2>2, <3>2, <4>1
      <3>3. CASE x # r
        BY <1>2, <2>2, <3>3 DEF StoreInv, GaplessSeq
      <3> QED
        BY <3>2, <3>3
    <2> QED
      BY <1>1, <2>3 DEF StoreInv, GaplessSeq
  <1>8. NotifiedInOrder'
    BY <1>1 DEF StoreInv, NotifiedInOrder
  <1> QED
    BY <1>3, <1>4, <1>5, <1>6, <1>7, <1>8 DEF StoreInv

\* joinRoom and leaveRoom change the members only; who joins finds the room.
LEMMA MemberStep ==
    ASSUME StoreInv, NEW u \in Users, NEW r \in Rooms, JoinRoom(u, r) \/ LeaveRoom(u, r)
    PROVE  StoreInv'
  <1>1. /\ UNCHANGED <<rooms, storeVars, sender, faults>>
        /\ members' \subseteq Users \X Rooms
        /\ \A p \in members' : p[2] \in rooms
    <2>1. UNCHANGED <<rooms, storeVars, sender, faults>>
      BY DEF JoinRoom, LeaveRoom
    <2>2. /\ members \subseteq Users \X Rooms
          /\ \A p \in members : p[2] \in rooms
      BY DEF StoreInv, StoreTypeOK, InsertFindsRow
    <2> QED
      BY <2>1, <2>2 DEF JoinRoom, LeaveRoom
  <1>2. StoreTypeOK'
    BY <1>1 DEF StoreInv, StoreTypeOK, storeVars
  <1>3. SenderBusy' /\ RowHeldByOne' /\ GaplessSeq' /\ NotifiedInOrder'
    BY <1>1 DEF StoreInv, SenderBusy, RowHeldByOne, GaplessSeq, NotifiedInOrder, Seqs, storeVars
  <1>4. InsertFindsRow'
    BY <1>1 DEF StoreInv, InsertFindsRow, storeVars
  <1> QED
    BY <1>2, <1>3, <1>4 DEF StoreInv

\* A handler that fails the membership check, like one whose query fails before
\* it has the row, has nothing to roll back.
LEMMA RefuseStep ==
    ASSUME StoreInv, NEW s \in Senders, sender[s].pc = "check", Finish(s),
           UNCHANGED <<roomVars, storeVars, faults>>
    PROVE  StoreInv'
  <1>1. \A x \in Rooms : lock[x] # s
    BY MessageAssumption DEF StoreInv, RowHeldByOne
  <1>2. RolledBack(s)
    BY <1>1 DEF RolledBack, storeVars, StoreInv, StoreTypeOK
  <1>3. faults' \in 0..MaxFaults
    BY DEF StoreInv, StoreTypeOK
  <1> QED
    BY <1>2, <1>3, EndStep DEF roomVars

-----------------------------------------------------------------------------
(* The invariant *)

LEMMA InitStore ==
    ASSUME Init
    PROVE  StoreInv
  <1>1. StoreTypeOK
    BY MessageAssumption DEF Init, StoreTypeOK, Idle, Sender, Sizes
  <1>2. SenderBusy /\ InsertFindsRow /\ RowHeldByOne
    BY DEF Init, SenderBusy, InsertFindsRow, RowHeldByOne, Idle
  <1>3. GaplessSeq
    <2>1. \A r \in Rooms : Seqs(r) = {} /\ messages[r] = {} /\ nextSeq[r] = 0
      BY DEF Init, Seqs
    <2>2. {q \in 1..0 : q < 0} = {}
      OBVIOUS
    <2> QED
      BY <2>1, <2>2 DEF GaplessSeq
  <1>4. NotifiedInOrder
    BY DEF Init, NotifiedInOrder
  <1> QED
    BY <1>1, <1>2, <1>3, <1>4 DEF StoreInv

LEMMA CheckStep ==
    ASSUME StoreInv, NEW s \in Senders, CheckMember(s)
    PROVE  StoreInv'
  <1>1. /\ sender[s].pc = "check"
        /\ UNCHANGED <<roomVars, storeVars, faults>>
        /\ sender[s] \in Sender
        /\ sender[s].user \in Users
        /\ sender[s].room \in Rooms
    BY DEF CheckMember, StoreInv, StoreTypeOK, SenderBusy
  <1>2. CASE <<sender[s].user, sender[s].room>> \in members
    <2>1. PICK b : b = [sender[s] EXCEPT !.pc = "insert"]
      OBVIOUS
    <2>2. sender' = [sender EXCEPT ![s] = b]
      BY <1>2, <2>1 DEF CheckMember, StoreInv, StoreTypeOK
    <2>3. /\ b \in Sender
          /\ b.pc = "insert"
          /\ b.user = sender[s].user
          /\ b.room = sender[s].room
      BY <1>1, <2>1 DEF Sender
    <2>4. b.room \in rooms
      BY <1>2, <2>3 DEF StoreInv, InsertFindsRow
    <2> QED
      BY <1>1, <2>2, <2>3, <2>4, RequestStep
  <1>3. CASE <<sender[s].user, sender[s].room>> \notin members
    BY <1>1, <1>3, RefuseStep DEF CheckMember
  <1> QED
    BY <1>2, <1>3

LEMMA StepStore ==
    ASSUME StoreInv, [Next]_vars
    PROVE  StoreInv'
  <1>1. ASSUME NEW r \in Rooms, CreateRoom(r)
        PROVE  StoreInv'
    BY <1>1, CreateStep
  <1>2. ASSUME NEW u \in Users, NEW r \in Rooms, JoinRoom(u, r) \/ LeaveRoom(u, r)
        PROVE  StoreInv'
    BY <1>2, MemberStep
  <1>3. ASSUME NEW s \in Senders, NEW via \in {"ws", "http"}, NEW u \in Users,
               NEW r \in Rooms, NEW size \in Sizes, Request(s, via, u, r, size)
        PROVE  StoreInv'
    <2>1. PICK b : b = [pc |-> "check", user |-> u, room |-> r, size |-> size, seq |-> 0]
      OBVIOUS
    <2>2. b \in Sender /\ b.pc = "check" /\ b.user = u /\ b.room = r
      BY <2>1 DEF Sender
    <2>3. /\ sender[s].pc \in {"idle", "check"}
          /\ sender' = [sender EXCEPT ![s] = b]
          /\ UNCHANGED <<roomVars, storeVars, faults>>
      BY <1>3, <2>1 DEF Request
    <2> QED
      BY <2>2, <2>3, RequestStep
  <1>4. ASSUME NEW s \in Senders, CheckMember(s)
        PROVE  StoreInv'
    BY <1>4, CheckStep
  <1>5. ASSUME NEW s \in Senders, AssignSeq(s)
        PROVE  StoreInv'
    BY <1>5, AssignStep
  <1>6. ASSUME NEW s \in Senders, Commit(s) \/ PayloadTooLong(s) \/ QueryFails(s)
        PROVE  StoreInv'
    <2>1. /\ Finish(s)
          /\ sender[s].pc # "idle"
          /\ UNCHANGED roomVars
          /\ RolledBack(s) \/ (sender[s].pc = "locked" /\ Committed(s))
      BY <1>6 DEF Commit, PayloadTooLong, QueryFails
    <2>2. faults' \in 0..MaxFaults
      BY <1>6, MessageAssumption DEF Commit, PayloadTooLong, QueryFails, StoreInv, StoreTypeOK
    <2> QED
      BY <2>1, <2>2, EndStep
  <1>7. ASSUME NEW u, NEW r, (\E kept : CatchUp(u, r, kept)) \/ FirstPage(u, r) \/ NextPage(u)
        PROVE  StoreInv'
    BY <1>7, ReadSteps, Stutter
  <1>8. CASE UNCHANGED vars
    BY <1>8, Stutter DEF vars
  <1> QED
    BY <1>1, <1>2, <1>3, <1>4, <1>5, <1>6, <1>7, <1>8 DEF Next, SenderStep

\* Whatever the posts, memberships, failures and reads of any number of
\* handlers, the tables, the rows held and the channels stay consistent.
THEOREM StoreInvariant == Spec => []StoreInv
  BY InitStore, StepStore, PTL DEF Spec

\* The tables, the handlers and the channels keep the form of the columns and
\* fields they stand for.
THEOREM StoreTypeCorrect == Spec => []StoreTypeOK
  <1>1. StoreInv => StoreTypeOK
    BY DEF StoreInv
  <1> QED
    BY <1>1, StoreInvariant, PTL

\* The row of room_sequences is a mutual exclusion: who is between its trigger
\* and its commit is alone in its room, and holds the value it read.
THEOREM RowExclusive == Spec => []RowHeldByOne
  <1>1. StoreInv => RowHeldByOne
    BY DEF StoreInv
  <1> QED
    BY <1>1, StoreInvariant, PTL

\* The trigger of an INSERT that passed the membership check finds the row it
\* needs: rooms get theirs with them and are never deleted.
THEOREM RowFound == Spec => []InsertFindsRow
  <1>1. StoreInv => InsertFindsRow
    BY DEF StoreInv
  <1> QED
    BY <1>1, StoreInvariant, PTL

\* The seq of a room's messages is 1, 2, ... n for any number of handlers that
\* post at once, are refused, fail or lose the answer to their commit.
THEOREM SeqGapless == Spec => []GaplessSeq
  <1>1. StoreInv => GaplessSeq
    BY DEF StoreInv
  <1> QED
    BY <1>1, StoreInvariant, PTL

\* The channel of a room carries its messages once each, in the order of seq.
THEOREM NotifiedCorrect == Spec => []NotifiedInOrder
  <1>1. StoreInv => NotifiedInOrder
    BY DEF StoreInv
  <1> QED
    BY <1>1, StoreInvariant, PTL

=============================================================================
