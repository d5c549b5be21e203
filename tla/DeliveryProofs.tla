--------------------------- MODULE DeliveryProofs ---------------------------
(***************************************************************************)
(* Proofs about Delivery, for all values of its constants: its types, that *)
(* it is a node of RoomSockets, that live messages are sent in order and   *)
(* once, that what is buffered has a timer running, and that no message of *)
(* a room is missed between its history and the live ones, as long as      *)
(* joins and leaves of a room do not overlap (OneAtATime).                 *)
(*                                                                         *)
(* A message of a room goes from the wire to the buffer, from there to the *)
(* callback of setImmediate, and to the sockets.  FlowInv says that each   *)
(* stage is in order and ahead of those before it.  TurnsInv says that a   *)
(* node that serves a room listens on it, HistoryKept what a handler that  *)
(* has read the history still finds on its way to the client.              *)
(***************************************************************************)
EXTENDS Delivery, RoomSocketsProofs

Increasing(q) == \A i, j \in DOMAIN q : i < j => q[i] < q[j]

\* a is ahead of b: its messages are older.
Ahead(a, b) == \A i \in DOMAIN a, j \in DOMAIN b : a[i] < b[j]

\* a is ahead of what is on the wire w for room r.
AheadOfWire(a, r, w) == \A i \in DOMAIN a, j \in DOMAIN w : w[j].room = r => a[i] < w[j].seq

\* a holds messages of r among 1..n, in order, that have left the wire w.
Stage(a, r, w, n) ==
    /\ a \in Seq(Nat)
    /\ Increasing(a)
    /\ AheadOfWire(a, r, w)
    /\ \A i \in DOMAIN a : a[i] <= n

WireInv ==
    /\ wire \in Seq([room : Rooms, seq : Nat])
    /\ \A i, j \in DOMAIN wire : i < j /\ wire[i].room = wire[j].room => wire[i].seq < wire[j].seq
    /\ \A i \in DOMAIN wire : wire[i].seq <= committed[wire[i].room]

BuffersInv ==
    /\ DOMAIN buffers = Rooms
    /\ \A r \in Rooms : Stage(buffers[r], r, wire, committed[r])

SendingInv ==
    /\ DOMAIN sending = Rooms
    /\ \A r \in Rooms :
          /\ Stage(sending[r].batch, r, wire, committed[r])
          /\ Ahead(sending[r].batch, buffers[r])

HeardInv ==
    /\ DOMAIN heard = Sockets \X Rooms
    /\ \A s \in Sockets, r \in Rooms :
          /\ Stage(heard[<<s, r>>], r, wire, committed[r])
          /\ Ahead(heard[<<s, r>>], sending[r].batch)
          /\ Ahead(heard[<<s, r>>], buffers[r])

FlowInv ==
    /\ committed \in [Rooms -> Nat]
    /\ WireInv
    /\ BuffersInv
    /\ SendingInv
    /\ HeardInv

-----------------------------------------------------------------------------
(* Lemmas on sequences *)

\* Appending to a sequence: what it holds, and where.
LEMMA AppendFacts ==
    ASSUME NEW T, NEW q \in Seq(T), NEW x \in T
    PROVE  /\ Append(q, x) \in Seq(T)
           /\ DOMAIN Append(q, x) = 1..Len(q) + 1
           /\ DOMAIN q = 1..Len(q)
           /\ Len(q) \in Nat
           /\ \A i \in 1..Len(q) : Append(q, x)[i] = q[i]
           /\ Append(q, x)[Len(q) + 1] = x
  OBVIOUS

\* Taking the head off a sequence moves the others one place.
LEMMA TailFacts ==
    ASSUME NEW T, NEW q \in Seq(T), q # <<>>
    PROVE  /\ Tail(q) \in Seq(T)
           /\ Head(q) \in T
           /\ Head(q) = q[1]
           /\ 1 \in DOMAIN q
           /\ \A i \in DOMAIN Tail(q) : /\ i + 1 \in DOMAIN q
                                        /\ Tail(q)[i] = q[i + 1]
                                        /\ 1 < i + 1
                                        /\ i \in Nat
  OBVIOUS

\* A sequence in order goes on with a later element.
LEMMA IncreasingAppend ==
    ASSUME NEW q \in Seq(Nat), NEW x \in Nat, Increasing(q), \A i \in DOMAIN q : q[i] < x
    PROVE  Increasing(Append(q, x))
  BY AppendFacts DEF Increasing

\* The elements of a concatenation are those of its parts.
LEMMA ConcatFacts ==
    ASSUME NEW a \in Seq(Nat), NEW b \in Seq(Nat)
    PROVE  /\ a \o b \in Seq(Nat)
           /\ DOMAIN a = 1..Len(a) /\ Len(a) \in Nat
           /\ \A i \in DOMAIN (a \o b) :
                 \/ i \in DOMAIN a /\ (a \o b)[i] = a[i]
                 \/ i > Len(a) /\ i - Len(a) \in DOMAIN b /\ (a \o b)[i] = b[i - Len(a)]
  OBVIOUS

\* Two sequences in order, one ahead of the other, make one in order.
LEMMA IncreasingConcat ==
    ASSUME NEW a \in Seq(Nat), NEW b \in Seq(Nat),
           Increasing(a), Increasing(b), Ahead(a, b)
    PROVE  Increasing(a \o b)
  <1> SUFFICES ASSUME NEW i \in DOMAIN (a \o b), NEW j \in DOMAIN (a \o b), i < j
               PROVE  (a \o b)[i] < (a \o b)[j]
    BY DEF Increasing
  <1>1. i \in Nat /\ j \in Nat
    BY ConcatFacts
  <1> QED
    BY <1>1, ConcatFacts DEF Increasing, Ahead

-----------------------------------------------------------------------------
(* The steps *)

\* A stage is not disturbed by the loss of the wire, its head leaving it, or a new
\* message.
LEMMA StageWireLost ==
    ASSUME NEW a, NEW r, NEW w, NEW n, Stage(a, r, w, n)
    PROVE  Stage(a, r, <<>>, n)
  BY DEF Stage, AheadOfWire

LEMMA StageWireTail ==
    ASSUME NEW T, NEW a, NEW r, NEW w \in Seq(T), NEW n, w # <<>>, Stage(a, r, w, n)
    PROVE  Stage(a, r, Tail(w), n)
  BY TailFacts DEF Stage, AheadOfWire

LEMMA StageWireAppend ==
    ASSUME NEW T, NEW a, NEW r, NEW w \in Seq(T), NEW m \in T, NEW n \in Nat, NEW k \in Nat,
           n <= k, m.room = r => m.seq \in Nat /\ m.seq > n, Stage(a, r, w, n)
    PROVE  Stage(a, r, Append(w, m), k)
  <1>1. \A i \in DOMAIN a : a[i] \in Nat /\ a[i] <= n
    BY DEF Stage
  <1>2. AheadOfWire(a, r, Append(w, m))
    BY <1>1, AppendFacts DEF Stage, AheadOfWire
  <1> QED
    BY <1>1, <1>2 DEF Stage

LEMMA StageLater ==
    ASSUME NEW a, NEW r, NEW w, NEW n \in Nat, NEW k \in Nat, n <= k, Stage(a, r, w, n)
    PROVE  Stage(a, r, w, k)
  <1>1. \A i \in DOMAIN a : a[i] \in Nat /\ a[i] <= n
    BY DEF Stage
  <1> QED
    BY <1>1 DEF Stage

\* The empty stage.
LEMMA StageEmpty ==
    ASSUME NEW r, NEW w, NEW n
    PROVE  Stage(<<>>, r, w, n)
  BY DEF Stage, Increasing, AheadOfWire

\* At first nothing is under way.
LEMMA FlowInit == DeliveryInit => FlowInv
  <1> SUFFICES ASSUME DeliveryInit PROVE FlowInv
    OBVIOUS
  <1>1. /\ committed = [r \in Rooms |-> 0]
        /\ wire = <<>>
        /\ buffers = [r \in Rooms |-> <<>>]
        /\ sending = [r \in Rooms |-> [to |-> {}, batch |-> <<>>]]
        /\ heard = [p \in Sockets \X Rooms |-> <<>>]
    BY DEF DeliveryInit, NoBatch
  <1>2. WireInv
    BY <1>1 DEF WireInv
  <1>3. \A a : Ahead(a, <<>>)
    BY DEF Ahead
  <1>4. BuffersInv
    BY <1>1, StageEmpty DEF BuffersInv
  <1>5. SendingInv
    BY <1>1, <1>3, StageEmpty DEF SendingInv
  <1>6. HeardInv
    BY <1>1, <1>3, StageEmpty DEF HeardInv
  <1> QED
    BY <1>1, <1>2, <1>4, <1>5, <1>6 DEF FlowInv

\* A step that leaves the stages alone, and at most loses the wire.
LEMMA FlowElsewhere ==
    ASSUME FlowInv, UNCHANGED <<committed, buffers, sending, heard>>,
           wire' = wire \/ wire' = <<>>
    PROVE  FlowInv'
  <1>1. CASE wire' = wire
    BY <1>1 DEF FlowInv, WireInv, BuffersInv, SendingInv, HeardInv
  <1>2. CASE wire' = <<>>
    <2>1. WireInv'
      BY <1>2 DEF WireInv
    <2> QED
      BY <1>2, <2>1, StageWireLost DEF FlowInv, BuffersInv, SendingInv, HeardInv
  <1> QED
    BY <1>1, <1>2

\* A new message is the last of its room.
LEMMA FlowPost ==
    ASSUME FlowInv, NEW r \in Rooms, Post(r)
    PROVE  FlowInv'
  <1> DEFINE m == [room |-> r, seq |-> committed[r] + 1]
  <1>1. /\ committed' = [committed EXCEPT ![r] = @ + 1]
        /\ wire' = Append(wire, m) \/ wire' = wire
        /\ UNCHANGED <<buffers, sending, heard>>
    BY DEF Post
  <1>2. /\ m \in [room : Rooms, seq : Nat]
        /\ wire \in Seq([room : Rooms, seq : Nat])
        /\ committed \in [Rooms -> Nat] /\ committed' \in [Rooms -> Nat]
        /\ \A q \in Rooms : committed[q] <= committed'[q]
        /\ committed'[r] = committed[r] + 1
    BY <1>1 DEF FlowInv, WireInv
  <1>3. WireInv'
    <2>a. \A i \in DOMAIN wire : wire[i].room \in Rooms /\ wire[i].seq \in Nat
      <3>1. wire \in Seq([room : Rooms, seq : Nat])
        BY DEF FlowInv, WireInv
      <3>2. \A i \in DOMAIN wire : wire[i] \in [room : Rooms, seq : Nat]
        <4> DEFINE T == [room : Rooms, seq : Nat]
        <4>1. wire \in Seq(T)
          BY <3>1
        <4> HIDE DEF T, m
        <4>2. \A i \in DOMAIN wire : wire[i] \in T
          BY <4>1
        <4> QED
          BY <4>2 DEF T
      <3> QED
        BY <3>2
    <2>b. \A i \in DOMAIN wire : wire[i].seq <= committed'[wire[i].room]
      <3> SUFFICES ASSUME NEW i \in DOMAIN wire
                   PROVE  wire[i].seq <= committed'[wire[i].room]
        OBVIOUS
      <3>1. wire[i].seq <= committed[wire[i].room]
        BY DEF FlowInv, WireInv
      <3>2. /\ wire[i].seq \in Nat
            /\ committed[wire[i].room] \in Nat
            /\ committed'[wire[i].room] \in Nat
            /\ committed[wire[i].room] <= committed'[wire[i].room]
        BY <1>2, <2>a
      <3> QED
        BY <3>1, <3>2
    <2>1. CASE wire' = wire
      BY <1>2, <2>1, <2>b DEF FlowInv, WireInv
    <2>2. CASE wire' = Append(wire, m)
      <3>1. /\ wire' \in Seq([room : Rooms, seq : Nat])
            /\ DOMAIN wire' = 1..Len(wire) + 1
            /\ DOMAIN wire = 1..Len(wire)
            /\ Len(wire) \in Nat
            /\ \A i \in 1..Len(wire) : wire'[i] = wire[i]
            /\ wire'[Len(wire) + 1] = m
        BY <1>2, <2>2, AppendFacts
      <3>3. \A i \in DOMAIN wire : wire[i].seq <= committed[wire[i].room]
        BY DEF FlowInv, WireInv
      <3>4. m.room = r /\ m.seq = committed'[r] /\ committed'[r] \in Nat
        BY <1>2
      <3>5. \A i \in DOMAIN wire' : wire'[i].seq <= committed'[wire'[i].room]
        <4> SUFFICES ASSUME NEW i \in DOMAIN wire'
                     PROVE  wire'[i].seq <= committed'[wire'[i].room]
          OBVIOUS
        <4> HIDE DEF m
        <4>1. CASE i \in DOMAIN wire
          BY <2>b, <3>1, <4>1
        <4>2. CASE i = Len(wire) + 1
          BY <3>1, <3>4, <4>2
        <4> QED
          BY <3>1, <4>1, <4>2
      <3>6. \A i \in DOMAIN wire : wire[i].room = r => wire[i].seq < m.seq
        BY <1>2, <2>a, <3>3
      <3>7. \A i, j \in DOMAIN wire' :
               i < j /\ wire'[i].room = wire'[j].room => wire'[i].seq < wire'[j].seq
        <4> SUFFICES ASSUME NEW i \in DOMAIN wire', NEW j \in DOMAIN wire', i < j,
                            wire'[i].room = wire'[j].room
                     PROVE  wire'[i].seq < wire'[j].seq
          OBVIOUS
        <4>1. i \in DOMAIN wire /\ wire'[i] = wire[i]
          BY <3>1
        <4>2. CASE j \in DOMAIN wire
          BY <3>1, <4>1, <4>2 DEF FlowInv, WireInv
        <4>3. CASE j = Len(wire) + 1
          BY <3>1, <3>6, <4>1, <4>3
        <4> QED
          BY <3>1, <4>2, <4>3
      <3> QED
        BY <3>1, <3>5, <3>7 DEF WireInv
    <2> QED
      BY <1>1, <2>1, <2>2
  <1>4. ASSUME NEW q \in Rooms, NEW a, Stage(a, q, wire, committed[q])
        PROVE  Stage(a, q, wire', committed'[q])
    <2>1. CASE wire' = Append(wire, m)
      <3>1. /\ committed[q] \in Nat /\ committed'[q] \in Nat
            /\ committed[q] <= committed'[q]
            /\ m.room = q => m.seq \in Nat /\ m.seq > committed[q]
        BY <1>2
      <3> HIDE DEF m
      <3> QED
        BY <2>1, <3>1, <1>2, <1>4, StageWireAppend
    <2>2. CASE wire' = wire
      BY <2>2, <1>2, <1>4, StageLater
    <2> QED
      BY <1>1, <2>1, <2>2
  <1> QED
    BY <1>1, <1>2, <1>3, <1>4 DEF FlowInv, BuffersInv, SendingInv, HeardInv

\* The oldest message of the wire goes to the end of its buffer: what has left the
\* wire is older, what is on it is newer.
LEMMA FlowNotified ==
    ASSUME FlowInv, Notified
    PROVE  FlowInv'
  <1> DEFINE m == Head(wire)
             r == m.room
  <1>1. /\ wire # <<>>
        /\ wire' = Tail(wire)
        /\ buffers' = buffers \/ buffers' = [buffers EXCEPT ![r] = Append(@, m.seq)]
        /\ UNCHANGED <<committed, sending, heard>>
    BY DEF Notified
  <1>2. /\ wire \in Seq([room : Rooms, seq : Nat])
        /\ m = wire[1] /\ 1 \in DOMAIN wire
        /\ r \in Rooms /\ m.seq \in Nat
        /\ m.seq <= committed[r]
    <2>1. wire \in Seq([room : Rooms, seq : Nat])
      BY DEF FlowInv, WireInv
    <2>2. m = wire[1] /\ 1 \in DOMAIN wire /\ m \in [room : Rooms, seq : Nat]
      BY <1>1, <2>1, TailFacts
    <2> QED
      BY <2>1, <2>2 DEF FlowInv, WireInv
  <1>3. WireInv'
    <2>1. /\ wire' \in Seq([room : Rooms, seq : Nat])
          /\ \A i \in DOMAIN wire' : i + 1 \in DOMAIN wire /\ wire'[i] = wire[i + 1] /\ i \in Nat
      BY <1>1, <1>2, TailFacts
    <2>2. \A i, j \in DOMAIN wire' : i < j /\ wire'[i].room = wire'[j].room => wire'[i].seq < wire'[j].seq
      <3> SUFFICES ASSUME NEW i \in DOMAIN wire', NEW j \in DOMAIN wire', i < j,
                          wire'[i].room = wire'[j].room
                   PROVE  wire'[i].seq < wire'[j].seq
        OBVIOUS
      <3>1. i + 1 \in DOMAIN wire /\ j + 1 \in DOMAIN wire /\ i + 1 < j + 1
        BY <2>1
      <3> QED
        BY <2>1, <3>1 DEF FlowInv, WireInv
    <2>3. \A i \in DOMAIN wire' : wire'[i].seq <= committed'[wire'[i].room]
      BY <1>1, <2>1 DEF FlowInv, WireInv
    <2> QED
      BY <2>1, <2>2, <2>3 DEF WireInv
  <1>4. \A a, q, n : Stage(a, q, wire, n) => Stage(a, q, wire', n)
    BY <1>1, <1>2, StageWireTail
  <1>5. ASSUME NEW a, Stage(a, r, wire, committed[r])
        PROVE  \A i \in DOMAIN a : a[i] < m.seq
    BY <1>2, <1>5 DEF Stage, AheadOfWire
  <1>6. CASE buffers' = buffers
    BY <1>1, <1>3, <1>4, <1>6 DEF FlowInv, BuffersInv, SendingInv, HeardInv
  <1>7. CASE buffers' = [buffers EXCEPT ![r] = Append(@, m.seq)]
    <2> DEFINE b == buffers[r]
    <2>1. /\ DOMAIN buffers' = Rooms
          /\ buffers'[r] = Append(b, m.seq)
          /\ \A q \in Rooms : q # r => buffers'[q] = buffers[q]
          /\ Stage(b, r, wire, committed[r])
          /\ b \in Seq(Nat)
      BY <1>2, <1>7 DEF FlowInv, BuffersInv, Stage
    <2>2. Increasing(Append(b, m.seq))
      BY <1>2, <1>5, <2>1, IncreasingAppend DEF Stage
    <2>3. \A j \in DOMAIN wire' : wire'[j].room = r => m.seq < wire'[j].seq
      BY <1>1, <1>2, TailFacts DEF FlowInv, WireInv
    <2>4. Stage(b, r, wire', committed[r])
      BY <1>4, <2>1
    <2>5. Stage(Append(b, m.seq), r, wire', committed[r])
      <3>1. \A i \in DOMAIN Append(b, m.seq) :
               (i \in DOMAIN b /\ Append(b, m.seq)[i] = b[i]) \/ Append(b, m.seq)[i] = m.seq
        BY <1>2, <2>1, AppendFacts
      <3>2. Append(b, m.seq) \in Seq(Nat)
        BY <1>2, <2>1, AppendFacts
      <3> QED
        BY <1>2, <2>2, <2>3, <2>4, <3>1, <3>2 DEF Stage, AheadOfWire
    <2>6. ASSUME NEW a, Stage(a, r, wire, committed[r]), Ahead(a, b)
          PROVE  Ahead(a, Append(b, m.seq))
      BY <1>2, <1>5, <2>1, <2>6, AppendFacts DEF Ahead
    <2>7. BuffersInv'
      BY <1>1, <1>4, <2>1, <2>5 DEF FlowInv, BuffersInv
    <2>8. SendingInv'
      BY <1>1, <1>4, <2>1, <2>6 DEF FlowInv, SendingInv
    <2>9. HeardInv'
      BY <1>1, <1>4, <2>1, <2>6 DEF FlowInv, HeardInv
    <2> QED
      BY <1>1, <1>3, <2>7, <2>8, <2>9 DEF FlowInv
  <1> QED
    BY <1>1, <1>6, <1>7

\* The buffers are handed to the callbacks, or dropped where nobody is to get them.
LEMMA FlowFlush ==
    ASSUME FlowInv, Flush
    PROVE  FlowInv'
  <1>1. /\ UNCHANGED <<committed, wire, heard>>
        /\ buffers' = [r \in Rooms |-> <<>>]
        /\ \E S \in SUBSET Slow : sending' = [r \in Rooms |->
               IF buffers[r] = <<>> \/ Targets(r, S) = {} THEN NoBatch
               ELSE [to |-> Targets(r, S), batch |-> buffers[r]]]
    BY DEF Flush
  <1>2. /\ DOMAIN sending' = Rooms
        /\ \A r \in Rooms : sending'[r].batch = <<>> \/ sending'[r].batch = buffers[r]
    <2> PICK S \in SUBSET Slow : sending' = [r \in Rooms |->
               IF buffers[r] = <<>> \/ Targets(r, S) = {} THEN NoBatch
               ELSE [to |-> Targets(r, S), batch |-> buffers[r]]]
      BY <1>1
    <2>1. DOMAIN sending' = Rooms
      OBVIOUS
    <2>2. ASSUME NEW r \in Rooms
          PROVE  sending'[r].batch = <<>> \/ sending'[r].batch = buffers[r]
      <3>1. sending'[r] = [to |-> {}, batch |-> <<>>]
            \/ sending'[r] = [to |-> Targets(r, S), batch |-> buffers[r]]
        BY DEF NoBatch
      <3> QED
        BY <3>1
    <2> QED
      BY <2>1, <2>2
  <1>3. BuffersInv'
    BY <1>1, StageEmpty DEF BuffersInv
  <1>4. \A a : \A r \in Rooms : Ahead(a, <<>>) /\ Ahead(a, buffers'[r])
    BY <1>1 DEF Ahead
  <1>5. SendingInv'
    <2> SUFFICES ASSUME NEW r \in Rooms
                 PROVE  /\ Stage(sending'[r].batch, r, wire', committed'[r])
                        /\ Ahead(sending'[r].batch, buffers'[r])
      BY <1>2 DEF SendingInv
    <2>1. Stage(<<>>, r, wire, committed[r]) /\ Stage(buffers[r], r, wire, committed[r])
      BY StageEmpty DEF FlowInv, BuffersInv
    <2>2. Stage(sending'[r].batch, r, wire, committed[r])
      BY <1>2, <2>1
    <2>3. Stage(sending'[r].batch, r, wire', committed'[r])
      BY <1>1, <2>2
    <2>4. Ahead(sending'[r].batch, buffers'[r])
      BY <1>4
    <2> QED
      BY <2>3, <2>4
  <1>6. HeardInv'
    BY <1>1, <1>2, <1>4 DEF FlowInv, HeardInv
  <1> QED
    BY <1>1, <1>3, <1>5, <1>6 DEF FlowInv, WireInv

\* A batch is sent to some of the sockets: it is newer than what they were sent and
\* older than the rest.
LEMMA FlowSend ==
    ASSUME FlowInv, NEW r \in Rooms, Send(r)
    PROVE  FlowInv'
  <1> DEFINE b == sending[r].batch
  <1>1. /\ UNCHANGED <<committed, wire, buffers>>
        /\ sending' = [sending EXCEPT ![r] = NoBatch]
        /\ heard' = [p \in Sockets \X Rooms |->
              IF p[2] = r /\ p[1] \in sending[r].to /\ conn[p[1]] = "open"
              THEN heard[p] \o b ELSE heard[p]]
    BY DEF Send
  <1>2. /\ DOMAIN sending' = Rooms
        /\ sending'[r] = [to |-> {}, batch |-> <<>>]
        /\ sending'[r].batch = <<>>
        /\ \A q \in Rooms : q # r => sending'[q] = sending[q]
    BY <1>1 DEF FlowInv, SendingInv, NoBatch
  <1>3. \A a : Ahead(a, <<>>) /\ Ahead(<<>>, a)
    BY DEF Ahead
  <1>4. SendingInv'
    <2> SUFFICES ASSUME NEW q \in Rooms
                 PROVE  /\ Stage(sending'[q].batch, q, wire, committed[q])
                        /\ Ahead(sending'[q].batch, buffers[q])
      BY <1>1, <1>2 DEF SendingInv
    <2>1. CASE q = r
      BY <2>1, <1>2, <1>3, StageEmpty
    <2>2. CASE q # r
      BY <2>2, <1>2 DEF FlowInv, SendingInv
    <2> QED
      BY <2>1, <2>2
  <1>5. HeardInv'
    <2> SUFFICES ASSUME NEW s \in Sockets, NEW q \in Rooms
                 PROVE  /\ Stage(heard'[<<s, q>>], q, wire, committed[q])
                        /\ Ahead(heard'[<<s, q>>], sending'[q].batch)
                        /\ Ahead(heard'[<<s, q>>], buffers[q])
      BY <1>1 DEF HeardInv
    <2> DEFINE a == heard[<<s, q>>]
    <2>1. /\ Stage(a, q, wire, committed[q])
          /\ Ahead(a, sending[q].batch)
          /\ Ahead(a, buffers[q])
      BY DEF FlowInv, HeardInv
    <2>2. CASE heard'[<<s, q>>] = a
      <3>1. Ahead(a, sending'[q].batch)
        BY <1>2, <1>3, <2>1
      <3> QED
        BY <2>1, <2>2, <3>1
    <2>3. CASE q = r /\ heard'[<<s, q>>] = a \o b
      <3>1. /\ Stage(b, q, wire, committed[q])
            /\ Ahead(b, buffers[q])
        BY <2>3 DEF FlowInv, SendingInv
      <3>2. a \in Seq(Nat) /\ b \in Seq(Nat) /\ Increasing(a) /\ Increasing(b)
        BY <2>1, <3>1 DEF Stage
      <3>3. Increasing(a \o b)
        BY <2>1, <2>3, <3>2, IncreasingConcat
      <3>4. \A i \in DOMAIN (a \o b) :
               \/ \E j \in DOMAIN a : (a \o b)[i] = a[j]
               \/ \E j \in DOMAIN b : (a \o b)[i] = b[j]
        BY <3>2, ConcatFacts
      <3>5. Stage(a \o b, q, wire, committed[q])
        BY <2>1, <3>1, <3>2, <3>3, <3>4, ConcatFacts DEF Stage, AheadOfWire
      <3>6. Ahead(a \o b, buffers[q])
        BY <2>1, <3>1, <3>4 DEF Ahead
      <3> QED
        BY <1>2, <1>3, <2>3, <3>5, <3>6
    <2> QED
      BY <1>1, <2>2, <2>3
  <1> QED
    BY <1>1, <1>4, <1>5 DEF FlowInv, WireInv, BuffersInv

\* Every other step leaves the stages alone.
LEMMA FlowNext ==
    ASSUME FlowInv, [DeliveryNext]_allVars
    PROVE  FlowInv'
  <1>1. CASE \E r \in Rooms : Post(r) \/ Send(r)
    BY <1>1, FlowPost, FlowSend
  <1>2. CASE Notified
    BY <1>2, FlowNotified
  <1>3. CASE Flush
    BY <1>3, FlowFlush
  <1>4. CASE Listen
    BY <1>4, FlowElsewhere DEF Listen
  <1>5. CASE \E h \in Callers : ReadHistory(h) \/ Handle(h)
    BY <1>5, FlowElsewhere DEF ReadHistory, Handle
  <1>6. CASE \E h \in Callers, s \in Sockets, r \in Rooms : Join(h, s, r)
    BY <1>6, FlowElsewhere DEF Join
  <1>7. CASE UNCHANGED deliveryVars
    BY <1>7, FlowElsewhere DEF deliveryVars
  <1> QED
    BY <1>1, <1>2, <1>3, <1>4, <1>5, <1>6, <1>7
    DEF DeliveryNext, DeliveryStep, Leave, allVars

-----------------------------------------------------------------------------
(* Types *)

\* A page begins after the cursor and ends at a message that there is.
LEMMA PageType ==
    ASSUME NEW after \in 0..MaxMessages, NEW last \in 0..MaxMessages
    PROVE  Page(after, last) \in History
  BY DeliveryAssumption DEF Page, History

\* The elements of two sequences make one of the same type.
LEMMA ConcatType ==
    ASSUME NEW T, NEW a \in Seq(T), NEW b \in Seq(T)
    PROVE  a \o b \in Seq(T)
  OBVIOUS

LEMMA TypeInit == DeliveryInit => DeliveryTypeOK
  <1> SUFFICES ASSUME DeliveryInit PROVE DeliveryTypeOK
    OBVIOUS
  <1>1. 0 \in 0..MaxMessages /\ \A T : <<>> \in Seq(T)
    BY DeliveryAssumption
  <1>2. NoBatch \in [to : SUBSET Sockets, batch : Seq(Seqs)]
    BY <1>1 DEF NoBatch
  <1>3. committed \in [Rooms -> 0..MaxMessages] /\ wire \in Seq([room : Rooms, seq : Seqs])
    BY <1>1 DEF DeliveryInit
  <1>4. buffers \in [Rooms -> Seq(Seqs)] /\ heard \in [Sockets \X Rooms -> Seq(Seqs)]
    BY <1>1 DEF DeliveryInit
  <1>5. sending \in [Rooms -> [to : SUBSET Sockets, batch : Seq(Seqs)]]
    BY <1>2 DEF DeliveryInit
  <1> QED
    BY <1>3, <1>4, <1>5 DEF DeliveryInit, DeliveryTypeOK

LEMMA TypePost ==
    ASSUME DeliveryTypeOK, NEW r \in Rooms, Post(r)
    PROVE  DeliveryTypeOK'
  <1>1. committed[r] \in Nat /\ committed[r] + 1 \in Seqs /\ MaxMessages \in Nat
    BY DeliveryAssumption DEF DeliveryTypeOK, Post, Seqs
  <1>2. committed' \in [Rooms -> 0..MaxMessages]
    BY <1>1 DEF DeliveryTypeOK, Post, Seqs
  <1>3. wire' \in Seq([room : Rooms, seq : Seqs])
    <2>1. PICK m : m = [room |-> r, seq |-> committed[r] + 1]
      OBVIOUS
    <2>2. PICK T : T = [room : Rooms, seq : Seqs]
      OBVIOUS
    <2>3. m \in T /\ wire \in Seq(T)
      BY <1>1, <2>1, <2>2 DEF DeliveryTypeOK
    <2>4. wire' = wire \/ wire' = Append(wire, m)
      BY <2>1 DEF Post
    <2>5. wire' \in Seq(T)
      BY <2>3, <2>4, AppendFacts
    <2> QED
      BY <2>2, <2>5
  <1> QED
    BY <1>2, <1>3 DEF DeliveryTypeOK, Post

LEMMA TypeNotified ==
    ASSUME DeliveryTypeOK, Notified
    PROVE  DeliveryTypeOK'
  <1>1. PICK T : T = [room : Rooms, seq : Seqs]
    OBVIOUS
  <1>2. wire \in Seq(T) /\ wire # <<>> /\ wire' = Tail(wire)
    BY <1>1 DEF DeliveryTypeOK, Notified
  <1>3. wire' \in Seq(T) /\ Head(wire) \in T
    BY <1>2, TailFacts
  <1>4. Head(wire).room \in Rooms /\ Head(wire).seq \in Seqs
    BY <1>1, <1>3
  <1>5. buffers' \in [Rooms -> Seq(Seqs)] /\ flushTimer' \in BOOLEAN
    <2>1. \A r \in Rooms : Append(buffers[r], Head(wire).seq) \in Seq(Seqs)
      BY <1>4, AppendFacts DEF DeliveryTypeOK
    <2> QED
      BY <1>4, <2>1 DEF DeliveryTypeOK, Notified
  <1> QED
    BY <1>1, <1>3, <1>5 DEF DeliveryTypeOK, Notified

LEMMA TypeFlush ==
    ASSUME DeliveryTypeOK, NodeTypeOK, Flush
    PROVE  DeliveryTypeOK'
  <1>1. PICK S \in SUBSET Slow :
          /\ sending' = [r \in Rooms |->
                IF buffers[r] = <<>> \/ Targets(r, S) = {} THEN NoBatch
                ELSE [to |-> Targets(r, S), batch |-> buffers[r]]]
          /\ skipped' = skipped \cup {p \in S \X Rooms : buffers[p[2]] # <<>>}
    BY DEF Flush
  <1>2. \A r \in Rooms : Targets(r, S) \in SUBSET Sockets /\ buffers[r] \in Seq(Seqs)
    BY DEF Targets, NodeTypeOK, DeliveryTypeOK
  <1>3. NoBatch \in [to : SUBSET Sockets, batch : Seq(Seqs)]
    BY DEF NoBatch
  <1>4. sending' \in [Rooms -> [to : SUBSET Sockets, batch : Seq(Seqs)]]
    <2>1. ASSUME NEW r \in Rooms
          PROVE  [to |-> Targets(r, S), batch |-> buffers[r]] \in [to : SUBSET Sockets, batch : Seq(Seqs)]
      BY <1>2
    <2> QED
      BY <1>1, <1>3, <2>1
  <1>5. skipped' \subseteq Sockets \X Rooms
    <2>1. S \subseteq Sockets /\ skipped \subseteq Sockets \X Rooms
      BY DeliveryAssumption DEF DeliveryTypeOK
    <2>2. \A p \in skipped' : p \in skipped \/ p \in S \X Rooms
      BY <1>1
    <2> QED
      BY <2>1, <2>2
  <1>6. buffers' \in [Rooms -> Seq(Seqs)] /\ flushTimer' \in BOOLEAN
    <2>1. <<>> \in Seq(Seqs)
      OBVIOUS
    <2> QED
      BY <2>1 DEF Flush
  <1> QED
    BY <1>4, <1>5, <1>6 DEF DeliveryTypeOK, Flush

LEMMA TypeSend ==
    ASSUME DeliveryTypeOK, NEW r \in Rooms, Send(r)
    PROVE  DeliveryTypeOK'
  <1>1. NoBatch \in [to : SUBSET Sockets, batch : Seq(Seqs)]
    BY DEF NoBatch
  <1>2. sending' \in [Rooms -> [to : SUBSET Sockets, batch : Seq(Seqs)]]
    BY <1>1 DEF DeliveryTypeOK, Send
  <1>3. \A p \in Sockets \X Rooms : heard[p] \in Seq(Seqs) /\ heard[p] \o sending[r].batch \in Seq(Seqs)
    <2>1. sending[r].batch \in Seq(Seqs)
      BY DEF DeliveryTypeOK
    <2> QED
      BY <2>1, ConcatType DEF DeliveryTypeOK
  <1>4. heard' \in [Sockets \X Rooms -> Seq(Seqs)]
    BY <1>3 DEF Send
  <1> QED
    BY <1>2, <1>4 DEF DeliveryTypeOK, Send

\* A cursor is a message that there is, so the page after it is of the table.
LEMMA TypeHistory ==
    ASSUME DeliveryTypeOK, NodeInv,
           \/ \E h \in Callers : ReadHistory(h) \/ Handle(h)
           \/ \E h \in Callers, s \in Sockets, r \in Rooms : Join(h, s, r)
           \/ Listen
    PROVE  DeliveryTypeOK'
  <1>1. ASSUME NEW h \in Callers, ReadHistory(h)
        PROVE  DeliveryTypeOK'
    <2>1. PICK s \in Sockets, r \in Rooms : s = handler[h].sock /\ r = handler[h].room
      BY <1>1 DEF ReadHistory, NodeInv, AtWork
    <2>2. wanted[h] \in 0..MaxMessages /\ committed[r] \in 0..MaxMessages
      BY <1>1 DEF ReadHistory, DeliveryTypeOK
    <2>3. PICK x \in History : x = Page(wanted[h], committed[r])
      BY <2>2, PageType
    <2>4. history' = [history EXCEPT ![<<s, r>>] = IF conn[s] = "open" THEN x ELSE @]
      BY <1>1, <2>1, <2>3 DEF ReadHistory
    <2>5. history' \in [Sockets \X Rooms -> History \cup {None}]
      BY <2>4 DEF DeliveryTypeOK
    <2>6. wanted' \in [Callers -> 0..MaxMessages \cup {None}]
      BY <1>1 DEF ReadHistory, DeliveryTypeOK
    <2> QED
      BY <1>1, <2>5, <2>6 DEF ReadHistory, DeliveryTypeOK
  <1>2. ASSUME NEW h \in Callers, Handle(h)
        PROVE  DeliveryTypeOK'
    <2>1. wanted' \in [Callers -> 0..MaxMessages \cup {None}]
      BY <1>2 DEF Handle, DeliveryTypeOK
    <2> QED
      BY <1>2, <2>1 DEF Handle, DeliveryTypeOK
  <1>3. ASSUME NEW h \in Callers, NEW s \in Sockets, NEW r \in Rooms, Join(h, s, r)
        PROVE  DeliveryTypeOK'
    <2>1. 0..committed[r] \subseteq 0..MaxMessages
      BY DeliveryAssumption DEF DeliveryTypeOK
    <2>2. wanted' \in [Callers -> 0..MaxMessages \cup {None}]
      BY <1>3, <2>1 DEF Join, DeliveryTypeOK
    <2>3. history' \in [Sockets \X Rooms -> History \cup {None}]
      BY <1>3 DEF Join, DeliveryTypeOK
    <2> QED
      BY <1>3, <2>2, <2>3 DEF Join, DeliveryTypeOK
  <1>4. CASE Listen
    BY <1>4 DEF Listen, DeliveryTypeOK
  <1> QED
    BY <1>1, <1>2, <1>3, <1>4

-----------------------------------------------------------------------------
(* Delivery goes on in a node *)

LEMMA DeliveryNodeStep ==
    ASSUME [DeliveryNext]_allVars
    PROVE  [Next]_vars
  <1>1. CASE DeliveryNext
    BY <1>1 DEF DeliveryNext, DeliveryStep, Post, Send, Notified, Flush, ReadHistory, Handle,
                Join, Leave, Listen, Next, Step
  <1>2. CASE UNCHANGED allVars
    BY <1>2 DEF allVars
  <1> QED
    BY <1>1, <1>2

\* What is delivered is delivered by a node: the composition implements RoomSockets, so
\* what is proved of a node, and of its LISTEN client, holds here.
THEOREM DeliveryIsOfNode == DeliverySpec => Spec
  <1>1. DeliveryInit => Init
    BY DEF DeliveryInit
  <1> QED
    BY <1>1, DeliveryNodeStep, PTL DEF DeliverySpec, Spec

LEMMA DeliveryTypeStep ==
    ASSUME DeliveryTypeOK, NodeInv, [DeliveryNext]_allVars
    PROVE  DeliveryTypeOK'
  <1>1. CASE UNCHANGED deliveryVars
    BY <1>1 DEF deliveryVars, DeliveryTypeOK
  <1> QED
    BY <1>1, TypePost, TypeSend, TypeNotified, TypeFlush, TypeHistory
    DEF DeliveryNext, DeliveryStep, Leave, NodeInv, allVars

\* What is on its way, what was sent and what is asked for is well typed: buffers, batches
\* and cursors hold numbers of messages that there are.
THEOREM DeliveryTypeCorrect == DeliverySpec => []DeliveryTypeOK
  BY TypeInit, DeliveryTypeStep, DeliveryIsOfNode, NodeInvariant, PTL DEF DeliverySpec

-----------------------------------------------------------------------------
(* A node that handles the frames of a room one at a time *)

\* Of two frames about one room, the second is handled when the first is done.
OneAtATime == \A h, g \in Callers :
    /\ handler[h].pc # "idle" /\ handler[g].pc # "idle"
    /\ handler[h].room = handler[g].room
    => h = g

\* The handler of a join whose socket is open.
Joins(h, phases) == handler[h].pc \in phases /\ conn[handler[h].sock] = "open"

\* Sockets are in the rooms they ask for, while and after they are joined to them.
InRooms ==
    /\ \A s \in Sockets, r \in Rooms : <<s, r>> \in asked => s \in roomSockets[r]
    /\ \A h \in Callers : handler[h].pc # "idle" => conn[handler[h].sock] # "new"
    /\ \A h \in Callers : Joins(h, {"member", "subscribe", "presence"})
                             => handler[h].sock \in roomSockets[handler[h].room]

\* A pending LISTEN is that of a join.
ListensJoin == \A i \in DOMAIN queue : queue[i].op = "LISTEN" =>
    \E h \in Callers : /\ queue[i].by = h
                       /\ handler[h].pc = "subscribe" /\ handler[h].room = queue[i].ch

JoinsListen == Undisturbed =>
    /\ Steady /\ toVisit = {}
    /\ ListensJoin
    /\ \A h \in Callers : Joins(h, {"subscribe", "presence"}) => counts[handler[h].room] > 0

TurnsInv == InRooms /\ DropsEmpty /\ JoinsListen

\* Only a new socket is opened.
LEMMA OpenBefore ==
    ASSUME NodeInv, [Next]_vars, NEW s \in Sockets
    PROVE  conn[s] # "new" => conn'[s] # "new" /\ (conn'[s] = "open" => conn[s] = "open")
  BY DEF NodeInv, NodeTypeOK, Next, Step, Around, Listening, HandlerStep, DbFails, JoinFrame,
         LeaveFrame, Drop, Connect, ConnectRefused, Close, SocketError, Pong, Vanish, Heartbeat,
         HttpJoin, HttpLeave, Ages, Sweep, JoinMember, JoinNotMember, JoinSubscribed,
         JoinPresence, LeaveDelete, LeaveDone, vars, nodeVars

\* What a step does with a handler.
LEMMA HandlerMoves ==
    ASSUME NodeInv, [Next]_vars, NEW h \in Callers
    PROVE  \/ handler'[h] = handler[h]
           \/ handler'[h].pc = "idle"
           \/ \E s \in Sockets, r \in Rooms :
                 /\ JoinFrame(h, s, r) \/ LeaveFrame(h, s, r)
                 /\ handler[h].pc = "idle"
                 /\ handler'[h].sock = s /\ handler'[h].room = r
                 /\ handler'[h].pc \in {"member", "delete"}
                 /\ handler'[h].pc = "member" => JoinFrame(h, s, r)
           \/ /\ handler'[h].sock = handler[h].sock /\ handler'[h].room = handler[h].room
              /\ \/ handler[h].pc = "member" /\ handler'[h].pc = "subscribe" /\ JoinMember(h)
                 \/ handler[h].pc = "subscribe" /\ handler'[h].pc = "presence"
                 \/ handler[h].pc = "delete" /\ handler'[h].pc = "unsubscribe"
  <1>1. handler \in [Callers -> Handler] /\ Idle.pc = "idle"
    BY DEF NodeInv, NodeTypeOK, Idle
  <1>2. ASSUME NEW g \in Callers, HandlerStep(g) \/ DbFails(g)
        PROVE  \/ handler' = [handler EXCEPT ![g] = Idle]
               \/ handler[g].pc = "member" /\ JoinMember(g)
                     /\ handler' = [handler EXCEPT ![g] = [handler[g] EXCEPT !.pc = "subscribe"]]
               \/ handler[g].pc = "subscribe"
                     /\ handler' = [handler EXCEPT ![g] = [handler[g] EXCEPT !.pc = "presence"]]
               \/ handler[g].pc = "delete"
                     /\ handler' = [handler EXCEPT ![g] = [handler[g] EXCEPT !.pc = "unsubscribe"]]
    BY <1>1, <1>2 DEF HandlerStep, DbFails, JoinMember, JoinNotMember, JoinSubscribed,
                      JoinPresence, LeaveDelete, LeaveDone
  <1>3. \A c : \A g \in Callers : handler' = [handler EXCEPT ![g] = [handler[g] EXCEPT !.pc = c]] =>
            /\ handler'[g].pc = c
            /\ handler'[g].sock = handler[g].sock /\ handler'[g].room = handler[g].room
            /\ \A k \in Callers : k # g => handler'[k] = handler[k]
    BY <1>1 DEF Handler
  <1>4. \A g \in Callers : handler' = [handler EXCEPT ![g] = Idle] =>
            handler'[g].pc = "idle" /\ \A k \in Callers : k # g => handler'[k] = handler[k]
    BY <1>1
  <1>5. CASE \E g \in Callers : HandlerStep(g) \/ DbFails(g)
    <2> PICK g \in Callers : HandlerStep(g) \/ DbFails(g)
      BY <1>5
    <2>1. CASE g = h
      BY <1>2, <1>3, <1>4, <2>1
    <2>2. CASE g # h
      BY <1>2, <1>3, <1>4, <2>2
    <2> QED
      BY <2>1, <2>2
  <1>6. CASE \E g \in Callers, s \in Sockets, r \in Rooms : JoinFrame(g, s, r) \/ LeaveFrame(g, s, r)
    <2> PICK g \in Callers, s \in Sockets, r \in Rooms : JoinFrame(g, s, r) \/ LeaveFrame(g, s, r)
      BY <1>6
    <2>1. PICK c : /\ handler' = [handler EXCEPT ![g] = [pc |-> c, sock |-> s, room |-> r]]
                   /\ \/ c = "member" /\ JoinFrame(g, s, r)
                      \/ c = "delete" /\ LeaveFrame(g, s, r)
      BY DEF JoinFrame, LeaveFrame
    <2>2. handler[g].pc = "idle"
      BY <1>1 DEF JoinFrame, LeaveFrame
    <2>3. \A k \in Callers : k # g => handler'[k] = handler[k]
      BY <1>1, <2>1
    <2>4. handler'[g].pc = c /\ handler'[g].sock = s /\ handler'[g].room = r
      BY <1>1, <2>1
    <2> QED
      BY <2>1, <2>2, <2>3, <2>4
  <1>7. (\E r \in drops : Drop(r)) \/ Around \/ Listening \/ UNCHANGED vars => UNCHANGED handler
    BY DEF Drop, Around, Connect, ConnectRefused, Close, SocketError, Pong, Vanish, Heartbeat,
           HttpJoin, HttpLeave, Ages, Sweep, Listening, vars, nodeVars
  <1> QED
    BY <1>5, <1>6, <1>7 DEF Next, Step

\* What a step does with a socket of a room.
LEMMA RoomMoves ==
    ASSUME NodeInv, [Next]_vars, NEW s \in Sockets, NEW r \in Rooms
    PROVE  \/ /\ s \in roomSockets'[r] <=> s \in roomSockets[r]
              /\ <<s, r>> \in asked' <=> <<s, r>> \in asked
           \/ s \in roomSockets'[r]
           \/ <<s, r>> \notin asked' /\ (conn'[s] # "open" \/ \E h \in Callers : LeaveFrame(h, s, r))
  <1>1. roomSockets \in [Rooms -> SUBSET Sockets] /\ asked \subseteq Sockets \X Rooms
        /\ conn \in [Sockets -> {"new", "open", "terminated", "closed"}]
    BY DEF NodeInv, NodeTypeOK
  <1>2. ASSUME NEW D, CleanupSockets(D)
        PROVE  /\ s \notin D => /\ s \in roomSockets'[r] <=> s \in roomSockets[r]
                                /\ <<s, r>> \in asked' <=> <<s, r>> \in asked
               /\ s \in D => <<s, r>> \notin asked'
    BY <1>2 DEF CleanupSockets
  <1>3. ASSUME NEW t \in Sockets, Close(t) \/ SocketError(t)
        PROVE  CleanupSockets({t}) /\ conn'[t] # "open"
    BY <1>1, <1>3 DEF Close, SocketError
  <1>4. CASE Heartbeat
    <2>1. PICK D : D = {t \in Clients : ~alive[t]}
      OBVIOUS
    <2>2. CleanupSockets(D) /\ (s \in D => conn'[s] # "open")
      BY <1>1, <1>4, <2>1 DEF Heartbeat
    <2> QED
      BY <1>2, <2>2
  <1>5. CASE \E h \in Callers, t \in Sockets, q \in Rooms : JoinFrame(h, t, q)
    <2> PICK h \in Callers, t \in Sockets, q \in Rooms : JoinFrame(h, t, q)
      BY <1>5
    <2>1. /\ t \in roomSockets'[q]
          /\ \A k \in Rooms, u \in Sockets : k # q \/ u # t =>
                (u \in roomSockets'[k] <=> u \in roomSockets[k])
          /\ asked' = asked \cup {<<t, q>>}
      BY <1>1 DEF JoinFrame
    <2> QED
      BY <2>1
  <1>6. CASE \E h \in Callers, t \in Sockets, q \in Rooms : LeaveFrame(h, t, q)
    <2> PICK h \in Callers, t \in Sockets, q \in Rooms : LeaveFrame(h, t, q)
      BY <1>6
    <2>1. /\ \A k \in Rooms, u \in Sockets : k # q \/ u # t =>
                (u \in roomSockets'[k] <=> u \in roomSockets[k])
          /\ asked' = asked \ {<<t, q>>}
      BY <1>1 DEF LeaveFrame
    <2> QED
      BY <2>1
  <1>7. CASE \/ \E q \in drops : Drop(q)
             \/ \E t \in Sockets : Connect(t) \/ ConnectRefused(t) \/ Pong(t) \/ Vanish(t)
             \/ \E u \in Users, q \in Rooms : HttpJoin(u, q) \/ HttpLeave(u, q)
             \/ (\E row \in presence : Ages(row)) \/ Sweep \/ Listening \/ UNCHANGED vars
             \/ \E h \in Callers : HandlerStep(h) \/ DbFails(h)
    <2>1. UNCHANGED <<roomSockets, asked>>
      BY <1>7 DEF Drop, Connect, ConnectRefused, Pong, Vanish, HttpJoin, HttpLeave, Ages, Sweep,
                  Listening, vars, nodeVars, registry, told, HandlerStep, DbFails, JoinMember,
                  JoinNotMember, JoinSubscribed, JoinPresence, LeaveDelete, LeaveDone
    <2> QED
      BY <2>1
  <1> QED
    BY <1>2, <1>3, <1>4, <1>5, <1>6, <1>7 DEF Next, Step, Around

LEMMA InRoomsStep ==
    ASSUME NodeInv, InRooms, OneAtATime', [Next]_vars
    PROVE  InRooms'
  <1>1. AtWork /\ \A h \in Callers : handler'[h].pc # "idle" => handler'[h].sock \in Sockets
                                                              /\ handler'[h].room \in Rooms
    BY HandlerStepType DEF NodeInv, AtWork
  <1>2. \A s \in Sockets, r \in Rooms : <<s, r>> \in asked' => s \in roomSockets'[r]
    BY RoomMoves DEF InRooms
  <1>3. ASSUME NEW h \in Callers, handler'[h].pc # "idle"
        PROVE  conn'[handler'[h].sock] # "new"
    <2>1. CASE \E s \in Sockets, r \in Rooms : /\ JoinFrame(h, s, r) \/ LeaveFrame(h, s, r)
                                               /\ handler'[h].sock = s
      <3>1. conn[handler'[h].sock] # "new" /\ handler'[h].sock \in Sockets
        BY <2>1 DEF JoinFrame, LeaveFrame, Receives
      <3> QED
        BY <3>1, OpenBefore
    <2>2. CASE handler'[h].sock = handler[h].sock /\ handler[h].pc # "idle"
      <3>1. conn[handler[h].sock] # "new" /\ handler[h].sock \in Sockets
        BY <1>1, <2>2 DEF InRooms, AtWork
      <3> QED
        BY <2>2, <3>1, OpenBefore
    <2> QED
      BY <1>3, <2>1, <2>2, HandlerMoves
  <1>4. ASSUME NEW h \in Callers, handler'[h].pc \in {"member", "subscribe", "presence"},
               conn'[handler'[h].sock] = "open"
        PROVE  handler'[h].sock \in roomSockets'[handler'[h].room]
    <2>1. PICK s \in Sockets, r \in Rooms : s = handler'[h].sock /\ r = handler'[h].room
      BY <1>1, <1>4
    <2>2. CASE JoinFrame(h, s, r)
      BY <2>1, <2>2 DEF JoinFrame, NodeInv, NodeTypeOK
    <2>3. CASE /\ handler[h].sock = s /\ handler[h].room = r
               /\ handler[h].pc \in {"member", "subscribe", "presence"}
      <3>1. conn[s] # "new"
        BY <2>3 DEF InRooms
      <3>2. conn[s] = "open"
        BY <1>4, <2>1, <3>1, OpenBefore
      <3>3. s \in roomSockets[r]
        BY <2>3, <3>2 DEF InRooms, Joins
      <3>4. ASSUME NEW g \in Callers, LeaveFrame(g, s, r)
            PROVE  FALSE
        <4>1. handler'[g].pc = "delete" /\ handler'[g].room = r
          BY <3>4 DEF LeaveFrame, NodeInv, NodeTypeOK
        <4> QED
          BY <1>4, <2>1, <4>1 DEF OneAtATime
      <3> QED
        BY <1>4, <2>1, <3>3, <3>4, RoomMoves
    <2> QED
      BY <1>4, <2>1, <2>2, <2>3, HandlerMoves
  <1> QED
    BY <1>2, <1>3, <1>4 DEF InRooms, Joins

\* A handler goes on when its LISTEN is answered, not before.
LEMMA PendingStays ==
    ASSUME NodeInv, [Next]_vars, NEW h \in Callers, promise[h] = "pending",
           handler[h].pc = "subscribe"
    PROVE  handler'[h] = handler[h]
  <1>1. handler \in [Callers -> Handler] /\ Idle.pc = "idle"
    BY DEF NodeInv, NodeTypeOK, Idle
  <1>2. ASSUME NEW g \in Callers, HandlerStep(g) \/ DbFails(g)
        PROVE  g # h /\ \E x : handler' = [handler EXCEPT ![g] = x]
    BY <1>1, <1>2 DEF HandlerStep, DbFails, JoinMember, JoinNotMember, JoinSubscribed,
                      JoinPresence, LeaveDelete, LeaveDone, Resume
  <1>3. ASSUME NEW g \in Callers, NEW s \in Sockets, NEW r \in Rooms,
               JoinFrame(g, s, r) \/ LeaveFrame(g, s, r)
        PROVE  g # h /\ \E x : handler' = [handler EXCEPT ![g] = x]
    BY <1>1, <1>3 DEF JoinFrame, LeaveFrame
  <1>4. (\E r \in drops : Drop(r)) \/ Around \/ Listening \/ UNCHANGED vars => UNCHANGED handler
    BY DEF Drop, Around, Connect, ConnectRefused, Close, SocketError, Pong, Vanish, Heartbeat,
           HttpJoin, HttpLeave, Ages, Sweep, Listening, vars, nodeVars
  <1> QED
    BY <1>1, <1>2, <1>3, <1>4 DEF Next, Step

\* What calls do on a connection that is there: one query is added, or none.
LEMMA SteadyCall ==
    ASSUME TypeOK, Steady, toVisit = {}, NEW c, NEW r
    PROVE  /\ Subscribe(c, r) =>
                  /\ toVisit' = {} /\ UNCHANGED connVars
                  /\ \/ queue' = queue
                     \/ queue' = Append(queue, [op |-> "LISTEN", ch |-> r, by |-> c])
           /\ Unsubscribe(c, r) =>
                  /\ toVisit' = {} /\ UNCHANGED connVars
                  /\ \/ queue' = queue
                     \/ queue' = Append(queue, [op |-> "UNLISTEN", ch |-> r, by |-> c])
  BY DEF Subscribe, SubscribeAgain, SubscribeFirst, SubscribeRefused, SubscribeHangs,
         Unsubscribe, UnsubscribeNone, UnsubscribeOne, UnsubscribeLast, UnsubscribeRefused,
         UnsubscribeHangs, Steady, Refuses, Hangs, Issue, KeyAdded, KeyDeleted

\* Left alone it answers queries, and issues none.
LEMMA SteadyQueue ==
    ASSUME TypeOK, Undisturbed => Steady /\ toVisit = {}, Internally, Undisturbed'
    PROVE  /\ Undisturbed /\ Steady' /\ toVisit' = {} /\ UNCHANGED counts
           /\ queue # <<>> /\ queue' = Tail(queue)
  <1>1. Undisturbed /\ Steady' /\ UNCHANGED counts
    BY SteadyInternal
  <1>2. Reply
    BY <1>1 DEF Internally, ConnectionLost, ReconnectTimer, NewClient, Connected,
                ConnectFailed, EnsureListen, EnsureDone, Destroy, Undisturbed, Steady
  <1> QED
    BY <1>1, <1>2 DEF Reply

\* The queries after a step were there before, or are those of a join that calls
\* subscribe; a connection that is there stays.
LEMMA QueueStep ==
    ASSUME NodeInv, Undisturbed => Steady /\ toVisit = {}, [Next]_vars, Undisturbed'
    PROVE  /\ Undisturbed /\ Steady' /\ toVisit' = {}
           /\ \A i \in DOMAIN queue' : queue'[i].op = "LISTEN" =>
                 \/ \E j \in DOMAIN queue : queue'[i] = queue[j]
                 \/ \E h \in Callers : /\ JoinMember(h)
                                       /\ queue'[i].by = h /\ queue'[i].ch = handler[h].room
  <1>1. TypeOK /\ drops \subseteq Rooms /\ Len(queue) \in Nat /\ DOMAIN queue = 1..Len(queue)
    BY DEF NodeInv, NodeTypeOK, TypeOK
  <1>2. ASSUME UNCHANGED <<connVars, toVisit, queue>>
        PROVE  Undisturbed /\ Steady' /\ toVisit' = {}
    BY <1>2 DEF Undisturbed, Steady, connVars
  <1>3. ASSUME NEW c, NEW r, Unsubscribe(c, r)
        PROVE  /\ Undisturbed /\ Steady' /\ toVisit' = {}
               /\ \A i \in DOMAIN queue' : queue'[i].op = "LISTEN" =>
                     \E j \in DOMAIN queue : queue'[i] = queue[j]
    <2>1. Undisturbed /\ Steady /\ Steady'
      BY <1>3 DEF Unsubscribe, Undisturbed, Steady, connVars
    <2>2. PICK x : x = [op |-> "UNLISTEN", ch |-> r, by |-> c]
      OBVIOUS
    <2>3. toVisit' = {} /\ (queue' = queue \/ queue' = Append(queue, x))
      BY <1>1, <1>3, <2>1, <2>2, SteadyCall
    <2>4. x.op # "LISTEN"
      BY <2>2
    <2> QED
      BY <1>1, <2>1, <2>3, <2>4
  <1>4. ASSUME NEW h \in Callers, JoinMember(h)
        PROVE  /\ Undisturbed /\ Steady' /\ toVisit' = {}
               /\ \A i \in DOMAIN queue' :
                     \/ \E j \in DOMAIN queue : queue'[i] = queue[j]
                     \/ queue'[i].by = h /\ queue'[i].ch = handler[h].room
    <2>1. Subscribe(h, handler[h].room)
      BY <1>4 DEF JoinMember
    <2>2. Undisturbed /\ Steady /\ Steady'
      BY <2>1 DEF Subscribe, Undisturbed, Steady, connVars
    <2>3. PICK x : x = [op |-> "LISTEN", ch |-> handler[h].room, by |-> h]
      OBVIOUS
    <2>4. toVisit' = {} /\ (queue' = queue \/ queue' = Append(queue, x))
      BY <1>1, <2>1, <2>2, <2>3, SteadyCall
    <2>5. x.by = h /\ x.ch = handler[h].room
      BY <2>3
    <2> QED
      BY <1>1, <2>2, <2>4, <2>5
  <1>5. CASE Listening
    <2>1. /\ Undisturbed /\ Steady' /\ toVisit' = {}
          /\ queue # <<>> /\ queue' = Tail(queue)
      BY <1>1, <1>5, SteadyQueue DEF Listening
    <2>2. \A i \in DOMAIN queue' : i + 1 \in DOMAIN queue /\ queue'[i] = queue[i + 1]
      BY <1>1, <2>1, TailFacts DEF TypeOK
    <2> QED
      BY <2>1, <2>2
  <1>6. CASE \E r \in drops : Drop(r)
    BY <1>3, <1>6 DEF Drop
  <1>7. ASSUME NEW h \in Callers, HandlerStep(h) \/ DbFails(h), ~JoinMember(h)
        PROVE  UNCHANGED <<connVars, toVisit, queue>> \/ \E c, r : Unsubscribe(c, r)
    <2>1. CASE LeaveDelete(h)
      BY <2>1 DEF LeaveDelete
    <2>2. CASE ~LeaveDelete(h)
      BY <1>7, <2>2 DEF HandlerStep, DbFails, JoinNotMember, JoinSubscribed, JoinPresence,
                        LeaveDone, listenVars, connVars
    <2> QED
      BY <2>1, <2>2
  <1>8. CASE \/ \E h \in Callers, s \in Sockets, r \in Rooms : JoinFrame(h, s, r) \/ LeaveFrame(h, s, r)
             \/ Around \/ UNCHANGED vars
    <2>1. UNCHANGED <<connVars, toVisit, queue>>
      BY <1>8 DEF JoinFrame, LeaveFrame, Around, Connect, ConnectRefused, Close, SocketError,
                  Pong, Vanish, Heartbeat, HttpJoin, HttpLeave, Ages, Sweep, vars, nodeVars,
                  listenVars, connVars
    <2> QED
      BY <1>2, <2>1
  <1> QED
    BY <1>2, <1>3, <1>4, <1>5, <1>6, <1>7, <1>8 DEF Next, Step

\* What a step must be to change a count.
LEMMA CountsMove ==
    ASSUME [Next]_vars
    PROVE  \/ UNCHANGED counts
           \/ \E r \in drops : Drop(r)
           \/ \E h \in Callers : JoinMember(h) \/ LeaveDelete(h)
           \/ Listening
  <1>1. ASSUME NEW h \in Callers, HandlerStep(h) \/ DbFails(h), ~JoinMember(h), ~LeaveDelete(h)
        PROVE  UNCHANGED counts
    BY <1>1 DEF HandlerStep, DbFails, JoinNotMember, JoinSubscribed, JoinPresence, LeaveDone,
                listenVars
  <1>2. ASSUME NEW h \in Callers, NEW s \in Sockets, NEW r \in Rooms,
               JoinFrame(h, s, r) \/ LeaveFrame(h, s, r)
        PROVE  UNCHANGED counts
    BY <1>2 DEF JoinFrame, LeaveFrame, listenVars
  <1>3. Around \/ UNCHANGED vars => UNCHANGED counts
    BY DEF Around, Connect, ConnectRefused, Close, SocketError, Pong, Vanish, Heartbeat,
           HttpJoin, HttpLeave, Ages, Sweep, vars, listenVars
  <1> QED
    BY <1>1, <1>2, <1>3 DEF Next, Step

\* The rooms that handlers join to stay counted, and are listened to for nobody else.
LEMMA JoinsListenStep ==
    ASSUME NodeInv, TurnsInv, OneAtATime, [Next]_vars
    PROVE  JoinsListen'
  <1> SUFFICES ASSUME Undisturbed'
               PROVE  /\ Steady' /\ toVisit' = {}
                      /\ ListensJoin'
                      /\ \A h \in Callers : Joins(h, {"subscribe", "presence"})' =>
                                                counts'[handler'[h].room] > 0
    BY DEF JoinsListen
  <1>1. /\ TypeOK /\ drops \subseteq Rooms /\ AtWork
        /\ Undisturbed /\ Steady /\ Steady' /\ toVisit = {} /\ toVisit' = {}
    BY QueueStep DEF NodeInv, NodeTypeOK, TurnsInv, JoinsListen
  <1>2. ListensJoin'
    <2>1. ASSUME NEW i \in DOMAIN queue', NEW j \in DOMAIN queue,
                 queue'[i] = queue[j], queue'[i].op = "LISTEN"
          PROVE  \E h \in Callers : /\ queue'[i].by = h
                                    /\ handler'[h].pc = "subscribe" /\ handler'[h].room = queue'[i].ch
      <3>1. PICK h \in Callers : /\ queue[j].by = h
                                 /\ handler[h].pc = "subscribe" /\ handler[h].room = queue[j].ch
        BY <1>1, <2>1 DEF TurnsInv, JoinsListen, ListensJoin
      <3>2. promise[h] = "pending"
        BY <3>1 DEF NodeInv, Owned
      <3>3. handler'[h] = handler[h]
        BY <3>1, <3>2, PendingStays
      <3> QED
        BY <2>1, <3>1, <3>3
    <2>2. ASSUME NEW h \in Callers, JoinMember(h)
          PROVE  handler'[h].pc = "subscribe" /\ handler'[h].room = handler[h].room
      BY <2>2 DEF JoinMember, NodeInv, NodeTypeOK, Handler
    <2>3. \A i \in DOMAIN queue' : queue'[i].op = "LISTEN" =>
                 \/ \E j \in DOMAIN queue : queue'[i] = queue[j]
                 \/ \E h \in Callers : /\ JoinMember(h)
                                       /\ queue'[i].by = h /\ queue'[i].ch = handler[h].room
      BY <1>1, QueueStep
    <2> QED
      BY <2>1, <2>2, <2>3 DEF ListensJoin
  <1>3. ASSUME NEW h \in Callers, handler'[h].pc \in {"subscribe", "presence"},
               conn'[handler'[h].sock] = "open"
        PROVE  counts'[handler'[h].room] > 0
    <2>1. CASE JoinMember(h)
      <3>1. handler'[h].room = handler[h].room /\ handler[h].room \in Rooms
        BY <1>1, <2>1 DEF JoinMember, NodeInv, NodeTypeOK, Handler, AtWork
      <3> QED
        BY <1>1, <2>1, <3>1, SubscribeCounts DEF JoinMember
    <2>2. CASE /\ handler'[h].sock = handler[h].sock /\ handler'[h].room = handler[h].room
               /\ handler[h].pc \in {"subscribe", "presence"}
      <3>1. PICK s \in Sockets, r \in Rooms : s = handler[h].sock /\ r = handler[h].room
        BY <1>1, <2>2 DEF AtWork
      <3>2. conn[s] = "open"
        BY <1>3, <2>2, <3>1, OpenBefore DEF TurnsInv, InRooms
      <3>3. counts[r] > 0 /\ s \in roomSockets[r]
        BY <1>1, <2>2, <3>1, <3>2 DEF TurnsInv, JoinsListen, InRooms, Joins
      <3>4. ASSUME UNCHANGED counts
            PROVE  counts'[r] > 0
        BY <3>3, <3>4
      <3>5. ASSUME NEW q \in Rooms, NEW c, Unsubscribe(c, q), q # r
            PROVE  counts'[r] > 0
        BY <1>1, <3>3, <3>5, CountsCall DEF Calls
      <3>6. ASSUME NEW q \in drops, Drop(q)
            PROVE  counts'[r] > 0
        BY <1>1, <3>3, <3>5, <3>6 DEF Drop, TurnsInv, DropsEmpty
      <3>7. ASSUME NEW g \in Callers, LeaveDelete(g)
            PROVE  counts'[r] > 0
        <4>1. handler[g].pc = "delete" /\ handler[g].room \in Rooms /\ Unsubscribe(g, handler[g].room)
          BY <1>1, <3>7 DEF LeaveDelete, AtWork
        <4>2. handler[g].room # r
          BY <2>2, <3>1, <4>1 DEF OneAtATime
        <4> QED
          BY <3>5, <4>1, <4>2
      <3>8. ASSUME NEW g \in Callers, JoinMember(g)
            PROVE  counts'[r] > 0
        <4>1. handler[g].room \in Rooms /\ Subscribe(g, handler[g].room)
          BY <1>1, <3>8 DEF JoinMember, AtWork
        <4>2. counts'[handler[g].room] > 0 /\ \A q \in Rooms : q # handler[g].room => counts'[q] = counts[q]
          BY <1>1, <4>1, SubscribeCounts
        <4> QED
          BY <3>3, <4>2
      <3>9. ASSUME Listening
            PROVE  counts'[r] > 0
        <4>1. UNCHANGED counts
          BY <1>1, <3>9, SteadyQueue DEF Listening
        <4> QED
          BY <3>4, <4>1
      <3>10. counts'[r] > 0
        BY <3>3, <3>4, <3>6, <3>7, <3>8, <3>9, CountsMove
      <3> QED
        BY <2>2, <3>1, <3>10
    <2> QED
      BY <1>3, <2>1, <2>2, HandlerMoves
  <1> QED
    BY <1>1, <1>2, <1>3 DEF Joins

LEMMA TurnsStep ==
    ASSUME NodeInv, TurnsInv, OneAtATime, OneAtATime', [Next]_vars
    PROVE  TurnsInv'
  BY InRoomsStep, GivenUpEmpty, JoinsListenStep DEF TurnsInv

-----------------------------------------------------------------------------
(* What a joined client is sent *)

\* A message has been sent to a socket or will be.
Reaches(q, s, r) == q \in ToSet(heard[<<s, r>>]) \/ OnItsWay(q, s, r)

Complete(x) == x.upto < x.after + HistoryLimit

\* Since the history was sent, the room has been listened on and the socket was open, so
\* what follows the history reaches it.
HistoryKept == Undisturbed => \A s \in Sockets, r \in Rooms :
    <<s, r>> \in asked /\ history[<<s, r>>] # None =>
        /\ conn[s] = "open" /\ r \in listened
        /\ <<s, r>> \notin skipped /\ Complete(history[<<s, r>>]) =>
              \A q \in history[<<s, r>>].upto + 1 .. committed[r] : Reaches(q, s, r)

MissInv == TurnsInv /\ HistoryKept

\* When the history is read, the room is listened on: its LISTEN has been answered, and
\* nobody has given it up since.
LEMMA ListenedOn ==
    ASSUME NodeInv, ListenIntent, TurnsInv, OneAtATime, Undisturbed,
           NEW h \in Callers, handler[h].pc = "presence", conn[handler[h].sock] = "open"
    PROVE  handler[h].room \in listened
  <1>1. PICK r \in Rooms : r = handler[h].room
    BY DEF NodeInv, AtWork
  <1>2. counts[r] > 0 /\ client = "open" /\ toVisit = {}
    BY <1>1 DEF TurnsInv, JoinsListen, Joins, Steady
  <1>3. Effective(r)
    BY <1>2 DEF ListenIntent, Accepts, Channels, Wanted, Counted
  <1>4. ASSUME NEW i \in DOMAIN queue, queue[i].ch = r, queue[i].op = "LISTEN"
        PROVE  FALSE
    <2>1. PICK g \in Callers : handler[g].pc = "subscribe" /\ handler[g].room = r
      BY <1>4 DEF TurnsInv, JoinsListen, ListensJoin
    <2> QED
      BY <1>1, <2>1 DEF OneAtATime
  <1> QED
    BY <1>1, <1>3, <1>4 DEF Effective

\* A socket that was open and still asks for the room is open.
LEMMA StaysOpen ==
    ASSUME NodeInv, [Next]_vars, NEW s \in Sockets, NEW r \in Rooms, conn[s] = "open",
           <<s, r>> \in asked'
    PROVE  conn'[s] = "open"
  <1>1. conn \in [Sockets -> {"new", "open", "terminated", "closed"}]
    BY DEF NodeInv, NodeTypeOK
  <1>2. ASSUME NEW D, CleanupSockets(D)
        PROVE  s \notin D
    BY <1>2 DEF CleanupSockets
  <1>3. ASSUME NEW t \in Sockets, Close(t) \/ SocketError(t)
        PROVE  conn'[s] = "open"
    <2>1. CleanupSockets({t}) /\ \A u \in Sockets : u # t => conn'[u] = conn[u]
      BY <1>1, <1>3 DEF Close, SocketError
    <2> QED
      BY <1>2, <2>1
  <1>4. CASE Heartbeat
    <2>1. PICK D : D = {t \in Clients : ~alive[t]}
      OBVIOUS
    <2>2. CleanupSockets(D) /\ \A u \in Sockets : u \notin D => conn'[u] = conn[u]
      BY <1>4, <2>1 DEF Heartbeat
    <2> QED
      BY <1>2, <2>2
  <1>5. ASSUME NEW t \in Sockets, Connect(t) \/ ConnectRefused(t)
        PROVE  conn'[s] = "open"
    BY <1>1, <1>5 DEF Connect, ConnectRefused
  <1>6. CASE \/ \E q \in drops : Drop(q)
             \/ \E t \in Sockets : Pong(t) \/ Vanish(t)
             \/ \E u \in Users, q \in Rooms : HttpJoin(u, q) \/ HttpLeave(u, q)
             \/ (\E row \in presence : Ages(row)) \/ Sweep \/ Listening \/ UNCHANGED vars
    BY <1>6 DEF Drop, Pong, Vanish, HttpJoin, HttpLeave, Ages, Sweep, Listening, vars, nodeVars
  <1>7. ASSUME NEW h \in Callers, HandlerStep(h) \/ DbFails(h)
        PROVE  UNCHANGED conn
    BY <1>7 DEF HandlerStep, DbFails, JoinMember, JoinNotMember, JoinSubscribed, JoinPresence,
                LeaveDelete, LeaveDone
  <1>8. ASSUME NEW h \in Callers, NEW t \in Sockets, NEW q \in Rooms,
               JoinFrame(h, t, q) \/ LeaveFrame(h, t, q)
        PROVE  UNCHANGED conn
    BY <1>8 DEF JoinFrame, LeaveFrame
  <1> QED
    BY <1>3, <1>4, <1>5, <1>6, <1>7, <1>8 DEF Next, Step, Around

\* A concatenation has the elements of both.
LEMMA ConcatElements ==
    ASSUME NEW T, NEW a \in Seq(T), NEW b \in Seq(T)
    PROVE  ToSet(a) \subseteq ToSet(a \o b) /\ ToSet(b) \subseteq ToSet(a \o b)
  <1>1. \A i \in DOMAIN a : i \in DOMAIN (a \o b) /\ (a \o b)[i] = a[i]
    OBVIOUS
  <1>2. \A i \in DOMAIN b : Len(a) + i \in DOMAIN (a \o b) /\ (a \o b)[Len(a) + i] = b[i]
    OBVIOUS
  <1> QED
    BY <1>1, <1>2 DEF ToSet

\* A message that is on its way to an open socket of the room gets on or arrives.
LEMMA ReachesOn ==
    ASSUME FlowInv, DeliveryTypeOK, NodeInv, [DeliveryNext]_allVars,
           client' = "open", reconnect # "ending", ~destroyed,
           NEW s \in Sockets, NEW r \in Rooms, NEW q, Reaches(q, s, r),
           s \in roomSockets[r], conn[s] = "open", <<s, r>> \notin skipped'
    PROVE  Reaches(q, s, r)'
  <1> DEFINE OnWire == \E i \in DOMAIN wire : wire[i] = [room |-> r, seq |-> q]
             Buffered == q \in ToSet(buffers[r])
             InBatch == s \in sending[r].to /\ q \in ToSet(sending[r].batch)
             Heard == q \in ToSet(heard[<<s, r>>])
  <1>1. /\ Reaches(q, s, r) <=> Heard \/ OnWire \/ Buffered \/ InBatch
        /\ Reaches(q, s, r)' <=> Heard' \/ OnWire' \/ Buffered' \/ InBatch'
    BY DEF Reaches, OnItsWay
  <1> PICK T : T = [room : Rooms, seq : Seqs]
    OBVIOUS
  <1>2. wire \in Seq(T) /\ DOMAIN wire = 1..Len(wire) /\ Len(wire) \in Nat
    BY DEF DeliveryTypeOK
  <1>3. ASSUME UNCHANGED <<wire, buffers, sending, heard>>
        PROVE  Reaches(q, s, r)'
    BY <1>1, <1>3
  <1>4. ASSUME NEW k \in Rooms, Post(k)
        PROVE  Reaches(q, s, r)'
    <2>1. UNCHANGED <<buffers, sending, heard>>
      BY <1>4 DEF Post
    <2>2. OnWire => OnWire'
      <3>1. PICK m : wire' = wire \/ wire' = Append(wire, m)
        BY <1>4 DEF Post
      <3>2. \A i \in DOMAIN wire : i \in DOMAIN wire' /\ wire'[i] = wire[i]
        BY <1>2, <3>1
      <3> QED
        BY <3>2
    <2> QED
      BY <1>1, <2>1, <2>2
  <1>5. CASE Notified
    <2>1. /\ UNCHANGED <<sending, heard>> /\ wire # <<>> /\ wire' = Tail(wire)
          /\ buffers' = [buffers EXCEPT ![Head(wire).room] = Append(@, Head(wire).seq)]
      BY <1>5 DEF Notified
    <2>2. PICK m \in T : m = Head(wire) /\ m = wire[1] /\ m.room \in Rooms /\ m.seq \in Seqs
      <3>1. Head(wire) \in T /\ Head(wire) = wire[1]
        BY <1>2, <2>1, TailFacts
      <3> QED
        BY <3>1
    <2>3. buffers[r] \in Seq(Seqs) /\ DOMAIN buffers[r] = 1..Len(buffers[r]) /\ Len(buffers[r]) \in Nat
      BY DEF DeliveryTypeOK
    <2>4. m.room = r => buffers'[r] = Append(buffers[r], m.seq)
      BY <2>1, <2>2 DEF DeliveryTypeOK
    <2>5. m.room # r => buffers'[r] = buffers[r]
      BY <2>1, <2>2 DEF DeliveryTypeOK
    <2>6. /\ ToSet(buffers[r]) \subseteq ToSet(buffers'[r])
          /\ m.room = r => m.seq \in ToSet(buffers'[r])
      <3>1. CASE m.room = r
        <4>1. /\ \A i \in DOMAIN buffers[r] : i \in DOMAIN buffers'[r] /\ buffers'[r][i] = buffers[r][i]
              /\ Len(buffers[r]) + 1 \in DOMAIN buffers'[r]
              /\ buffers'[r][Len(buffers[r]) + 1] = m.seq
          BY <2>2, <2>3, <2>4, <3>1, AppendFacts
        <4> QED
          BY <4>1 DEF ToSet
      <3>2. CASE m.room # r
        BY <2>5, <3>2
      <3> QED
        BY <3>1, <3>2
    <2>7. ASSUME NEW i \in DOMAIN wire, wire[i] = [room |-> r, seq |-> q]
          PROVE  OnWire' \/ Buffered'
      <3>1. CASE i = 1
        BY <2>2, <2>6, <2>7, <3>1
      <3>2. CASE i # 1
        <4>1. i - 1 \in DOMAIN wire' /\ wire'[i - 1] = wire[i]
          BY <1>2, <2>1, <3>2
        <4> QED
          BY <2>7, <4>1
      <3> QED
        BY <3>1, <3>2
    <2> QED
      BY <1>1, <2>1, <2>6, <2>7
  <1>6. CASE Flush
    <2>1. PICK S \in SUBSET Slow :
            /\ sending' = [k \in Rooms |->
                  IF buffers[k] = <<>> \/ Targets(k, S) = {} THEN NoBatch
                  ELSE [to |-> Targets(k, S), batch |-> buffers[k]]]
            /\ skipped' = skipped \cup {p \in S \X Rooms : buffers[p[2]] # <<>>}
      BY <1>6 DEF Flush
    <2>2. UNCHANGED <<wire, heard>> /\ sending[r] = NoBatch
      BY <1>6 DEF Flush
    <2>3. ~InBatch
      BY <2>2 DEF NoBatch
    <2>4. ASSUME Buffered
          PROVE  InBatch'
      <3>1. buffers[r] # <<>>
        BY <2>4 DEF ToSet
      <3>2. s \notin S
        BY <2>1, <3>1
      <3>3. s \in Targets(r, S)
        BY <3>2 DEF Targets
      <3>4. PICK x : x = [to |-> Targets(r, S), batch |-> buffers[r]]
        OBVIOUS
      <3>5. sending'[r] = x
        BY <2>1, <3>1, <3>3, <3>4
      <3>6. x.to = Targets(r, S) /\ x.batch = buffers[r]
        BY <3>4
      <3> QED
        BY <2>4, <3>3, <3>5, <3>6
    <2> QED
      BY <1>1, <2>2, <2>3, <2>4
  <1>7. ASSUME NEW k \in Rooms, Send(k)
        PROVE  Reaches(q, s, r)'
    <2>1. /\ UNCHANGED <<wire, buffers>>
          /\ \A j \in Rooms : j # k => sending'[j] = sending[j]
      BY <1>7 DEF Send, DeliveryTypeOK
    <2>2. /\ k = r /\ s \in sending[r].to => heard'[<<s, r>>] = heard[<<s, r>>] \o sending[r].batch
          /\ k # r \/ s \notin sending[r].to => heard'[<<s, r>>] = heard[<<s, r>>]
      BY <1>7 DEF Send
    <2>3. PICK a \in Seq(Seqs), b \in Seq(Seqs) : a = heard[<<s, r>>] /\ b = sending[r].batch
      BY DEF DeliveryTypeOK
    <2>4. ToSet(a) \subseteq ToSet(a \o b) /\ ToSet(b) \subseteq ToSet(a \o b)
      BY ConcatElements
    <2>5. Heard => Heard'
      BY <2>2, <2>3, <2>4
    <2>6. InBatch => InBatch' \/ Heard'
      BY <2>1, <2>2, <2>3, <2>4
    <2> QED
      BY <1>1, <2>1, <2>5, <2>6
  <1>8. CASE Listen
    BY <1>3, <1>8 DEF Listen
  <1>9. CASE UNCHANGED deliveryVars
    BY <1>3, <1>9 DEF deliveryVars
  <1>10. CASE \E h \in Callers : ReadHistory(h) \/ Handle(h)
    BY <1>3, <1>10 DEF ReadHistory, Handle
  <1>11. CASE \E h \in Callers, t \in Sockets, k \in Rooms : Join(h, t, k)
    BY <1>3, <1>11 DEF Join
  <1> QED
    BY <1>4, <1>5, <1>6, <1>7, <1>8, <1>9, <1>10, <1>11
    DEF DeliveryNext, DeliveryStep, Leave, allVars

\* What a step does with the history of a socket: only the answer to a join makes one.
LEMMA HistoryMoves ==
    ASSUME DeliveryTypeOK, NodeInv, [DeliveryNext]_allVars, NEW s \in Sockets, NEW r \in Rooms,
           <<s, r>> \in asked', history'[<<s, r>>] # None
    PROVE  \/ \E h \in Callers : /\ ReadHistory(h) /\ UNCHANGED vars
                                 /\ handler[h].sock = s /\ handler[h].room = r /\ conn[s] = "open"
                                 /\ history'[<<s, r>>] = Page(wanted[h], committed[r])
           \/ /\ history'[<<s, r>>] = history[<<s, r>>] /\ <<s, r>> \in asked
              /\ r \in listened => r \in listened'
  <1>1. history \in [Sockets \X Rooms -> History \cup {None}] /\ <<s, r>> \in Sockets \X Rooms
    BY DEF DeliveryTypeOK
  <1> DEFINE Same == /\ history'[<<s, r>>] = history[<<s, r>>] /\ <<s, r>> \in asked
                     /\ r \in listened => r \in listened'
  <1>2. ASSUME UNCHANGED <<history, listened>>, asked' \subseteq asked
        PROVE  Same
    BY <1>2
  <1>3. CASE Listen
    <2>1. UNCHANGED asked
      BY <1>3 DEF Listen, Listening, nodeVars, told
    <2>2. history'[<<s, r>>] = IF r \in listened \ listened' THEN None ELSE history[<<s, r>>]
      BY <1>1, <1>3 DEF Listen
    <2> QED
      BY <2>1, <2>2
  <1>4. ASSUME NEW h \in Callers, ReadHistory(h)
        PROVE  \/ /\ handler[h].sock = s /\ handler[h].room = r /\ conn[s] = "open"
                  /\ history'[<<s, r>>] = Page(wanted[h], committed[r])
               \/ history'[<<s, r>>] = history[<<s, r>>]
    <2>1. PICK t \in Sockets, k \in Rooms : t = handler[h].sock /\ k = handler[h].room
      BY <1>4 DEF ReadHistory, NodeInv, AtWork
    <2>2. history' = [history EXCEPT ![<<t, k>>] =
                         IF conn[t] = "open" THEN Page(wanted[h], committed[k]) ELSE @]
      BY <1>4, <2>1 DEF ReadHistory
    <2> QED
      BY <1>1, <2>1, <2>2
  <1>5. ASSUME NEW h \in Callers, Handle(h)
        PROVE  Same
    <2>1. CASE HandlerStep(h)
      BY <1>2, <1>5, <2>1 DEF Handle, HandlerStep, JoinMember, JoinNotMember, JoinSubscribed,
                              JoinPresence, LeaveDelete, LeaveDone, Subscribe, Unsubscribe,
                              listenVars, connVars, told
    <2>2. CASE DbFails(h)
      BY <1>2, <1>5, <2>2 DEF Handle, DbFails, listenVars, told
    <2> QED
      BY <1>5, <2>1, <2>2 DEF Handle
  <1>6. ASSUME NEW h \in Callers, NEW t \in Sockets, NEW k \in Rooms, Join(h, t, k)
        PROVE  Same
    <2>1. /\ history' = [history EXCEPT ![<<t, k>>] = None] /\ asked' = asked \cup {<<t, k>>}
          /\ UNCHANGED listened
      BY <1>6 DEF Join, JoinFrame, listenVars
    <2>2. <<s, r>> # <<t, k>>
      BY <1>1, <2>1
    <2> QED
      BY <1>1, <2>1, <2>2
  <1>7. ASSUME NEW h \in Callers, NEW t \in Sockets, NEW k \in Rooms, Leave(h, t, k)
        PROVE  Same
    BY <1>2, <1>7 DEF Leave, LeaveFrame, listenVars, deliveryVars
  <1>8. ASSUME UNCHANGED <<vars, history>>
        PROVE  Same
    BY <1>2, <1>8 DEF vars, listenVars, nodeVars, told
  <1>9. CASE (\E k \in Rooms : Post(k) \/ Send(k)) \/ Notified \/ Flush \/ UNCHANGED allVars
    BY <1>8, <1>9 DEF Post, Send, Notified, Flush, allVars, deliveryVars
  <1>10. ASSUME Around, UNCHANGED deliveryVars
         PROVE  Same
    <2>1. UNCHANGED <<history, listened>>
      BY <1>10 DEF Around, Connect, ConnectRefused, Close, SocketError, Pong, Vanish, Heartbeat,
                   HttpJoin, HttpLeave, Ages, Sweep, deliveryVars, listenVars
    <2>2. asked' \subseteq asked
      BY <1>10 DEF Around, Connect, ConnectRefused, Close, SocketError, Pong, Vanish, Heartbeat,
                   HttpJoin, HttpLeave, Ages, Sweep, CleanupSockets, told
    <2> QED
      BY <1>2, <2>1, <2>2
  <1>11. ASSUME NEW k \in drops, Drop(k), UNCHANGED deliveryVars
         PROVE  Same
    BY <1>2, <1>11 DEF Drop, Unsubscribe, connVars, told, deliveryVars
  <1>12. ASSUME NEW h \in Callers, ReadHistory(h)
         PROVE  UNCHANGED vars /\ (<<s, r>> \in asked) /\ UNCHANGED listened
    BY <1>12 DEF ReadHistory, vars, listenVars, nodeVars, told
  <1> QED
    BY <1>3, <1>4, <1>5, <1>6, <1>7, <1>9, <1>10, <1>11, <1>12 DEF DeliveryNext, DeliveryStep

\* What follows a history goes on to reach its socket.
LEMMA HistoryStep ==
    ASSUME FlowInv, DeliveryTypeOK, NodeInv, ListenIntent, MissInv, OneAtATime,
           [DeliveryNext]_allVars
    PROVE  HistoryKept'
  <1> SUFFICES ASSUME Undisturbed', NEW s \in Sockets, NEW r \in Rooms,
                      <<s, r>> \in asked', history'[<<s, r>>] # None
               PROVE  /\ conn'[s] = "open" /\ r \in listened'
                      /\ <<s, r>> \notin skipped' /\ Complete(history'[<<s, r>>]) =>
                            \A q \in history'[<<s, r>>].upto + 1 .. committed'[r] : Reaches(q, s, r)'
    BY DEF HistoryKept
  <1>1. [Next]_vars
    BY DeliveryNodeStep
  <1>2. Undisturbed /\ Steady /\ Steady'
    BY <1>1, QueueStep DEF MissInv, TurnsInv, JoinsListen
  <1>3. ASSUME NEW h \in Callers, ReadHistory(h), UNCHANGED vars,
               handler[h].sock = s, handler[h].room = r, conn[s] = "open",
               history'[<<s, r>>] = Page(wanted[h], committed[r])
        PROVE  /\ conn'[s] = "open" /\ r \in listened'
               /\ Complete(history'[<<s, r>>]) => history'[<<s, r>>].upto = committed'[r]
    <2>1. handler[h].pc = "presence" /\ wanted[h] # None /\ UNCHANGED committed
      BY <1>3 DEF ReadHistory
    <2>2. r \in listened
      BY <1>2, <1>3, <2>1, ListenedOn DEF MissInv
    <2>3. wanted[h] \in Nat /\ committed[r] \in Nat /\ HistoryLimit \in Nat
      BY <2>1, DeliveryAssumption DEF DeliveryTypeOK
    <2>4. Complete(Page(wanted[h], committed[r])) => Page(wanted[h], committed[r]).upto = committed[r]
      BY <2>3 DEF Complete, Page
    <2> QED
      BY <1>3, <2>1, <2>2, <2>4 DEF vars, nodeVars, listenVars
  <1>4. CASE /\ history'[<<s, r>>] = history[<<s, r>>] /\ <<s, r>> \in asked
             /\ r \in listened => r \in listened'
    <2>1. conn[s] = "open" /\ r \in listened /\ r \in listened'
      BY <1>2, <1>4 DEF MissInv, HistoryKept
    <2>2. conn'[s] = "open" /\ s \in roomSockets[r]
      BY <1>1, <1>4, <2>1, StaysOpen DEF MissInv, TurnsInv, InRooms
    <2>3. ASSUME <<s, r>> \notin skipped', Complete(history[<<s, r>>]),
                 NEW q \in history[<<s, r>>].upto + 1 .. committed'[r]
          PROVE  Reaches(q, s, r)'
      <3>1. <<s, r>> \notin skipped
        BY <2>3 DEF DeliveryNext, DeliveryStep, Post, Send, Notified, Flush, ReadHistory, Handle,
                    Join, Leave, Listen, deliveryVars, allVars
      <3>2. ~destroyed /\ client' = "open" /\ reconnect # "ending"
        BY <1>2 DEF Undisturbed, Steady
      <3>3. CASE q \in history[<<s, r>>].upto + 1 .. committed[r]
        <4>1. Reaches(q, s, r)
          BY <1>2, <1>4, <2>3, <3>1, <3>3 DEF MissInv, HistoryKept
        <4> QED
          BY <2>1, <2>2, <2>3, <3>2, <4>1, ReachesOn
      <3>4. CASE q \notin history[<<s, r>>].upto + 1 .. committed[r]
        <4>1. committed'[r] # committed[r] /\ committed[r] \in Nat
              /\ history[<<s, r>>].upto \in Nat
          BY <1>4, <2>3, <3>4 DEF DeliveryTypeOK, History
        <4>2. Post(r)
          BY <4>1 DEF DeliveryNext, DeliveryStep, Post, Send, Notified, Flush, ReadHistory, Handle,
                      Join, Leave, Listen, deliveryVars, allVars, DeliveryTypeOK
        <4>3. committed'[r] = committed[r] + 1
          BY <4>2 DEF Post, DeliveryTypeOK
        <4>4. q = committed[r] + 1
          BY <2>3, <3>4, <4>1, <4>3
        <4>5. PICK m : m = [room |-> r, seq |-> committed[r] + 1] /\ wire' = Append(wire, m)
          BY <2>1, <4>2 DEF Post
        <4>6. \E i \in DOMAIN wire' : wire'[i] = m
          <5>1. wire \in Seq([room : Rooms, seq : Seqs])
            BY DEF DeliveryTypeOK
          <5> QED
            BY <4>5, <5>1
        <4> QED
          BY <4>4, <4>5, <4>6 DEF Reaches, OnItsWay
      <3> QED
        BY <3>3, <3>4
    <2> QED
      BY <1>4, <2>1, <2>2, <2>3
  <1>5. committed'[r] \in Nat
    BY DeliveryTypeStep DEF DeliveryTypeOK
  <1> QED
    BY <1>3, <1>4, <1>5, HistoryMoves

-----------------------------------------------------------------------------
(* The theorems *)

\* No socket is sent a live message of a room twice or after a later one.
THEOREM OrderCorrect == DeliverySpec => []LiveInOrder
  <1>1. FlowInv => LiveInOrder
    BY DEF FlowInv, HeardInv, Stage, Increasing, LiveInOrder
  <1> QED
    BY <1>1, FlowInit, FlowNext, PTL DEF DeliverySpec

\* Once the module is destroyed it stays so.
LEMMA DestroyedStays ==
    ASSUME DeliveryNext
    PROVE  destroyed' = destroyed \/ destroyed'
  <1>1. CASE \E r \in drops : Drop(r)
    BY <1>1 DEF Drop, Unsubscribe, connVars
  <1>2. CASE \E h \in Callers : Handle(h)
    <2> PICK h \in Callers : HandlerStep(h) \/ DbFails(h)
      BY <1>2 DEF Handle
    <2> QED
      BY DEF HandlerStep, DbFails, JoinMember, JoinNotMember, JoinSubscribed, JoinPresence,
             LeaveDelete, LeaveDone, Subscribe, Unsubscribe, connVars, listenVars
  <1>3. CASE \E h \in Callers, s \in Sockets, r \in Rooms : Join(h, s, r) \/ Leave(h, s, r)
    BY <1>3 DEF Join, Leave, JoinFrame, LeaveFrame, listenVars
  <1>4. CASE Around
    BY <1>4 DEF Around, Connect, ConnectRefused, Close, SocketError, Pong, Vanish, Heartbeat,
                HttpJoin, HttpLeave, Ages, Sweep, listenVars
  <1>5. CASE Listen
    BY <1>5 DEF Listen, Listening, Internally, Reply, ConnectionLost, ReconnectTimer, NewClient,
                Connected, ConnectFailed, EnsureListen, EnsureDone, Destroy
  <1>6. CASE UNCHANGED vars
    BY <1>6 DEF vars, listenVars
  <1>7. CASE (\E r \in Rooms : Post(r) \/ Send(r)) \/ Notified \/ Flush
    BY <1>6, <1>7 DEF Post, Send, Notified, Flush
  <1>8. CASE \E h \in Callers : ReadHistory(h)
    BY <1>6, <1>8 DEF ReadHistory
  <1> QED
    BY <1>1, <1>2, <1>3, <1>4, <1>5, <1>7, <1>8 DEF DeliveryNext, DeliveryStep

\* No message is forgotten in a buffer.
THEOREM ScheduledCorrect == DeliverySpec => []BufferedIsScheduled
  <1> DEFINE Inv == DOMAIN buffers = Rooms /\ BufferedIsScheduled
  <1>1. DeliveryInit => Inv
    BY DEF DeliveryInit, BufferedIsScheduled
  <1>2. ASSUME Inv, [DeliveryNext]_allVars PROVE Inv'
    <2>1. CASE UNCHANGED allVars
      BY <1>2, <2>1 DEF allVars, vars, listenVars, deliveryVars, BufferedIsScheduled
    <2>2. CASE DeliveryNext
      <3>1. destroyed' = destroyed \/ destroyed'
        BY <2>2, DestroyedStays
      <3>2. CASE Notified
        BY <1>2, <3>1, <3>2 DEF Notified, BufferedIsScheduled
      <3>3. CASE Flush
        BY <3>3 DEF Flush, BufferedIsScheduled
      <3>4. CASE Listen
        BY <1>2, <3>1, <3>4 DEF Listen, BufferedIsScheduled
      <3>5. CASE UNCHANGED <<buffers, flushTimer>>
        BY <1>2, <3>1, <3>5 DEF BufferedIsScheduled
      <3> QED
        BY <2>2, <3>2, <3>3, <3>4, <3>5
        DEF DeliveryNext, DeliveryStep, Post, Send, ReadHistory, Handle, Join, Leave, deliveryVars
    <2> QED
      BY <1>2, <2>1, <2>2
  <1> QED
    BY <1>1, <1>2, PTL DEF DeliverySpec

\* README.md:24, gapless history: where a node handles the frames about a room one at a
\* time, a client that was told joined_room, and was sent the whole history after its
\* last_seen_seq, gets every message that is not in that history live (with the exceptions
\* that NothingMissed names).  Without OneAtATime it does not: of two joins that overlap, the
\* second reads the history while the LISTEN of the first is still under way.
THEOREM GaplessInTurn == DeliverySpec /\ []OneAtATime => []NothingMissed
  <1>1. ASSUME DeliveryInit
        PROVE  MissInv
    <2>1. faults = 0 /\ Steady /\ toVisit = {} /\ queue = <<>> /\ asked = {} /\ drops = {}
      BY <1>1 DEF DeliveryInit, Init, ListenInit, Steady
    <2>2. \A h \in Callers : handler[h].pc = "idle"
      BY <1>1 DEF DeliveryInit, Init, Idle
    <2>3. InRooms /\ DropsEmpty /\ HistoryKept
      BY <2>1, <2>2 DEF InRooms, Joins, DropsEmpty, HistoryKept
    <2>4. JoinsListen
      BY <2>1, <2>2 DEF JoinsListen, ListensJoin, Joins
    <2> QED
      BY <2>3, <2>4 DEF MissInv, TurnsInv
  <1>2. FlowInv /\ DeliveryTypeOK /\ NodeInv /\ ListenIntent /\ MissInv
          /\ OneAtATime /\ OneAtATime' /\ [DeliveryNext]_allVars => MissInv'
    BY HistoryStep, TurnsStep, DeliveryNodeStep DEF MissInv
  <1>3. DeliveryTypeOK /\ NodeInv /\ MissInv => NothingMissed
    <2> SUFFICES ASSUME NodeInv, MissInv, faults = 0, ~destroyed,
                        NEW p \in (asked \cap acked) \ skipped,
                        history[p] # None, history[p].upto < history[p].after + HistoryLimit,
                        NEW q \in history[p].upto + 1 .. committed[p[2]]
                 PROVE  q \in ToSet(heard[p]) \/ OnItsWay(q, p[1], p[2])
      BY DEF NothingMissed
    <2>1. PICK s \in Sockets, r \in Rooms : p = <<s, r>>
      BY DEF NodeInv, NodeTypeOK
    <2>2. Reaches(q, s, r)
      BY <2>1 DEF MissInv, HistoryKept, Undisturbed, Complete
    <2> QED
      BY <2>1, <2>2 DEF Reaches
  <1>4. DeliverySpec => []FlowInv
    BY FlowInit, FlowNext, PTL DEF DeliverySpec
  <1>5. DeliverySpec => []NodeInv /\ []ListenIntent
    BY DeliveryIsOfNode, NodeInvariant, NodeListensAsMeant, PTL
  <1> QED
    BY <1>1, <1>2, <1>3, <1>4, <1>5, DeliveryTypeCorrect, PTL DEF DeliverySpec

\* In particular where there is one handler.
THEOREM GaplessAlone ==
    ASSUME \A h, g \in Callers : h = g
    PROVE  DeliverySpec => []NothingMissed
  <1>1. OneAtATime
    BY DEF OneAtATime
  <1> QED
    BY <1>1, GaplessInTurn, PTL

=============================================================================
