-------------------------- MODULE IndicatorsProofs --------------------------
(***************************************************************************)
(* Proofs about Indicators, for any nodes, users, sockets, frames and      *)
(* writes: its types, and that the newest row reaches every client in the  *)
(* room.                                                                   *)
(*                                                                         *)
(* The notes on a wire are in the order of the writes, newer than all that *)
(* a client of the node has been shown and not newer than the row they are *)
(* about.  So a note that is delivered never replaces what the row holds   *)
(* by something older.                                                     *)
(***************************************************************************)
EXTENDS Indicators, FiniteSetTheorems, TLAPS

Steps == {"idle", "join", "present", "leave", "check", "type", "stop"}
AnyNote == [kind : Kinds, user : Users, write : Nat]

TypesInv ==
    /\ room \subseteq Sockets
    /\ row \in [Kinds -> [Users -> Nat]]
    /\ writes \in Nat
    /\ wire \in [Nodes -> Seq(AnyNote)]
    /\ handler \in [Callers -> [pc : Steps, sock : Sockets \cup {None}]]
    /\ \A h \in Callers : handler[h].pc # "idle" => handler[h].sock \in Sockets
    /\ shown \in [Sockets -> [Kinds -> [Users -> Nat]]]
    /\ since \in [Sockets -> Nat]

\* No write is beyond the last one.
BoundsInv ==
    /\ \A k \in Kinds, u \in Users : row[k][u] <= writes
    /\ \A s \in Sockets, k \in Kinds, u \in Users : shown[s][k][u] <= writes
    /\ \A n \in Nodes : \A i \in DOMAIN wire[n] : wire[n][i].write \in 1..writes

\* A wire is in the order of the writes.
OrderInv ==
    \A n \in Nodes : \A i, j \in DOMAIN wire[n] : i < j => wire[n][i].write < wire[n][j].write

\* What is on the wire is newer than what the clients of the node were shown,
ShownInv ==
    \A s \in Sockets, k \in Kinds, u \in Users : \A i \in DOMAIN wire[NodeOf[s]] :
        shown[s][k][u] < wire[NodeOf[s]][i].write

\* and no newer than the row it is about, while there is one.
RowInv ==
    \A n \in Nodes : \A i \in DOMAIN wire[n] :
        row[wire[n][i].kind][wire[n][i].user] # 0
            => wire[n][i].write <= row[wire[n][i].kind][wire[n][i].user]

FlowInv == TypesInv /\ BoundsInv /\ OrderInv /\ ShownInv /\ RowInv /\ NewestShown

-----------------------------------------------------------------------------
(* Sequences *)

\* Appending a note.
LEMMA Appended ==
    ASSUME NEW q \in Seq(AnyNote), NEW x \in AnyNote
    PROVE  /\ Append(q, x) \in Seq(AnyNote)
           /\ Len(q) \in Nat /\ DOMAIN q = 1..Len(q)
           /\ DOMAIN Append(q, x) = 1..Len(q) + 1
           /\ \A i \in DOMAIN q : Append(q, x)[i] = q[i]
           /\ Append(q, x)[Len(q) + 1] = x
  OBVIOUS

\* Taking the oldest note.
LEMMA Shortened ==
    ASSUME NEW q \in Seq(AnyNote), q # <<>>
    PROVE  /\ Tail(q) \in Seq(AnyNote)
           /\ Len(q) \in Nat /\ DOMAIN q = 1..Len(q) /\ 1 \in DOMAIN q
           /\ Head(q) = q[1] /\ Head(q) \in AnyNote
           /\ DOMAIN Tail(q) = 1..Len(q) - 1
           /\ \A i \in DOMAIN Tail(q) :
                 i \in Nat /\ Tail(q)[i] = q[i + 1] /\ i + 1 \in DOMAIN q /\ 1 < i + 1
           /\ \A j \in DOMAIN q : j # 1 => j - 1 \in DOMAIN Tail(q) /\ Tail(q)[j - 1] = q[j]
  OBVIOUS

\* An empty wire.
LEMMA NoNotes == DOMAIN (<<>>) = {}
  OBVIOUS

\* The domain of a wire.
LEMMA WireDomain == TypesInv => \A n \in Nodes : DOMAIN wire[n] = 1..Len(wire[n]) /\ Len(wire[n]) \in Nat
  BY DEF TypesInv

-----------------------------------------------------------------------------
(* Steps that put nothing on a wire and take nothing off it *)

\* Rows are deleted or stay, wires lose all or stay, what a client is owed only shrinks.
LEMMA Quiet ==
    ASSUME FlowInv, TypesInv', UNCHANGED writes,
           \A k \in Kinds, u \in Users : row'[k][u] \in {0, row[k][u]},
           \A n \in Nodes : wire'[n] = wire[n] \/ (wire'[n] = <<>> /\ n \notin up'),
           \A s \in Sockets : shown'[s] = shown[s] \/ (shown'[s] = Nothing /\ s \notin room'),
           \A s \in room' : \/ since'[s] >= writes
                            \/ /\ s \in room /\ since'[s] = since[s]
                               /\ NodeOf[s] \in up' => NodeOf[s] \in up
    PROVE  FlowInv'
  <1>1. TypesInv /\ BoundsInv /\ OrderInv /\ ShownInv /\ RowInv /\ NewestShown
    BY DEF FlowInv
  <1>2. \A s \in Sockets : NodeOf[s] \in Nodes
    BY IndicatorsAssumption
  <1>3. \A s \in Sockets, k \in Kinds, u \in Users : shown'[s][k][u] \in {0, shown[s][k][u]}
    BY DEF Nothing
  <1>4. \A n \in Nodes : \A i \in DOMAIN wire'[n] : wire'[n] = wire[n] /\ i \in DOMAIN wire[n]
    BY NoNotes
  <1>5. BoundsInv'
    <2>1. ASSUME NEW k \in Kinds, NEW u \in Users PROVE row'[k][u] <= writes'
      <3>1. row[k][u] <= writes /\ writes \in Nat /\ row'[k][u] \in {0, row[k][u]}
        BY <1>1 DEF BoundsInv, TypesInv
      <3>2. QED
        BY <3>1
    <2>2. ASSUME NEW s \in Sockets, NEW k \in Kinds, NEW u \in Users PROVE shown'[s][k][u] <= writes'
      <3>1. shown[s][k][u] <= writes /\ writes \in Nat /\ shown'[s][k][u] \in {0, shown[s][k][u]}
        BY <1>1, <1>3 DEF BoundsInv, TypesInv
      <3>2. QED
        BY <3>1
    <2>3. ASSUME NEW n \in Nodes, NEW i \in DOMAIN wire'[n] PROVE wire'[n][i].write \in 1..writes'
      BY <1>1, <1>4 DEF BoundsInv
    <2>4. QED
      BY <2>1, <2>2, <2>3 DEF BoundsInv
  <1>6. OrderInv'
    BY <1>1, <1>4 DEF OrderInv
  <1>7. ShownInv'
    <2> SUFFICES ASSUME NEW s \in Sockets, NEW k \in Kinds, NEW u \in Users,
                        NEW i \in DOMAIN wire'[NodeOf[s]]
                 PROVE  shown'[s][k][u] < wire'[NodeOf[s]][i].write
      BY DEF ShownInv
    <2>1. NodeOf[s] \in Nodes
      BY <1>2
    <2>2. wire'[NodeOf[s]] = wire[NodeOf[s]] /\ i \in DOMAIN wire[NodeOf[s]]
      BY <1>4, <2>1
    <2>3. wire[NodeOf[s]][i].write \in 1..writes /\ shown[s][k][u] < wire[NodeOf[s]][i].write
      BY <1>1, <2>1, <2>2 DEF BoundsInv, ShownInv
    <2>4. writes \in Nat /\ shown'[s][k][u] \in {0, shown[s][k][u]}
      BY <1>1, <1>3 DEF TypesInv
    <2>5. QED
      BY <2>2, <2>3, <2>4
  <1>8. RowInv'
    <2> SUFFICES ASSUME NEW n \in Nodes, NEW i \in DOMAIN wire'[n],
                        row'[wire'[n][i].kind][wire'[n][i].user] # 0
                 PROVE  wire'[n][i].write <= row'[wire'[n][i].kind][wire'[n][i].user]
      BY DEF RowInv
    <2>1. wire'[n] = wire[n] /\ i \in DOMAIN wire[n]
      BY <1>4
    <2>2. wire[n][i] \in AnyNote
      BY <1>1, <2>1 DEF TypesInv
    <2>3. row'[wire[n][i].kind][wire[n][i].user] = row[wire[n][i].kind][wire[n][i].user]
      BY <2>1, <2>2 DEF AnyNote
    <2>4. QED
      BY <1>1, <2>1, <2>3 DEF RowInv
  <1>9. NewestShown'
    <2> SUFFICES ASSUME NEW s \in room', NEW k \in Kinds, NEW u \in Users,
                        NodeOf[s] \in up', row'[k][u] > since'[s]
                 PROVE  \/ shown'[s][k][u] = row'[k][u]
                        \/ \E i \in 1..Len(wire'[NodeOf[s]]) :
                              wire'[NodeOf[s]][i] = [kind |-> k, user |-> u, write |-> row'[k][u]]
      BY DEF NewestShown, OnItsWay
    <2>1. s \in Sockets /\ since'[s] \in Nat
      BY DEF TypesInv
    <2>2. NodeOf[s] \in Nodes /\ row[k][u] \in Nat /\ row[k][u] <= writes /\ writes \in Nat
      BY <1>1, <1>2, <2>1 DEF TypesInv, BoundsInv
    <2>3. row'[k][u] = row[k][u]
      BY <2>1, <2>2
    <2>4. s \in room /\ since'[s] = since[s] /\ NodeOf[s] \in up
      BY <2>1, <2>2, <2>3
    <2>5. shown'[s] = shown[s] /\ wire'[NodeOf[s]] = wire[NodeOf[s]]
      BY <2>1, <2>2
    <2>6. \/ shown[s][k][u] = row[k][u]
          \/ \E i \in 1..Len(wire[NodeOf[s]]) :
                wire[NodeOf[s]][i] = [kind |-> k, user |-> u, write |-> row[k][u]]
      BY <1>1, <2>3, <2>4 DEF NewestShown, OnItsWay
    <2>7. QED
      BY <2>3, <2>5, <2>6
  <1>10. QED
    BY <1>5, <1>6, <1>7, <1>8, <1>9 DEF FlowInv

-----------------------------------------------------------------------------
(* A write *)

\* The note is newer than all there is, and it is what the row holds.
LEMMA UpsertStep ==
    ASSUME FlowInv, TypesInv', NEW kind \in Kinds, NEW h \in Callers, User(h) \in Users,
           Upsert(kind, h), UNCHANGED <<room, up, shown, since>>
    PROVE  FlowInv'
  <1> DEFINE user == User(h)
             w == writes + 1
             note == [kind |-> kind, user |-> user, write |-> w]
  <1>1. TypesInv /\ BoundsInv /\ OrderInv /\ ShownInv /\ RowInv /\ NewestShown
    BY DEF FlowInv
  <1>2. writes \in Nat /\ writes' = w /\ note \in AnyNote
    BY <1>1 DEF TypesInv, Upsert, AnyNote
  <1>3. /\ row'[kind][user] = w
        /\ \A k \in Kinds, u \in Users : (k # kind \/ u # user) => row'[k][u] = row[k][u]
    BY <1>1 DEF TypesInv, Upsert
  <1>4. \A n \in Nodes : wire'[n] = IF n \in up THEN Append(wire[n], note) ELSE wire[n]
    BY DEF Upsert, Fires
  <1>5. \A n \in Nodes : wire[n] \in Seq(AnyNote) /\ DOMAIN wire[n] = 1..Len(wire[n]) /\ Len(wire[n]) \in Nat
    BY <1>1 DEF TypesInv
  <1>6. \A n \in Nodes : \A i \in DOMAIN wire[n] : i \in DOMAIN wire'[n] /\ wire'[n][i] = wire[n][i]
    <2> SUFFICES ASSUME NEW n \in Nodes, NEW i \in DOMAIN wire[n]
                 PROVE  i \in DOMAIN wire'[n] /\ wire'[n][i] = wire[n][i]
      OBVIOUS
    <2> HIDE DEF note
    <2>1. CASE n \in up
      <3>1. wire'[n] = Append(wire[n], note) /\ wire[n] \in Seq(AnyNote) /\ note \in AnyNote
        BY <1>2, <1>4, <1>5, <2>1
      <3>2. QED
        BY <3>1, Appended
    <2>2. CASE n \notin up
      BY <1>4, <2>2
    <2>3. QED
      BY <2>1, <2>2
  <1>7. \A n \in Nodes : \A i \in DOMAIN wire'[n] : i \in DOMAIN wire[n] \/ (i = Len(wire[n]) + 1 /\ wire'[n][i] = note)
    <2> SUFFICES ASSUME NEW n \in Nodes, NEW i \in DOMAIN wire'[n]
                 PROVE  i \in DOMAIN wire[n] \/ (i = Len(wire[n]) + 1 /\ wire'[n][i] = note)
      OBVIOUS
    <2> HIDE DEF note
    <2>1. CASE n \in up
      <3>1. wire'[n] = Append(wire[n], note) /\ wire[n] \in Seq(AnyNote) /\ note \in AnyNote
        BY <1>2, <1>4, <1>5, <2>1
      <3>2. QED
        BY <3>1, Appended
    <2>2. CASE n \notin up
      BY <1>4, <2>2
    <2>3. QED
      BY <2>1, <2>2
  <1>8. \A n \in up \cap Nodes : /\ Len(wire[n]) + 1 \in 1..Len(wire'[n])
                                 /\ wire'[n][Len(wire[n]) + 1] = note
    <2> HIDE DEF note
    <2> SUFFICES ASSUME NEW n \in Nodes, n \in up
                 PROVE  /\ Len(wire[n]) + 1 \in 1..Len(wire'[n])
                        /\ wire'[n][Len(wire[n]) + 1] = note
      OBVIOUS
    <2>1. wire'[n] = Append(wire[n], note) /\ wire[n] \in Seq(AnyNote)
      BY <1>4, <1>5
    <2>2. QED
      BY <1>2, <2>1
  <1>9. BoundsInv'
    <2>1. ASSUME NEW k \in Kinds, NEW u \in Users PROVE row'[k][u] <= writes'
      <3>1. row[k][u] <= writes /\ row[k][u] \in Nat
        BY <1>1 DEF BoundsInv, TypesInv
      <3>2. QED
        BY <1>2, <1>3, <3>1
    <2>2. ASSUME NEW s \in Sockets, NEW k \in Kinds, NEW u \in Users PROVE shown'[s][k][u] <= writes'
      <3>1. shown[s][k][u] <= writes /\ shown[s][k][u] \in Nat
        BY <1>1 DEF BoundsInv, TypesInv
      <3>2. QED
        BY <1>2, <3>1
    <2>3. ASSUME NEW n \in Nodes, NEW i \in DOMAIN wire'[n] PROVE wire'[n][i].write \in 1..writes'
      <3>1. CASE i \in DOMAIN wire[n]
        <4>1. wire[n][i].write \in 1..writes /\ wire'[n][i] = wire[n][i]
          BY <1>1, <1>6, <3>1 DEF BoundsInv
        <4>2. QED
          BY <1>2, <4>1
      <3>2. CASE wire'[n][i] = note
        BY <1>2, <3>2
      <3>3. QED
        BY <1>7, <3>1, <3>2
    <2>4. QED
      BY <2>1, <2>2, <2>3 DEF BoundsInv
  <1>10. OrderInv'
    <2> SUFFICES ASSUME NEW n \in Nodes, NEW i \in DOMAIN wire'[n], NEW j \in DOMAIN wire'[n], i < j
                 PROVE  wire'[n][i].write < wire'[n][j].write
      BY DEF OrderInv
    <2>1. DOMAIN wire[n] = 1..Len(wire[n]) /\ Len(wire[n]) \in Nat
      BY <1>5
    <2>2. i \in DOMAIN wire[n]
      BY <1>7, <2>1
    <2>3. wire[n][i].write \in 1..writes /\ wire'[n][i] = wire[n][i]
      BY <1>1, <1>6, <2>2 DEF BoundsInv
    <2>4. CASE j \in DOMAIN wire[n]
      BY <1>1, <1>6, <2>2, <2>3, <2>4 DEF OrderInv
    <2>5. CASE wire'[n][j] = note
      BY <1>2, <2>3, <2>5
    <2>6. QED
      BY <1>7, <2>4, <2>5
  <1>11. ShownInv'
    <2> SUFFICES ASSUME NEW s \in Sockets, NEW k \in Kinds, NEW u \in Users,
                        NEW i \in DOMAIN wire'[NodeOf[s]]
                 PROVE  shown[s][k][u] < wire'[NodeOf[s]][i].write
      BY DEF ShownInv
    <2>1. NodeOf[s] \in Nodes
      BY IndicatorsAssumption
    <2>2. CASE i \in DOMAIN wire[NodeOf[s]]
      BY <1>1, <1>6, <2>1, <2>2 DEF ShownInv
    <2>3. CASE wire'[NodeOf[s]][i] = note
      <3>1. shown[s][k][u] <= writes /\ shown[s][k][u] \in Nat
        BY <1>1 DEF BoundsInv, TypesInv
      <3>2. QED
        BY <1>2, <2>3, <3>1
    <2>4. QED
      BY <1>7, <2>1, <2>2, <2>3
  <1>12. RowInv'
    <2> SUFFICES ASSUME NEW n \in Nodes, NEW i \in DOMAIN wire'[n], NEW x, x = wire'[n][i],
                        row'[x.kind][x.user] # 0
                 PROVE  x.write <= row'[x.kind][x.user]
      BY DEF RowInv
    <2>1. CASE i \in DOMAIN wire[n]
      <3>1. x = wire[n][i] /\ x \in AnyNote /\ x.write \in 1..writes
        BY <1>1, <1>5, <1>6, <2>1 DEF BoundsInv
      <3>2. x.kind \in Kinds /\ x.user \in Users
        BY <3>1 DEF AnyNote
      <3>3. CASE x.kind = kind /\ x.user = user
        BY <1>2, <1>3, <3>1, <3>3
      <3>4. CASE x.kind # kind \/ x.user # user
        BY <1>1, <1>3, <2>1, <3>1, <3>2, <3>4 DEF RowInv
      <3>5. QED
        BY <3>3, <3>4
    <2>2. CASE x = note
      BY <1>2, <1>3, <2>2
    <2>3. QED
      BY <1>7, <2>1, <2>2
  <1>13. NewestShown'
    <2> SUFFICES ASSUME NEW s \in room, NEW k \in Kinds, NEW u \in Users,
                        NodeOf[s] \in up, row'[k][u] > since[s]
                 PROVE  \/ shown[s][k][u] = row'[k][u]
                        \/ \E i \in 1..Len(wire'[NodeOf[s]]) :
                              wire'[NodeOf[s]][i] = [kind |-> k, user |-> u, write |-> row'[k][u]]
      BY DEF NewestShown, OnItsWay
    <2>1. NodeOf[s] \in Nodes
      BY <1>1, IndicatorsAssumption DEF TypesInv
    <2>2. CASE k = kind /\ u = user
      BY <1>3, <1>8, <2>1, <2>2
    <2>3. CASE k # kind \/ u # user
      <3>1. row'[k][u] = row[k][u]
        BY <1>3, <2>3
      <3>2. \/ shown[s][k][u] = row[k][u]
            \/ \E i \in DOMAIN wire[NodeOf[s]] :
                  wire[NodeOf[s]][i] = [kind |-> k, user |-> u, write |-> row[k][u]]
        BY <1>1, <1>5, <2>1, <3>1 DEF NewestShown, OnItsWay
      <3>3. DOMAIN wire'[NodeOf[s]] = 1..Len(wire'[NodeOf[s]])
        BY <2>1, WireDomain DEF TypesInv
      <3>4. QED
        BY <1>6, <2>1, <3>1, <3>2, <3>3
    <2>4. QED
      BY <2>2, <2>3
  <1>14. QED
    BY <1>9, <1>10, <1>11, <1>12, <1>13 DEF FlowInv

-----------------------------------------------------------------------------
(* A notification *)

\* What is delivered is newer than what was shown, and what stays on the wire is newer still.
LEMMA NotifiedStep ==
    ASSUME FlowInv, TypesInv', NEW n \in Nodes, Notified(n)
    PROVE  FlowInv'
  <1> DEFINE q == wire[n]
             note == Head(q)
             local == {s \in room : NodeOf[s] = n}
  <1>1. TypesInv /\ BoundsInv /\ OrderInv /\ ShownInv /\ RowInv /\ NewestShown
    BY DEF FlowInv
  <1>2. /\ Tail(q) \in Seq(AnyNote) /\ DOMAIN q = 1..Len(q) /\ 1 \in DOMAIN q
        /\ note = q[1] /\ note \in AnyNote
        /\ \A i \in DOMAIN Tail(q) : i \in Nat /\ Tail(q)[i] = q[i + 1] /\ i + 1 \in DOMAIN q /\ 1 < i + 1
        /\ \A j \in DOMAIN q : j # 1 => j - 1 \in DOMAIN Tail(q) /\ Tail(q)[j - 1] = q[j]
    <2>1. q \in Seq(AnyNote) /\ q # <<>>
      BY <1>1 DEF TypesInv, Notified
    <2> HIDE DEF q
    <2>2. QED
      BY <2>1, Shortened
  <1>3. UNCHANGED <<room, row, up, writes>>
    BY DEF Notified, rows
  <1>4. /\ wire'[n] = Tail(q)
        /\ \A m \in Nodes : m # n => wire'[m] = wire[m]
    BY <1>1 DEF TypesInv, Notified
  <1>5. \A m \in Nodes : \A i \in DOMAIN wire'[m] :
            \E j \in DOMAIN wire[m] : wire'[m][i] = wire[m][j]
    <2> HIDE DEF q
    <2>1. \A i \in DOMAIN wire'[n] : \E j \in DOMAIN q : wire'[n][i] = q[j]
      BY <1>2, <1>4
    <2>2. QED
      BY <1>4, <2>1 DEF q
  <1>6. PICK skip \in SUBSET Slow :
          /\ shown' = [s \in Sockets |-> IF s \in local \ skip
                                         THEN [shown[s] EXCEPT ![note.kind][note.user] = note.write]
                                         ELSE shown[s]]
          /\ since' = [s \in Sockets |-> IF s \in local \cap skip
                                         THEN Later(since[s], note.write) ELSE since[s]]
    BY DEF Notified
  <1>7. note.kind \in Kinds /\ note.user \in Users /\ note.write \in 1..writes /\ writes \in Nat
    <2>1. note.write \in 1..writes
      BY <1>1, <1>2 DEF BoundsInv
    <2>2. note.kind \in Kinds /\ note.user \in Users /\ writes \in Nat
      BY <1>1, <1>2 DEF AnyNote, TypesInv
    <2>3. QED
      BY <2>1, <2>2
  <1>8. ASSUME NEW s \in Sockets, NEW k \in Kinds, NEW u \in Users
        PROVE  /\ s \in local \ skip /\ k = note.kind /\ u = note.user => shown'[s][k][u] = note.write
               /\ ~(s \in local \ skip /\ k = note.kind /\ u = note.user)
                     => shown'[s][k][u] = shown[s][k][u]
    <2> HIDE DEF note, local
    <2>1. shown[s] \in [Kinds -> [Users -> Nat]]
      BY <1>1 DEF TypesInv
    <2>2. QED
      BY <1>6, <1>7, <2>1
  <1>9. BoundsInv'
    <2>1. ASSUME NEW s \in Sockets, NEW k \in Kinds, NEW u \in Users PROVE shown'[s][k][u] <= writes
      <3>1. shown[s][k][u] <= writes
        BY <1>1 DEF BoundsInv
      <3> HIDE DEF note, local
      <3>2. QED
        BY <1>7, <1>8, <3>1
    <2>2. ASSUME NEW m \in Nodes, NEW i \in DOMAIN wire'[m] PROVE wire'[m][i].write \in 1..writes
      BY <1>1, <1>5 DEF BoundsInv
    <2>3. QED
      BY <1>1, <1>3, <2>1, <2>2 DEF BoundsInv
  <1>10. OrderInv'
    <2>1. ASSUME NEW i \in DOMAIN Tail(q), NEW j \in DOMAIN Tail(q), i < j
          PROVE  Tail(q)[i].write < Tail(q)[j].write
      <3>1. /\ i + 1 \in DOMAIN q /\ j + 1 \in DOMAIN q /\ i + 1 < j + 1
            /\ Tail(q)[i] = q[i + 1] /\ Tail(q)[j] = q[j + 1]
        BY <1>2, <2>1
      <3>2. QED
        BY <1>1, <3>1 DEF OrderInv
    <2>2. QED
      BY <1>1, <1>4, <2>1 DEF OrderInv
  <1>11. ShownInv'
    <2> SUFFICES ASSUME NEW s \in Sockets, NEW k \in Kinds, NEW u \in Users,
                        NEW i \in DOMAIN wire'[NodeOf[s]]
                 PROVE  shown'[s][k][u] < wire'[NodeOf[s]][i].write
      BY DEF ShownInv
    <2>1. NodeOf[s] \in Nodes
      BY IndicatorsAssumption
    <2>2. PICK j \in DOMAIN wire[NodeOf[s]] : wire'[NodeOf[s]][i] = wire[NodeOf[s]][j]
      BY <1>5, <2>1
    <2>3. shown[s][k][u] < wire'[NodeOf[s]][i].write
      BY <1>1, <2>2 DEF ShownInv
    <2>4. ASSUME NodeOf[s] = n PROVE note.write < wire'[NodeOf[s]][i].write
      <3>1. i \in DOMAIN Tail(q) /\ wire'[NodeOf[s]] = Tail(q)
        BY <1>4, <2>4
      <3>2. i + 1 \in DOMAIN q /\ 1 < i + 1 /\ wire'[NodeOf[s]][i] = q[i + 1]
        BY <1>2, <3>1
      <3>3. q[1].write < q[i + 1].write
        BY <1>1, <1>2, <3>2 DEF OrderInv
      <3>4. QED
        BY <1>2, <3>2, <3>3
    <2>5. s \in local => NodeOf[s] = n
      OBVIOUS
    <2> HIDE DEF note, local, q
    <2>6. QED
      BY <1>8, <2>3, <2>4, <2>5
  <1>12. RowInv'
    BY <1>1, <1>3, <1>5 DEF RowInv
  <1>13. NewestShown'
    <2> SUFFICES ASSUME NEW s \in room, NEW k \in Kinds, NEW u \in Users,
                        NodeOf[s] \in up, row[k][u] > since'[s]
                 PROVE  \/ shown'[s][k][u] = row[k][u]
                        \/ \E i \in 1..Len(wire'[NodeOf[s]]) :
                              wire'[NodeOf[s]][i] = [kind |-> k, user |-> u, write |-> row[k][u]]
      BY <1>3 DEF NewestShown, OnItsWay
    <2> DEFINE x == [kind |-> k, user |-> u, write |-> row[k][u]]
    <2>1. s \in Sockets /\ NodeOf[s] \in Nodes /\ row[k][u] \in Nat /\ since[s] \in Nat
      BY <1>1, IndicatorsAssumption DEF TypesInv
    <2>2. row[k][u] > since[s]
      BY <1>6, <1>7, <2>1 DEF Later
    <2>3. \/ shown[s][k][u] = row[k][u]
          \/ \E i \in DOMAIN wire[NodeOf[s]] : wire[NodeOf[s]][i] = x
      <3>1. DOMAIN wire[NodeOf[s]] = 1..Len(wire[NodeOf[s]])
        BY <1>1, <2>1, WireDomain
      <3>2. QED
        BY <1>1, <2>2, <3>1 DEF NewestShown, OnItsWay
    <2>4. DOMAIN wire'[NodeOf[s]] = 1..Len(wire'[NodeOf[s]])
      BY <2>1 DEF TypesInv
    <2>5. CASE NodeOf[s] # n
      <3>1. wire'[NodeOf[s]] = wire[NodeOf[s]] /\ shown'[s][k][u] = shown[s][k][u]
        BY <1>4, <1>8, <2>1, <2>5
      <3>2. QED
        BY <2>3, <2>4, <3>1
    <2>6. CASE NodeOf[s] = n
      <3>1. ASSUME NEW j \in DOMAIN q, j # 1, q[j] = x
            PROVE  \E i \in 1..Len(wire'[NodeOf[s]]) : wire'[NodeOf[s]][i] = x
        <4>1. j - 1 \in DOMAIN wire'[NodeOf[s]] /\ wire'[NodeOf[s]][j - 1] = x
          <5>1. wire'[NodeOf[s]] = Tail(q)
            BY <1>4, <2>6
          <5> HIDE DEF q, x
          <5>2. QED
            BY <1>2, <3>1, <5>1
        <4>2. QED
          BY <2>4, <4>1
      <3>2. CASE s \in skip
        <4>1. row[k][u] > note.write /\ shown'[s][k][u] = shown[s][k][u]
          BY <1>6, <1>7, <1>8, <2>1, <2>6, <3>2 DEF Later
        <4>2. note # x
          BY <1>7, <2>1, <4>1
        <4>3. QED
          BY <1>2, <2>3, <2>6, <3>1, <4>1, <4>2
      <3>3. CASE s \notin skip /\ k = note.kind /\ u = note.user
        <4>1. shown'[s][k][u] = note.write
          BY <1>8, <2>1, <2>6, <3>3
        <4>2. shown[s][k][u] < note.write /\ shown[s][k][u] \in Nat
          <5>1. shown[s][k][u] < wire[NodeOf[s]][1].write
            BY <1>1, <1>2, <2>1, <2>6 DEF ShownInv
          <5>2. wire[NodeOf[s]][1] = note /\ shown[s][k][u] \in Nat
            BY <1>1, <1>2, <2>1, <2>6 DEF TypesInv
          <5> HIDE DEF note
          <5>3. QED
            BY <5>1, <5>2
        <4>3. note.write <= row[k][u]
          BY <1>1, <1>2, <2>1, <2>2, <3>3 DEF RowInv
        <4>4. PICK j \in DOMAIN q : q[j] = x
          BY <1>7, <2>1, <2>3, <2>6, <4>2, <4>3
        <4>5. CASE j = 1
          BY <1>2, <4>1, <4>4, <4>5
        <4>6. CASE j # 1
          BY <3>1, <4>4, <4>6
        <4>7. QED
          BY <4>5, <4>6
      <3>4. CASE k # note.kind \/ u # note.user
        <4>1. shown'[s][k][u] = shown[s][k][u] /\ note # x
          BY <1>8, <2>1, <3>4
        <4>2. QED
          BY <1>2, <2>3, <2>6, <3>1, <4>1
      <3>5. QED
        BY <3>2, <3>3, <3>4
    <2>7. QED
      BY <2>5, <2>6
  <1>14. QED
    BY <1>9, <1>10, <1>11, <1>12, <1>13 DEF FlowInv

-----------------------------------------------------------------------------
(* Every step *)

\* A frame that begins has a socket.
LEMMA BeginsTypes ==
    ASSUME TypesInv, NEW h \in Callers, NEW s \in Sockets, NEW c \in Steps, Begins(h, s, c)
    PROVE  /\ handler' \in [Callers -> [pc : Steps, sock : Sockets \cup {None}]]
           /\ \A g \in Callers : handler'[g].pc # "idle" => handler'[g].sock \in Sockets
  BY DEF TypesInv, Begins, Idle

\* A frame that ends, or goes on with the socket it has.
LEMMA GoesOnTypes ==
    ASSUME TypesInv, NEW h \in Callers, NEW c \in Steps, handler[h].pc # "idle",
           handler' = [handler EXCEPT ![h] = Idle] \/ handler' = [handler EXCEPT ![h].pc = c]
    PROVE  /\ handler' \in [Callers -> [pc : Steps, sock : Sockets \cup {None}]]
           /\ \A g \in Callers : handler'[g].pc # "idle" => handler'[g].sock \in Sockets
  <1>1. /\ handler \in [Callers -> [pc : Steps, sock : Sockets \cup {None}]]
        /\ \A g \in Callers : handler[g].pc # "idle" => handler[g].sock \in Sockets
    BY DEF TypesInv
  <1>2. Idle \in [pc : Steps, sock : Sockets \cup {None}] /\ Idle.pc = "idle"
    BY DEF Idle, Steps
  <1>3. /\ [handler[h] EXCEPT !.pc = c] \in [pc : Steps, sock : Sockets \cup {None}]
        /\ [handler[h] EXCEPT !.pc = c].sock = handler[h].sock
    BY <1>1
  <1>4. PICK r \in [pc : Steps, sock : Sockets \cup {None}] :
          handler' = [handler EXCEPT ![h] = r] /\ (r.pc # "idle" => r.sock \in Sockets)
    BY <1>1, <1>2, <1>3
  <1>5. QED
    BY <1>1, <1>4

\* Leaving the room.
LEMMA LeavesTypes ==
    ASSUME TypesInv, NEW S, Leaves(S)
    PROVE  /\ room' \subseteq Sockets
           /\ shown' \in [Sockets -> [Kinds -> [Users -> Nat]]]
           /\ since' \in [Sockets -> Nat]
  BY DEF TypesInv, Leaves, Nothing

\* What leaving the room does to the clients.
LEMMA LeavesQuiet ==
    ASSUME TypesInv, NEW S, Leaves(S)
    PROVE  /\ \A s \in Sockets : shown'[s] = shown[s] \/ (shown'[s] = Nothing /\ s \notin room')
           /\ \A s \in room' : s \in room /\ since'[s] = since[s]
  BY DEF TypesInv, Leaves

\* A row that is written.
LEMMA Stored ==
    ASSUME NEW f \in [Users -> Nat], NEW u, NEW v \in Nat
    PROVE  [f EXCEPT ![u] = v] \in [Users -> Nat]
  OBVIOUS

\* Every step preserves FlowInv.
LEMMA NextFlow == FlowInv /\ [Next]_vars => FlowInv'
  <1> SUFFICES ASSUME FlowInv, [Next]_vars PROVE FlowInv'
    OBVIOUS
  <1>0. TypesInv
    BY DEF FlowInv
  <1>1. ASSUME NEW s \in Sockets, Close(s) PROVE FlowInv'
    <2>1. TypesInv'
      BY <1>0, <1>1, LeavesTypes DEF Close, TypesInv, rows
    <2>2. QED
      BY <1>0, <1>1, <2>1, LeavesQuiet, Quiet DEF Close, rows
  <1>2. ASSUME NEW h \in Callers, NEW s \in Sockets, JoinFrame(h, s) PROVE FlowInv'
    <2>1. /\ handler' \in [Callers -> [pc : Steps, sock : Sockets \cup {None}]]
          /\ \A g \in Callers : handler'[g].pc # "idle" => handler'[g].sock \in Sockets
      BY <1>0, <1>2, BeginsTypes DEF JoinFrame, Steps
    <2>2. since' \in [Sockets -> Nat] /\ room' \subseteq Sockets
      BY <1>0, <1>2 DEF JoinFrame, TypesInv
    <2>3. UNCHANGED <<row, writes, up, wire, shown>>
      BY <1>2 DEF JoinFrame, Begins, rows
    <2>4. TypesInv'
      BY <1>0, <2>1, <2>2, <2>3 DEF TypesInv
    <2>5. \A t \in room' : \/ since'[t] >= writes
                           \/ t \in room /\ since'[t] = since[t]
      BY <1>0, <1>2 DEF JoinFrame, TypesInv
    <2>6. QED
      BY <2>3, <2>4, <2>5, Quiet
  <1>3. ASSUME NEW h \in Callers, NEW s \in Sockets, LeaveFrame(h, s) PROVE FlowInv'
    <2>1. /\ handler' \in [Callers -> [pc : Steps, sock : Sockets \cup {None}]]
          /\ \A g \in Callers : handler'[g].pc # "idle" => handler'[g].sock \in Sockets
      BY <1>0, <1>3, BeginsTypes DEF LeaveFrame, Steps
    <2>2. UNCHANGED <<row, writes, up, wire>>
      BY <1>3 DEF LeaveFrame, Begins, rows
    <2>3. TypesInv'
      BY <1>0, <1>3, <2>1, <2>2, LeavesTypes DEF LeaveFrame, TypesInv
    <2>4. QED
      BY <1>0, <1>3, <2>2, <2>3, LeavesQuiet, Quiet DEF LeaveFrame
  <1>4. ASSUME NEW h \in Callers, NEW s \in Sockets, TypingStart(h, s) \/ TypingStop(h, s)
        PROVE  FlowInv'
    <2>1. /\ handler' \in [Callers -> [pc : Steps, sock : Sockets \cup {None}]]
          /\ \A g \in Callers : handler'[g].pc # "idle" => handler'[g].sock \in Sockets
      BY <1>0, <1>4, BeginsTypes DEF TypingStart, TypingStop, Steps
    <2>2. UNCHANGED <<room, row, writes, up, wire, shown, since>>
      BY <1>4 DEF TypingStart, TypingStop, Begins, rows
    <2>3. TypesInv'
      BY <1>0, <2>1, <2>2 DEF TypesInv
    <2>4. QED
      BY <2>2, <2>3, Quiet
  <1>5. ASSUME NEW h \in Callers, CheckMember(h) PROVE FlowInv'
    <2>1. \/ handler' = [handler EXCEPT ![h] = Idle]
          \/ handler' = [handler EXCEPT ![h].pc = "present"]
          \/ handler' = [handler EXCEPT ![h].pc = "type"]
      BY <1>5 DEF CheckMember
    <2>2. handler[h].pc # "idle" /\ "present" \in Steps /\ "type" \in Steps
      BY <1>5 DEF CheckMember, Steps
    <2>3. /\ handler' \in [Callers -> [pc : Steps, sock : Sockets \cup {None}]]
          /\ \A g \in Callers : handler'[g].pc # "idle" => handler'[g].sock \in Sockets
      BY <1>0, <2>1, <2>2, GoesOnTypes
    <2>4. UNCHANGED <<room, row, writes, up, wire, shown, since>>
      BY <1>5 DEF CheckMember, rows, flow
    <2>5. TypesInv'
      BY <1>0, <2>3, <2>4 DEF TypesInv
    <2>6. QED
      BY <2>4, <2>5, Quiet
  <1>6. ASSUME NEW h \in Callers, Execute(h) PROVE FlowInv'
    <2>1. handler[h].pc # "idle" /\ "idle" \in Steps /\ UNCHANGED <<room, up, shown, since>>
          /\ handler' = [handler EXCEPT ![h] = Idle]
      BY <1>6 DEF Execute, Steps
    <2>2. User(h) \in Users
      BY <1>0, <2>1, IndicatorsAssumption DEF TypesInv, User
    <2>3. /\ handler' \in [Callers -> [pc : Steps, sock : Sockets \cup {None}]]
          /\ \A g \in Callers : handler'[g].pc # "idle" => handler'[g].sock \in Sockets
      BY <1>0, <2>1, GoesOnTypes
    <2>4. ASSUME NEW k \in Kinds, Upsert(k, h) PROVE FlowInv'
      <3>1. row' \in [Kinds -> [Users -> Nat]] /\ writes' \in Nat
        <4>1. row' = [row EXCEPT ![k][User(h)] = writes + 1] /\ writes' = writes + 1
          BY <2>4 DEF Upsert
        <4>2. row \in [Kinds -> [Users -> Nat]] /\ writes \in Nat
          BY <1>0 DEF TypesInv
        <4>3. [row[k] EXCEPT ![User(h)] = writes + 1] \in [Users -> Nat]
          <5>1. row[k] \in [Users -> Nat] /\ writes + 1 \in Nat
            BY <4>2
          <5>2. QED
            BY <5>1, Stored
        <4>4. row' = [row EXCEPT ![k] = [row[k] EXCEPT ![User(h)] = writes + 1]]
          BY <4>1
        <4>5. QED
          BY <4>1, <4>2, <4>3, <4>4
      <3>2. wire' \in [Nodes -> Seq(AnyNote)]
        <4> DEFINE note == [kind |-> k, user |-> User(h), write |-> writes + 1]
        <4>1. note \in AnyNote
          BY <1>0, <2>2 DEF AnyNote, TypesInv
        <4>2. wire' = [m \in Nodes |-> IF m \in up THEN Append(wire[m], note) ELSE wire[m]]
          BY <2>4 DEF Upsert, Fires
        <4>3. \A m \in Nodes : wire[m] \in Seq(AnyNote)
          BY <1>0 DEF TypesInv
        <4> HIDE DEF note
        <4>4. \A m \in Nodes : Append(wire[m], note) \in Seq(AnyNote)
          BY <4>1, <4>3, Appended
        <4>5. QED
          BY <4>2, <4>3, <4>4
      <3>3. TypesInv'
        BY <1>0, <2>1, <2>3, <3>1, <3>2 DEF TypesInv
      <3>4. QED
        BY <2>1, <2>2, <2>4, <3>3, UpsertStep
    <2>5. ASSUME NEW k \in Kinds, Delete(k, User(h)) PROVE FlowInv'
      <3>1. row' \in [Kinds -> [Users -> Nat]] /\ UNCHANGED <<writes, wire>>
        BY <1>0, <2>5 DEF TypesInv, Delete
      <3>2. TypesInv'
        BY <1>0, <2>1, <2>3, <3>1 DEF TypesInv
      <3>3. \A j \in Kinds, u \in Users : row'[j][u] \in {0, row[j][u]}
        BY <1>0, <2>5 DEF TypesInv, Delete
      <3>4. QED
        BY <2>1, <3>1, <3>2, <3>3, Quiet
    <2>6. ASSUME UNCHANGED <<rows, wire>> PROVE FlowInv'
      <3>1. UNCHANGED <<row, writes, wire>>
        BY <2>6 DEF rows
      <3>2. TypesInv'
        BY <1>0, <2>1, <2>3, <3>1 DEF TypesInv
      <3>3. QED
        BY <2>1, <3>1, <3>2, Quiet
    <2>7. "presence" \in Kinds /\ "typing" \in Kinds
      BY DEF Kinds
    <2>8. QED
      BY <1>6, <2>4, <2>5, <2>6, <2>7 DEF Execute
  <1>7. ASSUME NEW n \in Nodes, Notified(n) PROVE FlowInv'
    <2> DEFINE note == Head(wire[n])
    <2>1. Tail(wire[n]) \in Seq(AnyNote) /\ note \in AnyNote
      <3>1. wire[n] \in Seq(AnyNote) /\ wire[n] # <<>>
        BY <1>0, <1>7 DEF TypesInv, Notified
      <3>2. QED
        BY <3>1, Shortened
    <2>2. note.kind \in Kinds /\ note.user \in Users /\ note.write \in Nat
      BY <2>1 DEF AnyNote
    <2>3. wire' \in [Nodes -> Seq(AnyNote)]
      BY <1>0, <1>7, <2>1 DEF TypesInv, Notified
    <2>4. PICK S \in SUBSET Sockets, T \in SUBSET Sockets :
            /\ shown' = [s \in Sockets |-> IF s \in S
                                           THEN [shown[s] EXCEPT ![note.kind][note.user] = note.write]
                                           ELSE shown[s]]
            /\ since' = [s \in Sockets |-> IF s \in T THEN Later(since[s], note.write) ELSE since[s]]
      <3>1. PICK skip \in SUBSET Slow :
              LET local == {s \in room : NodeOf[s] = n} IN
              /\ shown' = [s \in Sockets |-> IF s \in local \ skip
                                             THEN [shown[s] EXCEPT ![note.kind][note.user] = note.write]
                                             ELSE shown[s]]
              /\ since' = [s \in Sockets |-> IF s \in local \cap skip
                                             THEN Later(since[s], note.write) ELSE since[s]]
        BY <1>7 DEF Notified
      <3> DEFINE local == {s \in room : NodeOf[s] = n}
      <3>2. local \ skip \in SUBSET Sockets /\ local \cap skip \in SUBSET Sockets
        BY <1>0 DEF TypesInv
      <3>3. QED
        BY <3>1, <3>2
    <2>5. shown' \in [Sockets -> [Kinds -> [Users -> Nat]]] /\ since' \in [Sockets -> Nat]
      <3> HIDE DEF note
      <3>1. \A s \in Sockets : shown[s] \in [Kinds -> [Users -> Nat]] /\ since[s] \in Nat
        BY <1>0 DEF TypesInv
      <3>2. \A s \in Sockets : [shown[s] EXCEPT ![note.kind][note.user] = note.write]
                                   \in [Kinds -> [Users -> Nat]]
        BY <2>2, <3>1
      <3>3. \A s \in Sockets : Later(since[s], note.write) \in Nat
        BY <2>2, <3>1 DEF Later
      <3>4. QED
        BY <2>4, <3>1, <3>2, <3>3
    <2>6. TypesInv'
      BY <1>0, <1>7, <2>3, <2>5 DEF TypesInv, Notified, rows
    <2>7. QED
      BY <1>7, <2>6, NotifiedStep
  <1>8. ASSUME NEW n \in Nodes, Lost(n) PROVE FlowInv'
    <2>1. UNCHANGED <<room, row, writes, shown, handler, since>> /\ up' = up \ {n}
          /\ wire' = [wire EXCEPT ![n] = <<>>]
      BY <1>8 DEF Lost, rows
    <2>2. TypesInv'
      BY <1>0, <2>1 DEF TypesInv
    <2>3. \A m \in Nodes : wire'[m] = wire[m] \/ (wire'[m] = <<>> /\ m \notin up')
      BY <1>0, <2>1 DEF TypesInv
    <2>4. QED
      BY <2>1, <2>2, <2>3, Quiet
  <1>9. ASSUME NEW n \in Nodes, Reconnected(n) PROVE FlowInv'
    <2>1. UNCHANGED <<room, row, writes, wire, shown, handler>> /\ up' = up \cup {n}
          /\ since' = [s \in Sockets |-> IF s \in room /\ NodeOf[s] = n THEN writes ELSE since[s]]
      BY <1>9 DEF Reconnected, rows, flow
    <2>2. TypesInv'
      BY <1>0, <2>1 DEF TypesInv
    <2>3. \A s \in room' : \/ since'[s] >= writes
                           \/ /\ s \in room /\ since'[s] = since[s]
                              /\ NodeOf[s] \in up' => NodeOf[s] \in up
      BY <1>0, <2>1 DEF TypesInv
    <2>4. QED
      BY <2>1, <2>2, <2>3, Quiet
  <1>10. ASSUME NEW n \in Nodes, Crash(n) PROVE FlowInv'
    <2> DEFINE gone == {s \in Sockets : NodeOf[s] = n}
    <2>1. Leaves(gone) /\ UNCHANGED <<row, writes>> /\ up' = up \ {n}
          /\ wire' = [wire EXCEPT ![n] = <<>>]
          /\ handler' = [h \in Callers |-> IF handler[h].sock \in gone THEN Idle ELSE handler[h]]
      BY <1>10 DEF Crash, rows
    <2> HIDE DEF gone
    <2>2. /\ handler' \in [Callers -> [pc : Steps, sock : Sockets \cup {None}]]
          /\ \A g \in Callers : handler'[g].pc # "idle" => handler'[g].sock \in Sockets
      BY <1>0, <2>1 DEF TypesInv, Idle, Steps
    <2>3. wire' \in [Nodes -> Seq(AnyNote)]
      BY <1>0, <2>1 DEF TypesInv
    <2>4. TypesInv'
      BY <1>0, <2>1, <2>2, <2>3, LeavesTypes DEF TypesInv
    <2>5. \A m \in Nodes : wire'[m] = wire[m] \/ (wire'[m] = <<>> /\ m \notin up')
      BY <1>0, <2>1 DEF TypesInv
    <2>6. \A s \in room' : NodeOf[s] \in up' => NodeOf[s] \in up
      BY <2>1
    <2>7. QED
      BY <1>0, <2>1, <2>4, <2>5, <2>6, LeavesQuiet, Quiet
  <1>11. ASSUME NEW n \in Nodes, Sweep(n) PROVE FlowInv'
    <2>1. UNCHANGED <<room, writes, up, wire, shown, handler, since>>
      BY <1>11 DEF Sweep, flow
    <2>2. row' = [row EXCEPT !["presence"] = [u \in Users |-> IF u \in Swept(n) THEN 0 ELSE row["presence"][u]]]
      BY <1>11 DEF Sweep
    <2>3. row' \in [Kinds -> [Users -> Nat]] /\ \A k \in Kinds, u \in Users : row'[k][u] \in {0, row[k][u]}
      BY <1>0, <2>2 DEF TypesInv, Kinds
    <2>4. TypesInv'
      BY <1>0, <2>1, <2>3 DEF TypesInv
    <2>5. QED
      BY <2>1, <2>3, <2>4, Quiet
  <1>12. ASSUME NEW u \in Users, Ages(u) PROVE FlowInv'
    <2>1. UNCHANGED <<room, row, writes, up, wire, shown, handler, since>>
      BY <1>12 DEF Ages, flow
    <2>2. TypesInv'
      BY <1>0, <2>1 DEF TypesInv
    <2>3. QED
      BY <2>1, <2>2, Quiet
  <1>13. ASSUME UNCHANGED vars PROVE FlowInv'
    <2>1. UNCHANGED <<room, row, writes, up, wire, shown, handler, since>>
      BY <1>13 DEF vars, rows, flow
    <2>2. TypesInv'
      BY <1>0, <2>1 DEF TypesInv
    <2>3. QED
      BY <2>1, <2>2, Quiet
  <1>14. QED
    BY <1>1, <1>2, <1>3, <1>4, <1>5, <1>6, <1>7, <1>8, <1>9, <1>10, <1>11, <1>12, <1>13 DEF Next

\* FlowInv holds at the start.
LEMMA InitFlow == Init => FlowInv
  <1> SUFFICES ASSUME Init PROVE FlowInv
    OBVIOUS
  <1>1. row = Nothing /\ writes = 0 /\ room = {} /\ wire = [n \in Nodes |-> <<>>]
        /\ handler = [h \in Callers |-> Idle] /\ shown = [s \in Sockets |-> Nothing]
        /\ since = [s \in Sockets |-> 0]
    BY DEF Init
  <1>2. Nothing \in [Kinds -> [Users -> Nat]] /\ \A k \in Kinds, u \in Users : Nothing[k][u] = 0
    BY DEF Nothing
  <1>3. TypesInv
    <2>1. wire \in [Nodes -> Seq(AnyNote)]
      BY <1>1
    <2>2. handler \in [Callers -> [pc : Steps, sock : Sockets \cup {None}]]
          /\ \A h \in Callers : handler[h].pc = "idle"
      BY <1>1 DEF Idle, Steps
    <2> HIDE DEF Nothing
    <2>3. QED
      BY <1>1, <1>2, <2>1, <2>2 DEF TypesInv
  <1>4. \A n \in Nodes : DOMAIN wire[n] = {}
    BY <1>1, NoNotes
  <1>5. BoundsInv
    BY <1>1, <1>2, <1>4 DEF BoundsInv
  <1>6. ShownInv
    BY <1>4, IndicatorsAssumption DEF ShownInv
  <1>7. OrderInv /\ RowInv /\ NewestShown
    BY <1>1, <1>4 DEF OrderInv, RowInv, NewestShown
  <1>8. QED
    BY <1>3, <1>5, <1>6, <1>7 DEF FlowInv

\* chat.service.ts and chat-ws.service.ts: on whichever node a row is written, or
\* written again, every client in the room is sent what it holds; no notification that
\* comes late takes that back.
THEOREM NewestIsShown == Spec => []NewestShown
  <1>1. FlowInv => NewestShown
    BY DEF FlowInv
  <1>2. QED
    BY <1>1, InitFlow, NextFlow, PTL DEF Spec

-----------------------------------------------------------------------------
(* Types *)

\* Frames that may still write: those that WriteAllowed counts.
Writing == {h \in Callers : handler[h].pc \in {"join", "present", "check", "type"}}

\* What IndicatorsTypeOK says beyond FlowInv: who is in the room is open, a row that is
\* stale is there, nothing owed is from a later write; and each frame in progress finds
\* its write allowed.
RestInv ==
    /\ open \subseteq Sockets /\ room \subseteq open
    /\ node \in [Users -> Nodes \cup {None}]
    /\ stale \subseteq {u \in Users : row["presence"][u] # 0}
    /\ up \subseteq Nodes /\ crashed \subseteq Nodes
    /\ \A s \in Sockets : since[s] <= writes
    /\ writes + Cardinality(Writing) <= MaxWrites

\* The number of frames that may write.
LEMMA WritingFinite == IsFiniteSet(Writing) /\ Cardinality(Writing) \in Nat
  BY IndicatorsAssumption, FS_Subset, FS_CardinalityType DEF Writing

\* Frames end, or come to queries that write no more.
LEMMA NoneBegins ==
    ASSUME Writing' \subseteq Writing
    PROVE  Cardinality(Writing') \in Nat /\ Cardinality(Writing') <= Cardinality(Writing)
  BY WritingFinite, FS_Subset, FS_CardinalityType

\* One frame begins.
LEMMA OneBegins ==
    ASSUME NEW h, Writing' \subseteq Writing \cup {h}
    PROVE  Cardinality(Writing') \in Nat /\ Cardinality(Writing') <= Cardinality(Writing) + 1
  <1>1. /\ IsFiniteSet(Writing \cup {h})
        /\ Cardinality(Writing \cup {h}) \in {Cardinality(Writing), Cardinality(Writing) + 1}
    BY WritingFinite, FS_AddElement
  <1>2. /\ IsFiniteSet(Writing')
        /\ Cardinality(Writing') <= Cardinality(Writing \cup {h})
    BY <1>1, FS_Subset
  <1>3. QED
    BY <1>1, <1>2, WritingFinite, FS_CardinalityType

\* One frame writes, which is its last query.
LEMMA OneEnds ==
    ASSUME NEW h \in Writing, Writing' \subseteq Writing \ {h}
    PROVE  Cardinality(Writing') \in Nat /\ Cardinality(Writing') + 1 <= Cardinality(Writing)
  <1>1. /\ IsFiniteSet(Writing \ {h})
        /\ Cardinality(Writing \ {h}) = Cardinality(Writing) - 1
    BY WritingFinite, FS_RemoveElement
  <1>2. /\ IsFiniteSet(Writing')
        /\ Cardinality(Writing') <= Cardinality(Writing \ {h})
    BY <1>1, FS_Subset
  <1>3. QED
    BY <1>1, <1>2, WritingFinite, FS_CardinalityType

\* A frame that begins and writes nothing, as leave_room and typing_stop.
LEMMA BeginsQuietly ==
    ASSUME TypesInv, NEW h \in Callers, NEW s \in Sockets, NEW c \in {"leave", "stop"}, Begins(h, s, c)
    PROVE  Writing' \subseteq Writing
  BY DEF TypesInv, Begins, Writing

\* A frame that begins with a write to come.
LEMMA BeginsToWrite ==
    ASSUME TypesInv, NEW h \in Callers, NEW s \in Sockets, NEW c \in {"join", "check"}, Begins(h, s, c)
    PROVE  Writing' \subseteq Writing \cup {h}
  BY DEF TypesInv, Begins, Writing

\* What is owed stays within the writes.
LEMMA LeavesOwed ==
    ASSUME FlowInv, RestInv, NEW S, Leaves(S)
    PROVE  /\ room' = room \ S
           /\ \A s \in Sockets : since'[s] <= writes
  BY DEF FlowInv, TypesInv, RestInv, Leaves

\* Every step preserves RestInv.
LEMMA RestStep == FlowInv /\ RestInv /\ [Next]_vars => RestInv'
  <1> SUFFICES ASSUME FlowInv, RestInv, [Next]_vars PROVE RestInv'
    OBVIOUS
  <1>0. TypesInv /\ BoundsInv /\ MaxWrites \in Nat /\ Cardinality(Writing) \in Nat
    BY IndicatorsAssumption, WritingFinite DEF FlowInv
  <1>1. ASSUME NEW s \in Sockets, Close(s) PROVE RestInv'
    <2>1. UNCHANGED <<row, node, stale, writes, up, handler, crashed>> /\ open' = open \ {s} /\ Leaves({s})
      BY <1>1 DEF Close, rows
    <2>2. QED
      BY <2>1, LeavesOwed DEF RestInv, Writing
  <1>2. ASSUME NEW h \in Callers, NEW s \in Sockets, JoinFrame(h, s) PROVE RestInv'
    <2>1. /\ UNCHANGED <<open, row, node, stale, writes, up, crashed>>
          /\ room' = room \cup {s} /\ s \in open
          /\ since' = IF s \in room THEN since ELSE [since EXCEPT ![s] = writes]
          /\ Begins(h, s, "join")
          /\ writes + Cardinality(Writing) < MaxWrites
      BY <1>2 DEF JoinFrame, Begins, rows, WriteAllowed, Writing
    <2>2. \A t \in Sockets : since'[t] <= writes
      BY <1>0, <2>1 DEF TypesInv, RestInv
    <2>3. writes + Cardinality(Writing') <= MaxWrites
      <3>1. Writing' \subseteq Writing \cup {h}
        BY <1>0, <2>1, BeginsToWrite
      <3>2. Cardinality(Writing') \in Nat /\ Cardinality(Writing') <= Cardinality(Writing) + 1
        BY <3>1, OneBegins
      <3>3. QED
        BY <1>0, <2>1, <3>2 DEF TypesInv
    <2>4. QED
      BY <2>1, <2>2, <2>3 DEF RestInv
  <1>3. ASSUME NEW h \in Callers, NEW s \in Sockets, LeaveFrame(h, s) PROVE RestInv'
    <2>1. /\ UNCHANGED <<open, row, node, stale, writes, up, crashed>>
          /\ Begins(h, s, "leave") /\ Leaves({s})
      BY <1>3 DEF LeaveFrame, Begins, rows
    <2>2. writes + Cardinality(Writing') <= MaxWrites
      <3>1. Writing' \subseteq Writing
        BY <1>0, <2>1, BeginsQuietly
      <3>2. Cardinality(Writing') \in Nat /\ Cardinality(Writing') <= Cardinality(Writing)
        BY <3>1, NoneBegins
      <3>3. QED
        BY <1>0, <3>2 DEF TypesInv, RestInv
    <2>3. QED
      BY <2>1, <2>2, LeavesOwed DEF RestInv
  <1>4. ASSUME NEW h \in Callers, NEW s \in Sockets, TypingStart(h, s) PROVE RestInv'
    <2>1. /\ UNCHANGED <<open, room, row, node, stale, writes, up, crashed, since>>
          /\ Begins(h, s, "check")
          /\ writes + Cardinality(Writing) < MaxWrites
      BY <1>4 DEF TypingStart, Begins, rows, WriteAllowed, Writing
    <2>2. writes + Cardinality(Writing') <= MaxWrites
      <3>1. Writing' \subseteq Writing \cup {h}
        BY <1>0, <2>1, BeginsToWrite
      <3>2. Cardinality(Writing') \in Nat /\ Cardinality(Writing') <= Cardinality(Writing) + 1
        BY <3>1, OneBegins
      <3>3. QED
        BY <1>0, <2>1, <3>2 DEF TypesInv
    <2>3. QED
      BY <2>1, <2>2 DEF RestInv
  <1>5. ASSUME NEW h \in Callers, NEW s \in Sockets, TypingStop(h, s) PROVE RestInv'
    <2>1. /\ UNCHANGED <<open, room, row, node, stale, writes, up, crashed, since>>
          /\ Begins(h, s, "stop")
      BY <1>5 DEF TypingStop, Begins, rows
    <2>2. writes + Cardinality(Writing') <= MaxWrites
      <3>1. Writing' \subseteq Writing
        BY <1>0, <2>1, BeginsQuietly
      <3>2. Cardinality(Writing') \in Nat /\ Cardinality(Writing') <= Cardinality(Writing)
        BY <3>1, NoneBegins
      <3>3. QED
        BY <1>0, <3>2 DEF TypesInv, RestInv
    <2>3. QED
      BY <2>1, <2>2 DEF RestInv
  <1>6. ASSUME NEW h \in Callers, CheckMember(h) PROVE RestInv'
    <2>1. UNCHANGED <<open, room, row, node, stale, writes, up, crashed, since>>
      BY <1>6 DEF CheckMember, rows, flow
    <2>2. Writing' \subseteq Writing
      <3>1. h \in Writing
        BY <1>6 DEF CheckMember, Writing
      <3>2. \A g \in Callers : g # h => handler'[g] = handler[g]
        BY <1>0, <1>6 DEF CheckMember, TypesInv
      <3>3. QED
        BY <3>1, <3>2 DEF Writing
    <2>3. writes + Cardinality(Writing') <= MaxWrites
      BY <1>0, <2>2, NoneBegins DEF TypesInv, RestInv
    <2>4. QED
      BY <2>1, <2>3 DEF RestInv
  <1>7. ASSUME NEW h \in Callers, Execute(h) PROVE RestInv'
    <2>1. /\ UNCHANGED <<open, room, up, crashed, since>>
          /\ handler[h].pc \in {"present", "type", "leave", "stop"}
          /\ handler' = [handler EXCEPT ![h] = Idle]
      BY <1>7 DEF Execute
    <2>2. Writing' \subseteq Writing \ {h}
      BY <1>0, <2>1 DEF TypesInv, Writing, Idle
    <2>3. User(h) \in Users /\ NodeOf[handler[h].sock] \in Nodes
      BY <1>0, <2>1, IndicatorsAssumption DEF TypesInv, User
    <2>4. ASSUME NEW k \in Kinds, Upsert(k, h), h \in Writing PROVE RestInv'
      <3>1. writes' = writes + 1 /\ writes \in Nat
        BY <1>0, <2>4 DEF Upsert, TypesInv
      <3>2. writes' + Cardinality(Writing') <= MaxWrites
        BY <1>0, <2>2, <2>4, <3>1, OneEnds DEF RestInv
      <3>3. \A s \in Sockets : since[s] <= writes'
        BY <1>0, <3>1 DEF TypesInv, RestInv
      <3>4. node' \in [Users -> Nodes \cup {None}]
        BY <2>3, <2>4 DEF Upsert, RestInv
      <3>5. /\ row'[k][User(h)] = writes + 1
            /\ \A j \in Kinds, u \in Users : (j # k \/ u # User(h)) => row'[j][u] = row[j][u]
        BY <1>0, <2>3, <2>4 DEF Upsert, TypesInv
      <3>6. stale' \subseteq {u \in Users : row'["presence"][u] # 0}
        <4>1. CASE k = "presence"
          BY <2>4, <3>1, <3>5, <4>1 DEF Upsert, RestInv, Kinds
        <4>2. CASE k # "presence"
          BY <2>4, <3>1, <3>5, <4>2 DEF Upsert, RestInv, Kinds
        <4>3. QED
          BY <4>1, <4>2
      <3>7. QED
        BY <2>1, <3>2, <3>3, <3>4, <3>6 DEF RestInv
    <2>5. Cardinality(Writing') \in Nat /\ Cardinality(Writing') <= Cardinality(Writing)
      BY <2>2, NoneBegins
    <2>6. ASSUME NEW k \in Kinds, Delete(k, User(h)) PROVE RestInv'
      <3>1. writes' = writes /\ writes \in Nat
        BY <1>0, <2>6 DEF Delete, TypesInv
      <3>2. writes' + Cardinality(Writing') <= MaxWrites
        BY <1>0, <2>5, <3>1 DEF RestInv
      <3>3. node' \in [Users -> Nodes \cup {None}]
        BY <2>6 DEF Delete, RestInv
      <3>4. \A j \in Kinds, u \in Users : (j # k \/ u # User(h)) => row'[j][u] = row[j][u]
        BY <1>0, <2>6 DEF Delete, TypesInv
      <3>5. stale' \subseteq {u \in Users : row'["presence"][u] # 0}
        <4>1. CASE k = "presence"
          BY <2>6, <3>4, <4>1 DEF Delete, RestInv, Kinds
        <4>2. CASE k # "presence"
          BY <2>6, <3>4, <4>2 DEF Delete, RestInv, Kinds
        <4>3. QED
          BY <4>1, <4>2
      <3>6. QED
        BY <2>1, <3>1, <3>2, <3>3, <3>5 DEF RestInv
    <2>7. ASSUME UNCHANGED rows PROVE RestInv'
      <3>1. UNCHANGED <<row, node, stale, writes>>
        BY <2>7 DEF rows
      <3>2. writes + Cardinality(Writing') <= MaxWrites
        BY <1>0, <2>5 DEF RestInv, TypesInv
      <3>3. QED
        BY <2>1, <3>1, <3>2 DEF RestInv
    <2>8. "presence" \in Kinds /\ "typing" \in Kinds
      BY DEF Kinds
    <2>9. QED
      BY <1>7, <2>4, <2>6, <2>7, <2>8 DEF Execute, Writing
  <1>8. ASSUME NEW n \in Nodes, Notified(n) PROVE RestInv'
    <2> DEFINE note == Head(wire[n])
    <2>1. UNCHANGED <<open, room, row, node, stale, writes, up, handler, crashed>>
      BY <1>8 DEF Notified, rows
    <2>2. note.write \in 1..writes
      <3>1. wire[n] \in Seq(AnyNote) /\ wire[n] # <<>>
        BY <1>0, <1>8 DEF TypesInv, Notified
      <3>2. 1 \in DOMAIN wire[n] /\ note = wire[n][1]
        BY <3>1, Shortened
      <3>3. QED
        BY <1>0, <3>2 DEF BoundsInv
    <2>3. PICK T : since' = [s \in Sockets |-> IF s \in T THEN Later(since[s], note.write) ELSE since[s]]
      BY <1>8 DEF Notified
    <2> HIDE DEF note
    <2>4. \A s \in Sockets : since'[s] <= writes
      BY <1>0, <2>2, <2>3 DEF RestInv, TypesInv, Later
    <2>5. QED
      BY <2>1, <2>4 DEF RestInv, Writing
  <1>9. ASSUME NEW n \in Nodes, Lost(n) PROVE RestInv'
    BY <1>9 DEF Lost, rows, RestInv, Writing
  <1>10. ASSUME NEW n \in Nodes, Reconnected(n) PROVE RestInv'
    <2>1. \A s \in Sockets : since'[s] <= writes
      BY <1>0, <1>10 DEF Reconnected, TypesInv, RestInv
    <2>2. QED
      BY <1>10, <2>1 DEF Reconnected, rows, flow, RestInv, Writing
  <1>11. ASSUME NEW n \in Nodes, Crash(n) PROVE RestInv'
    <2> DEFINE gone == {s \in Sockets : NodeOf[s] = n}
    <2>1. /\ UNCHANGED <<row, node, stale, writes>> /\ up' = up \ {n} /\ crashed' = crashed \cup {n}
          /\ open' = open \ gone /\ Leaves(gone)
          /\ handler' = [h \in Callers |-> IF handler[h].sock \in gone THEN Idle ELSE handler[h]]
      BY <1>11 DEF Crash, rows
    <2> HIDE DEF gone
    <2>2. Writing' \subseteq Writing
      BY <2>1 DEF Writing, Idle
    <2>3. writes + Cardinality(Writing') <= MaxWrites
      BY <1>0, <2>2, NoneBegins DEF RestInv, TypesInv
    <2>4. QED
      BY <2>1, <2>3, LeavesOwed DEF RestInv
  <1>12. ASSUME NEW n \in Nodes, Sweep(n) PROVE RestInv'
    <2>1. /\ UNCHANGED <<open, room, writes, up, handler, crashed, since>>
          /\ row' = [row EXCEPT !["presence"] = [u \in Users |-> IF u \in stale THEN 0 ELSE row["presence"][u]]]
          /\ stale' = {}
          /\ node' = [u \in Users |-> IF u \in stale THEN None ELSE node[u]]
      BY <1>12 DEF Sweep, Swept, flow
    <2>2. node' \in [Users -> Nodes \cup {None}]
      BY <2>1 DEF RestInv
    <2>3. QED
      BY <2>1, <2>2 DEF RestInv, Writing
  <1>13. ASSUME NEW u \in Users, Ages(u) PROVE RestInv'
    BY <1>13 DEF Ages, flow, RestInv, Writing
  <1>14. ASSUME UNCHANGED vars PROVE RestInv'
    BY <1>14 DEF vars, rows, RestInv, Writing
  <1>15. QED
    BY <1>1, <1>2, <1>3, <1>4, <1>5, <1>6, <1>7, <1>8, <1>9, <1>10, <1>11, <1>12, <1>13, <1>14 DEF Next

\* RestInv holds at the start.
LEMMA InitRest == Init => RestInv
  <1> SUFFICES ASSUME Init PROVE RestInv
    OBVIOUS
  <1>1. Writing = {}
    BY DEF Init, Writing, Idle
  <1>2. writes + Cardinality(Writing) = 0
    BY <1>1, FS_EmptySet DEF Init
  <1>3. QED
    BY <1>2, IndicatorsAssumption DEF Init, RestInv

\* chat.service.ts: the state of the rows, wires and clients keeps its types.  No frame
\* that WriteAllowed let begin finds MaxWrites exhausted.
THEOREM IndicatorsTypeCorrect == Spec => []IndicatorsTypeOK
  <1>1. FlowInv /\ RestInv => IndicatorsTypeOK
    <2> SUFFICES ASSUME FlowInv, RestInv PROVE IndicatorsTypeOK
      OBVIOUS
    <2>1. TypesInv /\ BoundsInv /\ MaxWrites \in Nat /\ Cardinality(Writing) \in Nat
      BY IndicatorsAssumption, WritingFinite DEF FlowInv
    <2>2. writes \in 0..MaxWrites /\ \A w \in Nat : w <= writes => w \in 0..MaxWrites
      BY <2>1 DEF TypesInv, RestInv
    <2>3. row \in [Kinds -> [Users -> 0..MaxWrites]]
      BY <2>1, <2>2 DEF TypesInv, BoundsInv
    <2>4. shown \in [Sockets -> [Kinds -> [Users -> 0..MaxWrites]]]
      BY <2>1, <2>2 DEF TypesInv, BoundsInv
    <2>5. since \in [Sockets -> 0..MaxWrites]
      BY <2>1, <2>2 DEF TypesInv, RestInv
    <2>6. wire \in [Nodes -> Seq(Note)]
      <3>1. ASSUME NEW n \in Nodes PROVE wire[n] \in Seq(Note)
        <4>1. wire[n] \in Seq(AnyNote)
          BY <2>1 DEF TypesInv
        <4>2. \A i \in 1..Len(wire[n]) : wire[n][i] \in AnyNote /\ wire[n][i].write \in 1..writes
          BY <2>1, <4>1 DEF BoundsInv
        <4>3. \A x \in AnyNote : x.write \in 1..writes => x \in Note
          BY <2>1, <2>2 DEF AnyNote, Note
        <4>4. QED
          BY <4>1, <4>2, <4>3
      <3>2. QED
        BY <2>1, <3>1 DEF TypesInv
    <2>7. handler \in [Callers -> [pc : {"idle", "join", "present", "leave", "check", "type", "stop"},
                                   sock : Sockets \cup {None}]]
      BY <2>1 DEF TypesInv, Steps
    <2>8. QED
      BY <2>2, <2>3, <2>4, <2>5, <2>6, <2>7 DEF RestInv, IndicatorsTypeOK
  <1>2. QED
    BY <1>1, InitFlow, NextFlow, InitRest, RestStep, PTL DEF Spec

=============================================================================
