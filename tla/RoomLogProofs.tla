---------------------------- MODULE RoomLogProofs ----------------------------
(***************************************************************************)
(* Proofs about what is read of a room in RoomMessages: catching up and    *)
(* paging miss nothing, and the rooms implement MessageLog.  They rest on  *)
(* the invariant of RoomMessagesProofs, that the table of a room is its    *)
(* channel: the i-th message sent on it has seq i.                         *)
(***************************************************************************)
EXTENDS RoomMessagesProofs, FiniteSetTheorems, FunctionTheorems

(* Intervals of seq *)

\* How many rows of an interval come before a row of it, and after it.
LEMMA Ranks ==
    ASSUME NEW a \in Nat, NEW b \in Nat, NEW x \in a..b
    PROVE  /\ Cardinality({y \in a..b : y < x}) = x - a
           /\ Cardinality({y \in a..b : y > x}) = b - x
  <1>1. /\ {y \in a..b : y < x} = a..(x - 1)
        /\ {y \in a..b : y > x} = (x + 1)..b
    <2>1. \A y : y \in {z \in a..b : z < x} <=> y \in a..(x - 1)
      OBVIOUS
    <2>2. \A y : y \in {z \in a..b : z > x} <=> y \in (x + 1)..b
      OBVIOUS
    <2> QED
      BY <2>1, <2>2
  <1>2. PICK l, h : l = x - 1 /\ h = x + 1
    OBVIOUS
  <1>3. l \in Int /\ h \in Int /\ a \in Int /\ b \in Int
    BY <1>2
  <1>4. /\ Cardinality(a..l) = IF a > l THEN 0 ELSE l - a + 1
        /\ Cardinality(h..b) = IF h > b THEN 0 ELSE b - h + 1
    BY <1>3, FS_Interval
  <1>5. Cardinality(a..l) = x - a /\ Cardinality(h..b) = b - x
    BY <1>2, <1>4
  <1> QED
    BY <1>1, <1>2, <1>5

\* The first page of an interval in ascending order is an interval: the end of
\* it, or PageSize rows.
LEMMA FirstOfInterval ==
    ASSUME NEW a \in Nat, NEW b \in Nat
    PROVE  FirstOf(a..b) = a..(IF a + PageSize - 1 <= b THEN a + PageSize - 1 ELSE b)
  <1>1. FirstOf(a..b) = {x \in a..b : x - a < PageSize}
    BY Ranks DEF FirstOf
  <1>2. PageSize \in Nat /\ PageSize > 0
    BY MessageAssumption
  <1>3. CASE a + PageSize - 1 <= b
    <2>1. \A x : x \in {y \in a..b : y - a < PageSize} <=> x \in a..(a + PageSize - 1)
      BY <1>2, <1>3
    <2> QED
      BY <1>1, <1>2, <1>3, <2>1
  <1>4. CASE ~(a + PageSize - 1 <= b)
    <2>1. \A x : x \in {y \in a..b : y - a < PageSize} <=> x \in a..b
      BY <1>2, <1>4
    <2> QED
      BY <1>1, <1>2, <1>4, <2>1
  <1> QED
    BY <1>3, <1>4

\* In descending order too.
LEMMA LastOfInterval ==
    ASSUME NEW a \in Nat, NEW b \in Nat
    PROVE  LastOf(a..b) = (IF a <= b - PageSize + 1 THEN b - PageSize + 1 ELSE a)..b
  <1>1. LastOf(a..b) = {x \in a..b : b - x < PageSize}
    BY Ranks DEF LastOf
  <1>2. PageSize \in Nat /\ PageSize > 0
    BY MessageAssumption
  <1>3. CASE a <= b - PageSize + 1
    <2>1. \A x : x \in {y \in a..b : b - y < PageSize} <=> x \in (b - PageSize + 1)..b
      BY <1>2, <1>3
    <2> QED
      BY <1>1, <1>2, <1>3, <2>1
  <1>4. CASE ~(a <= b - PageSize + 1)
    <2>1. \A x : x \in {y \in a..b : b - y < PageSize} <=> x \in a..b
      BY <1>2, <1>4
    <2> QED
      BY <1>1, <1>2, <1>4, <2>1
  <1> QED
    BY <1>3, <1>4

\* next_cursor after the last page of 1, ... b: the first row of a full page,
\* and null after a page that is not full, which has come to the first row.
LEMMA OlderOfLast ==
    ASSUME NEW b \in Nat
    PROVE  \E k \in Nat : /\ Older(LastOf(1..b)) = k
                          /\ k <= b
                          /\ LastOf(1..b) = (IF k = 0 THEN 1 ELSE k)..b
  <1>1. PageSize \in Nat /\ PageSize > 0
    BY MessageAssumption
  <1>2. CASE PageSize <= b
    <2>1. PICK k \in Nat : k = b - PageSize + 1
      BY <1>1, <1>2
    <2>2. k > 0 /\ k <= b
      BY <1>1, <1>2, <2>1
    <2>3. LastOf(1..b) = k..b
      BY <1>1, <1>2, <2>1, LastOfInterval
    <2>4. Cardinality(k..b) = PageSize
      BY <1>1, <2>1, <2>2, FS_Interval
    <2>5. (CHOOSE q \in k..b : \A p \in k..b : q <= p) = k
      BY <2>2
    <2> QED
      BY <2>2, <2>3, <2>4, <2>5 DEF Older
  <1>3. CASE b < PageSize
    <2>1. LastOf(1..b) = 1..b
      BY <1>1, <1>3, LastOfInterval
    <2>2. Cardinality(1..b) = b
      BY FS_Interval
    <2> QED
      BY <1>1, <1>3, <2>1, <2>2 DEF Older
  <1> QED
    BY <1>1, <1>2, <1>3

-----------------------------------------------------------------------------
(* Rows in the order of seq *)

\* c is a log: the message at i has seq i.
Numbered(c) == c \in Seq(Message) /\ \A i \in 1..Len(c) : c[i].seq = i

\* The messages at a, ... b of a log, as a set and in their order.
RowsAt(c, a, b) == {c[i] : i \in a..b}
PartAt(c, a, b) == [i \in 1..(b - a + 1) |-> c[a + i - 1]]

\* They are b - a + 1.
LEMMA RowsOfLog ==
    ASSUME NEW c, Numbered(c), NEW a \in Nat, NEW b \in Nat, 1 <= a, b <= Len(c), a <= b + 1
    PROVE  Cardinality(RowsAt(c, a, b)) = b - a + 1
  <1> DEFINE n == b - a + 1
             S == RowsAt(c, a, b)
             f == [i \in 1..n |-> c[a + i - 1]]
  <1>1. n \in Nat
    OBVIOUS
  <1>2. Len(c) \in Nat
    BY LenProperties DEF Numbered
  <1>3. \A i \in 1..n : a + i - 1 \in a..b /\ a + i - 1 \in 1..Len(c)
    BY <1>2
  <1>4. f \in [1..n -> S]
    BY <1>3 DEF RowsAt
  <1>5. \A i, j \in 1..n : f[i] = f[j] => i = j
    <2>1. \A i \in 1..n : f[i].seq = a + i - 1
      BY <1>3 DEF Numbered
    <2> QED
      BY <2>1
  <1>6. \A t \in S : \E i \in 1..n : f[i] = t
    <2>1. SUFFICES ASSUME NEW j \in a..b
                   PROVE  \E i \in 1..n : f[i] = c[j]
      BY DEF RowsAt
    <2>2. j - a + 1 \in 1..n /\ a + (j - a + 1) - 1 = j
      OBVIOUS
    <2>3. f[j - a + 1] = c[j]
      BY <2>2
    <2> QED
      BY <2>2, <2>3
  <1>7. f \in Bijection(1..n, S)
    BY <1>4, <1>5, <1>6, Fun_IsBij
  <1>8. ExistsBijection(1..n, S)
    BY <1>7, Fun_ExistsBij
  <1> HIDE DEF n, S, f
  <1>9. Cardinality(S) = n
    BY <1>1, <1>8, FS_CountingElements
  <1> QED
    BY <1>9 DEF n, S

\* Read in the order of seq they are that part of the log.
LEMMA InOrderOfLog ==
    ASSUME NEW c, Numbered(c), NEW a \in Nat, NEW b \in Nat, 1 <= a, b <= Len(c), a <= b + 1
    PROVE  InOrder(RowsAt(c, a, b)) = PartAt(c, a, b)
  <1> DEFINE M == RowsAt(c, a, b)
             before(m) == Cardinality({x \in M : x.seq < m.seq})
  <1>1. /\ Len(c) \in Nat
        /\ \A i \in 1..Len(c) : c[i].seq = i
    BY LenProperties DEF Numbered
  <1>2. \A j \in a..b : c[j].seq = j
    BY <1>1
  <1>3. ASSUME NEW j \in a..b
        PROVE  before(c[j]) = j - a
    <2>1. {x \in M : x.seq < c[j].seq} = RowsAt(c, a, j - 1)
      <3>1. \A x \in M : x.seq < c[j].seq => x \in RowsAt(c, a, j - 1)
        <4>1. SUFFICES ASSUME NEW i \in a..b, c[i].seq < c[j].seq
                       PROVE  c[i] \in RowsAt(c, a, j - 1)
          BY DEF RowsAt
        <4>2. i \in a..(j - 1)
          BY <1>2, <4>1
        <4> QED
          BY <4>2 DEF RowsAt
      <3>2. \A x \in RowsAt(c, a, j - 1) : x \in M /\ x.seq < c[j].seq
        <4>1. SUFFICES ASSUME NEW i \in a..(j - 1)
                       PROVE  c[i] \in M /\ c[i].seq < c[j].seq
          BY DEF RowsAt
        <4>2. i \in a..b /\ i < j
          OBVIOUS
        <4>3. c[i].seq = i /\ c[j].seq = j
          BY <1>2, <4>2
        <4> QED
          BY <4>2, <4>3 DEF RowsAt
      <3> QED
        BY <3>1, <3>2
    <2>2. PICK k \in Nat : k = j - 1
      OBVIOUS
    <2>3. k <= Len(c) /\ a <= k + 1
      BY <1>1, <2>2
    <2>4. Cardinality(RowsAt(c, a, k)) = k - a + 1
      BY <2>3, RowsOfLog
    <2>5. k - a + 1 = j - a
      BY <2>2
    <2> QED
      BY <2>1, <2>2, <2>4, <2>5
  <1>4. Cardinality(M) = b - a + 1
    BY RowsOfLog
  <1>5. ASSUME NEW i \in 1..(b - a + 1)
        PROVE  (CHOOSE m \in M : before(m) = i - 1) = c[a + i - 1]
    <2>1. PICK j \in a..b : j = a + i - 1
      OBVIOUS
    <2>2. c[j] \in M /\ before(c[j]) = i - 1
      BY <1>3, <2>1 DEF RowsAt
    <2>3. \A m \in M : before(m) = i - 1 => m = c[j]
      <3>1. SUFFICES ASSUME NEW k \in a..b, before(c[k]) = i - 1
                     PROVE  c[k] = c[j]
        BY DEF RowsAt
      <3>2. k - a = i - 1
        BY <1>3, <3>1
      <3> QED
        BY <2>1, <3>2
    <2> HIDE DEF before, M
    <2> QED
      BY <2>1, <2>2, <2>3
  <1> QED
    BY <1>4, <1>5 DEF InOrder, PartAt

-----------------------------------------------------------------------------
(* The table of a room is its channel *)

LEMMA RoomIsLog ==
    ASSUME StoreInv, NEW r \in Rooms
    PROVE  /\ Numbered(channel[r])
           /\ Len(channel[r]) \in Nat
           /\ DOMAIN channel[r] = 1..Len(channel[r])
           /\ messages[r] = {channel[r][i] : i \in 1..Len(channel[r])}
           /\ Seqs(r) = 1..Len(channel[r])
           /\ Len(channel[r]) <= nextSeq[r]
  <1>1. /\ channel[r] \in Seq(Message)
        /\ Len(channel[r]) \in Nat
        /\ DOMAIN channel[r] = 1..Len(channel[r])
        /\ nextSeq[r] \in Nat
    BY DEF StoreInv, StoreTypeOK
  <1>2. /\ messages[r] = {channel[r][i] : i \in 1..Len(channel[r])}
        /\ \A i \in 1..Len(channel[r]) : channel[r][i].seq = i
    BY <1>1 DEF StoreInv, NotifiedInOrder
  <1>3. Seqs(r) = 1..Len(channel[r])
    BY <1>2 DEF Seqs
  <1>4. Len(channel[r]) <= nextSeq[r]
    <2>1. CASE Len(channel[r]) = 0
      BY <1>1, <2>1
    <2>2. CASE Len(channel[r]) # 0
      <3>1. Len(channel[r]) \in Seqs(r)
        BY <1>1, <1>3, <2>2
      <3>2. Len(channel[r]) \in {q \in 1..nextSeq[r] : q < nextSeq[r]}
        BY <3>1 DEF StoreInv, GaplessSeq
      <3> QED
        BY <1>1, <3>2
    <2> QED
      BY <2>1, <2>2
  <1> QED
    BY <1>1, <1>2, <1>3, <1>4 DEF Numbered

\* Read in the order of seq, the rows of a log are the log.
LEMMA TableInOrder ==
    ASSUME NEW c, Numbered(c), NEW M, M = {c[i] : i \in 1..Len(c)}
    PROVE  InOrder(M) = c
  <1>1. /\ Len(c) \in Nat
        /\ c = [i \in 1..Len(c) |-> c[i]]
    BY LenProperties DEF Numbered
  <1>2. PICK n, a \in Nat : n = Len(c) /\ a = 1
    BY <1>1
  <1>3. InOrder(RowsAt(c, a, n)) = PartAt(c, a, n)
    <2>1. 1 <= a /\ n <= Len(c) /\ a <= n + 1
      BY <1>2
    <2> QED
      BY <2>1, InOrderOfLog
  <1>4. PartAt(c, a, n) = [i \in 1..n |-> c[i]]
    BY <1>2 DEF PartAt
  <1>5. M = RowsAt(c, a, n)
    BY <1>2 DEF RowsAt
  <1> QED
    BY <1>1, <1>2, <1>3, <1>4, <1>5

\* What a read of the catch-up finds from the cursor k.
PageAfter(r, k) == FirstOf({q \in Seqs(r) : q > k})
RowsAfter(r, k) == InOrder({m \in messages[r] : m.seq \in PageAfter(r, k)})

\* One read of the catch-up gives the messages that follow the cursor, and a
\* cursor at the last of them.
LEMMA CatchUpRows ==
    ASSUME StoreInv, NEW r \in Rooms, NEW k \in Nat, k <= Len(channel[r]),
           PageAfter(r, k) # {}
    PROVE  \E h \in Nat :
              /\ k < h /\ h <= Len(channel[r])
              /\ Last(RowsAfter(r, k)).seq = h
              /\ SubSeq(channel[r], 1, k) \o RowsAfter(r, k) = SubSeq(channel[r], 1, h)
  <1> DEFINE page == PageAfter(r, k)
             rows == RowsAfter(r, k)
  <1>0. PICK c : c = channel[r]
    OBVIOUS
  <1>1. PICK n \in Nat : c = channel[r] /\ n = Len(c)
    BY <1>0, RoomIsLog
  <1>2. /\ Numbered(c)
        /\ c \in Seq(Message)
        /\ \A i \in 1..n : c[i].seq = i /\ c[i] \in Message
        /\ messages[r] = {c[i] : i \in 1..n}
        /\ Seqs(r) = 1..n
        /\ k \in Nat
        /\ k <= n
    BY <1>1, RoomIsLog DEF Numbered
  <1>3. PICK a \in Nat : a = k + 1
    BY <1>2
  <1>4. {q \in Seqs(r) : q > k} = a..n
    BY <1>2, <1>3
  <1>5. PICK h \in Nat : page = a..h /\ h <= n /\ a <= h
    <2>1. PageSize \in Nat /\ PageSize > 0
      BY MessageAssumption
    <2>2. PICK b : b = IF a + PageSize - 1 <= n THEN a + PageSize - 1 ELSE n
      OBVIOUS
    <2>3. b \in Nat /\ b <= n
      BY <2>1, <2>2
    <2>4. page = a..b
      BY <1>4, <2>2, FirstOfInterval DEF PageAfter
    <2>5. a <= b
      <3>1. PICK x : x \in page
        OBVIOUS
      <3> QED
        BY <2>3, <2>4, <3>1
    <2> QED
      BY <2>3, <2>4, <2>5
  <1> HIDE DEF page
  <1>6. {m \in messages[r] : m.seq \in page} = RowsAt(c, a, h)
    <2>1. ASSUME NEW m \in messages[r], m.seq \in page
          PROVE  m \in RowsAt(c, a, h)
      <3>1. PICK i \in 1..n : m = c[i]
        BY <1>2
      <3>2. i \in a..h
        BY <1>2, <1>5, <2>1, <3>1
      <3> QED
        BY <3>1, <3>2 DEF RowsAt
    <2>2. ASSUME NEW i \in a..h
          PROVE  c[i] \in messages[r] /\ c[i].seq \in page
      <3>1. i \in 1..n
        BY <1>3, <1>5
      <3> QED
        BY <1>2, <1>5, <3>1
    <2> QED
      BY <2>1, <2>2 DEF RowsAt
  <1>7. rows = [i \in 1..(h - k) |-> c[k + i]]
    <2>1. 1 <= a /\ h <= Len(c) /\ a <= h + 1
      BY <1>1, <1>2, <1>3, <1>5
    <2>2. InOrder(RowsAt(c, a, h)) = PartAt(c, a, h)
      BY <1>2, <2>1, InOrderOfLog
    <2>3. PartAt(c, a, h) = [i \in 1..(h - k) |-> c[k + i]]
      <3>1. h - a + 1 = h - k
        BY <1>2, <1>3
      <3>2. \A i \in 1..(h - k) : a + i - 1 = k + i
        BY <1>2, <1>3
      <3> QED
        BY <3>1, <3>2 DEF PartAt
    <2>4. rows = InOrder({m \in messages[r] : m.seq \in page})
      BY DEF RowsAfter, page
    <2> QED
      BY <1>6, <2>2, <2>3, <2>4
  <1> HIDE DEF rows
  <1>8. /\ rows \in Seq(Message)
        /\ Len(rows) = h - k
        /\ \A i \in 1..(h - k) : rows[i] = c[k + i]
    <2>1. PICK w \in Nat : w = h - k
      BY <1>2, <1>3, <1>5
    <2>2. \A i \in 1..w : k + i \in 1..n
      BY <1>2, <1>5, <2>1
    <2>3. rows \in [1..w -> Message]
      BY <1>2, <1>7, <2>1, <2>2
    <2>4. rows \in Seq(Message) /\ Len(rows) = w
      BY <2>3
    <2> QED
      BY <1>7, <2>1, <2>4
  <1>9. Last(rows).seq = h
    <2>1. h - k \in 1..(h - k) /\ k + (h - k) = h /\ h \in 1..n
      BY <1>2, <1>3, <1>5
    <2> QED
      BY <1>2, <1>8, <2>1 DEF Last
  <1>10. SubSeq(c, 1, k) \o rows = SubSeq(c, 1, h)
    <2>1. /\ SubSeq(c, 1, k) \in Seq(Message)
          /\ Len(SubSeq(c, 1, k)) = k
          /\ \A i \in 1..k : SubSeq(c, 1, k)[i] = c[i]
      BY <1>1, <1>2
    <2>2. /\ SubSeq(c, 1, h) \in Seq(Message)
          /\ Len(SubSeq(c, 1, h)) = h
          /\ \A i \in 1..h : SubSeq(c, 1, h)[i] = c[i]
      BY <1>1, <1>2, <1>5
    <2>3. PICK s, v : s = SubSeq(c, 1, k) /\ v = rows
      OBVIOUS
    <2>4. /\ s \o v \in Seq(Message)
          /\ Len(s \o v) = Len(s) + Len(v)
          /\ \A i \in 1..(Len(s) + Len(v)) :
                (s \o v)[i] = IF i <= Len(s) THEN s[i] ELSE v[i - Len(s)]
      <3>1. s \in Seq(Message) /\ v \in Seq(Message)
        BY <1>8, <2>1, <2>3
      <3> QED
        BY <3>1, ConcatProperties
    <2>5. Len(s) = k /\ k + (h - k) = h
      BY <1>2, <2>1, <2>3
    <2>6. ASSUME NEW i \in 1..h
          PROVE  (s \o v)[i] = c[i]
      <3>1. CASE i <= k
        BY <1>2, <1>8, <2>1, <2>3, <2>4, <2>5, <3>1
      <3>2. CASE ~(i <= k)
        <4>1. i - k \in 1..(h - k) /\ k + (i - k) = i
          BY <1>2, <3>2
        <4>2. v[i - k] = c[i]
          BY <1>8, <2>3, <4>1
        <4> QED
          BY <1>2, <1>8, <2>3, <2>4, <2>5, <3>2, <4>2
      <3> QED
        BY <3>1, <3>2
    <2>7. Len(s \o v) = h
      BY <1>8, <2>3, <2>4, <2>5
    <2>8. PICK t, u : t = SubSeq(c, 1, h) /\ u = s \o v
      OBVIOUS
    <2>9. t \in Seq(Message) /\ u \in Seq(Message) /\ Len(u) = Len(t)
      BY <2>2, <2>4, <2>7, <2>8
    <2>10. \A i \in 1..Len(u) : u[i] = t[i]
      BY <2>2, <2>6, <2>7, <2>8
    <2>11. u = t
      BY <2>9, <2>10, SeqEqual
    <2> QED
      BY <2>3, <2>8, <2>11
  <1>11. k < h /\ h <= n
    BY <1>3, <1>5
  <1> QED
    BY <1>1, <1>9, <1>10, <1>11 DEF rows

-----------------------------------------------------------------------------
(* The invariant *)

\* What a reader that catches up was sent is the log up to its cursor.
GotIsLog ==
    \A u \in Readers, r \in Rooms :
        /\ cursor[u][r] <= Len(channel[r])
        /\ got[u][r] = SubSeq(channel[r], 1, cursor[u][r])

\* What a reader that pages back has seen is the log from next_cursor on, or
\* from its start, up to what was its end at the first page.
PagesOfLog ==
    \A u \in Pagers :
        LET p == pages[u] IN
        /\ p.room = None => p.next = 0
        /\ p.room # None =>
              \E top \in 0..Len(channel[p.room]) :
                  p.next <= top /\ p.seqs = (IF p.next = 0 THEN 1 ELSE p.next)..top

ReadTypeOK ==
    /\ cursor \in [Readers -> [Rooms -> Nat]]
    /\ form \in [Readers -> [Rooms -> Forms]]
    /\ got \in [Readers -> [Rooms -> Seq(Message)]]
    /\ pages \in [Pagers -> [room : Rooms \cup {None}, seqs : SUBSET Nat, next : Nat]]

ReadInv ==
    /\ StoreInv
    /\ ReadTypeOK
    /\ GotIsLog
    /\ PagesOfLog

\* Appending to a log leaves its beginnings as they are.
LEMMA AppendKeeps ==
    ASSUME NEW c \in Seq(Message), NEW m \in Message, NEW k \in Nat, k <= Len(c)
    PROVE  k <= Len(Append(c, m)) /\ SubSeq(Append(c, m), 1, k) = SubSeq(c, 1, k)
  <1>1. PICK d : d = Append(c, m)
    OBVIOUS
  <1>2. /\ d \in Seq(Message)
        /\ Len(d) = Len(c) + 1
        /\ \A i \in 1..Len(c) : d[i] = c[i]
    BY <1>1
  <1>3. PICK s, t : s = SubSeq(c, 1, k) /\ t = SubSeq(d, 1, k)
    OBVIOUS
  <1>4. s \in Seq(Message) /\ Len(s) = k /\ \A i \in 1..k : s[i] = c[i]
    BY <1>3
  <1>5. t \in Seq(Message) /\ Len(t) = k /\ \A i \in 1..k : t[i] = d[i]
    BY <1>2, <1>3
  <1>6. s = t
    BY <1>2, <1>4, <1>5, SeqEqual
  <1> QED
    BY <1>1, <1>2, <1>3, <1>6

\* Every step appends to one room's log, or lets a reader read, or does neither.
LEMMA StepOfRooms ==
    ASSUME StoreInv, [Next]_vars
    PROVE  \/ UNCHANGED <<channel, readVars>>
           \/ /\ UNCHANGED readVars
              /\ \E r \in Rooms, m \in Message :
                    channel' = [channel EXCEPT ![r] = Append(channel[r], m)]
           \/ /\ UNCHANGED channel
              /\ \/ \E u \in Readers, r \in Rooms, kept \in Forms : CatchUp(u, r, kept)
                 \/ \E u \in Pagers, r \in Rooms : FirstPage(u, r)
                 \/ \E u \in Pagers : NextPage(u)
  <1>1. ASSUME NEW s \in Senders, sender[s].pc = "locked", Committed(s)
        PROVE  \E r \in Rooms, m \in Message :
                    channel' = [channel EXCEPT ![r] = Append(channel[r], m)]
    <2>1. PICK r, k, m : /\ r = sender[s].room
                         /\ k = sender[s].seq
                         /\ m = [seq |-> k, user |-> sender[s].user, size |-> sender[s].size]
      OBVIOUS
    <2>2. /\ r \in Rooms
          /\ k \in 1..MaxMessages
          /\ sender[s].user \in Users
          /\ sender[s].size \in Sizes
      <3>1. /\ r \in Rooms
            /\ k \in Nat
            /\ k = nextSeq[r]
            /\ k > 0
            /\ k <= MaxMessages
        BY <1>1, <2>1 DEF StoreInv, StoreTypeOK, SenderBusy, InsertFindsRow, RowHeldByOne, Sender
      <3> QED
        BY <1>1, <3>1, MessageAssumption DEF StoreInv, StoreTypeOK, SenderBusy, Sender
    <2>3. m \in Message
      BY <2>1, <2>2 DEF Message
    <2>4. channel' = [channel EXCEPT ![r] = Append(channel[r], m)]
      BY <1>1, <2>1 DEF Committed
    <2> QED
      BY <2>2, <2>3, <2>4
  <1>2. ASSUME NEW s \in Senders, SenderStep(s) \/ QueryFails(s)
        PROVE  /\ UNCHANGED readVars
               /\ UNCHANGED channel \/ (sender[s].pc = "locked" /\ Committed(s))
    BY <1>2 DEF SenderStep, CheckMember, AssignSeq, Commit, PayloadTooLong, QueryFails,
                RolledBack, storeVars
  <1>3. ASSUME NEW u, NEW r, (\E kept : CatchUp(u, r, kept)) \/ FirstPage(u, r) \/ NextPage(u)
        PROVE  UNCHANGED channel
    BY <1>3, ReadSteps DEF storeVars
  <1>4. ASSUME \/ \E r \in Rooms : CreateRoom(r)
               \/ \E u \in Users, r \in Rooms : JoinRoom(u, r) \/ LeaveRoom(u, r)
               \/ \E s \in Senders, via \in {"ws", "http"}, u \in Users, r \in Rooms,
                     size \in Sizes : Request(s, via, u, r, size)
               \/ UNCHANGED vars
        PROVE  UNCHANGED <<channel, readVars>>
    BY <1>4 DEF CreateRoom, JoinRoom, LeaveRoom, Request, vars, storeVars
  <1> QED
    BY <1>1, <1>2, <1>3, <1>4 DEF Next

LEMMA PostKeepsReads ==
    ASSUME ReadInv, NEW r \in Rooms, NEW m \in Message,
           channel' = [channel EXCEPT ![r] = Append(channel[r], m)], UNCHANGED readVars
    PROVE  ReadTypeOK' /\ GotIsLog' /\ PagesOfLog'
  <1>1. /\ channel \in [Rooms -> Seq(Message)]
        /\ cursor \in [Readers -> [Rooms -> Nat]]
        /\ pages \in [Pagers -> [room : Rooms \cup {None}, seqs : SUBSET Nat, next : Nat]]
        /\ UNCHANGED <<cursor, form, got, pages>>
    BY DEF ReadInv, StoreInv, StoreTypeOK, ReadTypeOK, readVars
  <1>2. ASSUME NEW x \in Rooms, NEW k \in Nat, k <= Len(channel[x])
        PROVE  k <= Len(channel'[x]) /\ SubSeq(channel'[x], 1, k) = SubSeq(channel[x], 1, k)
    <2>1. CASE x = r
      BY <1>1, <1>2, <2>1, AppendKeeps
    <2>2. CASE x # r
      BY <1>1, <1>2, <2>2
    <2> QED
      BY <2>1, <2>2
  <1>3. ReadTypeOK'
    BY <1>1 DEF ReadInv, ReadTypeOK
  <1>4. GotIsLog'
    BY <1>1, <1>2 DEF ReadInv, GotIsLog
  <1>5. \A x \in Rooms : Len(channel[x]) <= Len(channel'[x]) /\ Len(channel[x]) \in Nat
                                                         /\ Len(channel'[x]) \in Nat
    <2>1. channel' \in [Rooms -> Seq(Message)]
      BY <1>1
    <2>2. \A x \in Rooms : Len(channel[x]) \in Nat /\ Len(channel'[x]) \in Nat
      BY <1>1, <2>1
    <2> QED
      BY <1>2, <2>2
  <1>6. PagesOfLog'
    <2>1. SUFFICES ASSUME NEW u \in Pagers
                   PROVE  LET p == pages[u] IN
                          /\ p.room = None => p.next = 0
                          /\ p.room # None =>
                                \E top \in 0..Len(channel'[p.room]) :
                                    /\ p.next <= top
                                    /\ p.seqs = (IF p.next = 0 THEN 1 ELSE p.next)..top
      BY <1>1 DEF PagesOfLog
    <2>2. PICK p : p = pages[u]
      OBVIOUS
    <2>3. p.room = None => p.next = 0
      BY <2>2 DEF ReadInv, PagesOfLog
    <2>4. ASSUME p.room # None
          PROVE  \E top \in 0..Len(channel'[p.room]) :
                    p.next <= top /\ p.seqs = (IF p.next = 0 THEN 1 ELSE p.next)..top
      <3>1. PICK top \in 0..Len(channel[p.room]) :
                p.next <= top /\ p.seqs = (IF p.next = 0 THEN 1 ELSE p.next)..top
        BY <2>2, <2>4 DEF ReadInv, PagesOfLog
      <3>2. p.room \in Rooms
        BY <1>1, <2>2, <2>4
      <3>3. top \in 0..Len(channel'[p.room])
        BY <1>5, <3>2
      <3> QED
        BY <3>1, <3>3
    <2> QED
      BY <2>2, <2>3, <2>4
  <1> QED
    BY <1>3, <1>4, <1>6

\* A read of the catch-up leaves its reader with a longer beginning of the log.
LEMMA CatchUpReads ==
    ASSUME ReadInv, NEW u \in Readers, NEW r \in Rooms, NEW kept \in Forms,
           CatchUp(u, r, kept)
    PROVE  \E h \in 0..Len(channel[r]) :
              /\ h >= Len(got[u][r])
              /\ cursor' = [cursor EXCEPT ![u][r] = h]
              /\ got' = [got EXCEPT ![u][r] = SubSeq(channel[r], 1, h)]
  <1>1. PICK k \in Nat : k = cursor[u][r]
    BY DEF ReadInv, ReadTypeOK
  <1>2. /\ PageAfter(r, k) # {}
        /\ got' = [got EXCEPT ![u][r] = got[u][r] \o RowsAfter(r, k)]
        /\ cursor' = [cursor EXCEPT ![u][r] = Last(RowsAfter(r, k)).seq]
    BY <1>1 DEF CatchUp, PageAfter, RowsAfter
  <1>3. /\ StoreInv
        /\ Len(channel[r]) \in Nat
        /\ k <= Len(channel[r])
        /\ got[u][r] = SubSeq(channel[r], 1, k)
    BY <1>1, RoomIsLog DEF ReadInv, GotIsLog
  <1>4. PICK h \in Nat :
            /\ k < h /\ h <= Len(channel[r])
            /\ Last(RowsAfter(r, k)).seq = h
            /\ SubSeq(channel[r], 1, k) \o RowsAfter(r, k) = SubSeq(channel[r], 1, h)
    BY <1>2, <1>3, CatchUpRows
  <1>5. Len(got[u][r]) = k
    <2>1. channel[r] \in Seq(Message)
      BY <1>3, RoomIsLog DEF Numbered
    <2> QED
      BY <1>3, <2>1
  <1>6. h \in 0..Len(channel[r]) /\ h >= Len(got[u][r])
    BY <1>1, <1>3, <1>4, <1>5
  <1> QED
    BY <1>2, <1>3, <1>4, <1>6

LEMMA CatchUpKeepsReads ==
    ASSUME ReadInv, NEW u \in Readers, NEW r \in Rooms, NEW kept \in Forms,
           CatchUp(u, r, kept)
    PROVE  ReadTypeOK' /\ GotIsLog' /\ PagesOfLog'
  <1>1. /\ cursor \in [Readers -> [Rooms -> Nat]]
        /\ got \in [Readers -> [Rooms -> Seq(Message)]]
        /\ channel[r] \in Seq(Message)
        /\ Len(channel[r]) \in Nat
        /\ UNCHANGED <<channel, pages>>
    <2>1. channel[r] \in Seq(Message) /\ Len(channel[r]) \in Nat
      BY RoomIsLog DEF ReadInv, Numbered
    <2> QED
      BY <2>1 DEF ReadInv, ReadTypeOK, CatchUp, storeVars
  <1>2. PICK h \in 0..Len(channel[r]) :
            /\ cursor' = [cursor EXCEPT ![u][r] = h]
            /\ got' = [got EXCEPT ![u][r] = SubSeq(channel[r], 1, h)]
    BY CatchUpReads
  <1>3. PICK s : s = SubSeq(channel[r], 1, h)
    OBVIOUS
  <1>4. h \in Nat /\ s \in Seq(Message)
    BY <1>1, <1>2, <1>3
  <1>5. /\ cursor' \in [Readers -> [Rooms -> Nat]]
        /\ cursor'[u][r] = h
        /\ \A v \in Readers, x \in Rooms : v # u \/ x # r => cursor'[v][x] = cursor[v][x]
    BY <1>1, <1>2, <1>4
  <1>6. /\ got' \in [Readers -> [Rooms -> Seq(Message)]]
        /\ got'[u][r] = s
        /\ \A v \in Readers, x \in Rooms : v # u \/ x # r => got'[v][x] = got[v][x]
    BY <1>1, <1>2, <1>3, <1>4
  <1>7. ReadTypeOK' /\ PagesOfLog'
    <2>1. form \in [Readers -> [Rooms -> Forms]] /\ form' = [form EXCEPT ![u][r] = kept]
      BY DEF ReadInv, ReadTypeOK, CatchUp
    <2>2. form' \in [Readers -> [Rooms -> Forms]]
      BY <2>1
    <2> QED
      BY <1>1, <1>5, <1>6, <2>2 DEF ReadInv, ReadTypeOK, PagesOfLog
  <1>8. GotIsLog'
    BY <1>1, <1>2, <1>3, <1>5, <1>6 DEF ReadInv, GotIsLog
  <1> QED
    BY <1>7, <1>8

Pages == [room : Rooms \cup {None}, seqs : SUBSET Nat, next : Nat]

\* A reader whose pages now reach from the row k, or the first, to top.
LEMMA PageSeen ==
    ASSUME ReadInv, NEW u \in Pagers, NEW r \in Rooms, NEW k \in Nat, NEW top \in Nat,
           k <= top, top <= Len(channel[r]),
           NEW p \in Pages, p.room = r, p.next = k, p.seqs = (IF k = 0 THEN 1 ELSE k)..top,
           pages' = [pages EXCEPT ![u] = p], UNCHANGED <<channel, cursor, form, got>>
    PROVE  ReadTypeOK' /\ GotIsLog' /\ PagesOfLog'
  <1>1. pages \in [Pagers -> Pages]
    BY DEF ReadInv, ReadTypeOK, Pages
  <1>2. ReadTypeOK'
    BY <1>1 DEF ReadInv, ReadTypeOK, Pages
  <1>3. GotIsLog'
    BY DEF ReadInv, GotIsLog
  <1>4. PagesOfLog'
    <2>1. pages'[u] = p /\ \A v \in Pagers : v # u => pages'[v] = pages[v]
      BY <1>1
    <2>2. /\ p.room # None
          /\ p.next <= top
          /\ top \in 0..Len(channel[p.room])
          /\ p.seqs = (IF p.next = 0 THEN 1 ELSE p.next)..top
      <3>1. Len(channel[r]) \in Nat
        BY RoomIsLog DEF ReadInv
      <3> QED
        BY <3>1, MessageAssumption
    <2> QED
      BY <2>1, <2>2 DEF ReadInv, PagesOfLog
  <1> QED
    BY <1>2, <1>3, <1>4

LEMMA FirstPageKeepsReads ==
    ASSUME ReadInv, NEW u \in Pagers, NEW r \in Rooms, FirstPage(u, r)
    PROVE  ReadTypeOK' /\ GotIsLog' /\ PagesOfLog'
  <1>1. Seqs(r) = 1..Len(channel[r]) /\ Len(channel[r]) \in Nat
    BY RoomIsLog DEF ReadInv
  <1>2. PICK k \in Nat : /\ Older(LastOf(Seqs(r))) = k
                         /\ k <= Len(channel[r])
                         /\ LastOf(Seqs(r)) = (IF k = 0 THEN 1 ELSE k)..Len(channel[r])
    BY <1>1, OlderOfLast
  <1>3. PICK seen : seen = LastOf(Seqs(r))
    OBVIOUS
  <1>4. PICK p : p = [room |-> r, seqs |-> seen, next |-> k]
    OBVIOUS
  <1>5. pages' = [pages EXCEPT ![u] = p] /\ UNCHANGED <<channel, cursor, form, got>>
    BY <1>2, <1>3, <1>4 DEF FirstPage, storeVars
  <1>6. seen = (IF k = 0 THEN 1 ELSE k)..Len(channel[r]) /\ seen \subseteq Nat
    BY <1>1, <1>2, <1>3
  <1>7. p \in Pages /\ p.room = r /\ p.next = k /\ p.seqs = seen
    BY <1>4, <1>6 DEF Pages
  <1>8. Len(channel[r]) <= Len(channel[r])
    BY <1>1
  <1> QED
    BY <1>1, <1>2, <1>5, <1>6, <1>7, <1>8, PageSeen

\* A page that goes back from next_cursor gives the rows before it.
LEMMA NextPageKeepsReads ==
    ASSUME ReadInv, NEW u \in Pagers, NextPage(u)
    PROVE  ReadTypeOK' /\ GotIsLog' /\ PagesOfLog'
  <1>1. PICK p : p = pages[u]
    OBVIOUS
  <1>2. p \in Pages /\ p.next > 0 /\ p.next \in Nat
    BY <1>1 DEF ReadInv, ReadTypeOK, Pages, NextPage
  <1>3. PICK r \in Rooms : r = p.room /\ r # None
    BY <1>1, <1>2, MessageAssumption DEF ReadInv, PagesOfLog, Pages
  <1>4. Seqs(r) = 1..Len(channel[r]) /\ Len(channel[r]) \in Nat
    BY RoomIsLog DEF ReadInv
  <1>5. PICK top \in 0..Len(channel[r]) : p.next <= top /\ p.seqs = p.next..top
    BY <1>1, <1>2, <1>3 DEF ReadInv, PagesOfLog
  <1>6. top \in Nat /\ top <= Len(channel[r])
    BY <1>4, <1>5
  <1>7. PICK b \in Nat : b = p.next - 1
    BY <1>2
  <1>8. {q \in Seqs(r) : q < p.next} = 1..b
    BY <1>2, <1>4, <1>5, <1>7
  <1>9. PICK k \in Nat : /\ Older(LastOf(1..b)) = k
                         /\ k <= b
                         /\ LastOf(1..b) = (IF k = 0 THEN 1 ELSE k)..b
    BY OlderOfLast
  <1>10. PICK seen : seen = p.seqs \cup LastOf(1..b)
    OBVIOUS
  <1>11. seen = (IF k = 0 THEN 1 ELSE k)..top /\ seen \subseteq Nat
    BY <1>2, <1>5, <1>6, <1>7, <1>9, <1>10
  <1>12. PICK x : x = [p EXCEPT !.seqs = seen, !.next = k]
    OBVIOUS
  <1>13. x \in Pages /\ x.room = r /\ x.next = k /\ x.seqs = seen
    BY <1>2, <1>3, <1>11, <1>12 DEF Pages
  <1>14. pages' = [pages EXCEPT ![u].seqs = seen, ![u].next = k]
    BY <1>1, <1>3, <1>8, <1>9, <1>10 DEF NextPage
  <1>15. pages' = [pages EXCEPT ![u] = x] /\ UNCHANGED <<channel, cursor, form, got>>
    <2>1. pages \in [Pagers -> Pages]
      BY DEF ReadInv, ReadTypeOK, Pages
    <2>2. pages' = [pages EXCEPT ![u] = x]
      BY <1>1, <1>12, <1>14, <2>1
    <2> QED
      BY <2>2 DEF NextPage, storeVars
  <1>16. k <= top
    BY <1>2, <1>5, <1>6, <1>7, <1>9
  <1> QED
    BY <1>6, <1>11, <1>13, <1>15, <1>16, PageSeen

LEMMA InitReads ==
    ASSUME Init
    PROVE  ReadInv
  <1>1. StoreInv
    BY InitStore
  <1>2. ReadTypeOK
    <2>1. NoPages \in Pages
      BY DEF NoPages, Pages
    <2>2. <<>> \in Seq(Message) /\ 0 \in Nat
      OBVIOUS
    <2> QED
      BY <2>1, <2>2 DEF Init, ReadTypeOK, Pages, Forms
  <1>3. GotIsLog
    <2>1. SubSeq(<<>>, 1, 0) = <<>> /\ Len(<<>>) = 0
      BY SubSeqEmpty
    <2> QED
      BY <2>1 DEF Init, GotIsLog
  <1>4. PagesOfLog
    BY DEF Init, PagesOfLog, NoPages
  <1> QED
    BY <1>1, <1>2, <1>3, <1>4 DEF ReadInv

LEMMA StepReads ==
    ASSUME ReadInv, [Next]_vars
    PROVE  ReadInv'
  <1>1. StoreInv'
    BY StepStore DEF ReadInv
  <1>2. ASSUME UNCHANGED <<channel, readVars>>
        PROVE  ReadTypeOK' /\ GotIsLog' /\ PagesOfLog'
    BY <1>2 DEF ReadInv, ReadTypeOK, GotIsLog, PagesOfLog, readVars
  <1> QED
    BY <1>1, <1>2, StepOfRooms, PostKeepsReads, CatchUpKeepsReads, FirstPageKeepsReads,
       NextPageKeepsReads DEF ReadInv

\* What readers were given stays a part of the log without a gap, whatever the
\* posts, failures and reads of any number of handlers.
THEOREM ReadInvariant == Spec => []ReadInv
  BY InitReads, StepReads, PTL DEF Spec

\* Every table, handler, channel, cursor and page keeps its form.
THEOREM TypeCorrect == Spec => []TypeOK
  <1>1. ReadInv => TypeOK
    BY DEF ReadInv, StoreInv, ReadTypeOK, TypeOK
  <1> QED
    BY <1>1, ReadInvariant, PTL

\* A client that catches up from its last_seen_seq misses no message up to its
\* cursor and gets none twice, for any page size and any number of clients.
THEOREM CatchUpComplete == Spec => []CatchUpSkipsNothing
  <1>1. ReadInv => CatchUpSkipsNothing
    <2>1. SUFFICES ASSUME ReadInv, NEW u \in Readers, NEW r \in Rooms
                   PROVE  /\ Len(got[u][r]) = cursor[u][r]
                          /\ \A i \in DOMAIN got[u][r] : got[u][r][i].seq = i
      BY DEF CatchUpSkipsNothing
    <2>2. PICK c, k : c = channel[r] /\ k = cursor[u][r]
      OBVIOUS
    <2>3. /\ k \in Nat
          /\ k <= Len(c)
          /\ got[u][r] = SubSeq(c, 1, k)
          /\ c \in Seq(Message)
          /\ \A i \in 1..Len(c) : c[i].seq = i
      BY <2>1, <2>2, RoomIsLog DEF ReadInv, ReadTypeOK, GotIsLog, Numbered
    <2>4. PICK s : s = SubSeq(c, 1, k)
      OBVIOUS
    <2>5. /\ Len(s) = k
          /\ DOMAIN s = 1..k
          /\ \A i \in 1..k : s[i] = c[i]
      BY <2>3, <2>4
    <2> QED
      BY <2>2, <2>3, <2>4, <2>5
  <1> QED
    BY <1>1, ReadInvariant, PTL

\* A client that pages back from the newest message misses none in between, and
\* has come to the first when next_cursor is null, for any page size.
THEOREM PagingComplete == Spec => []PagesAreContiguous
  <1>1. ReadInv => PagesAreContiguous
    <2>1. SUFFICES ASSUME ReadInv, NEW u \in Pagers, pages[u].room # None
                   PROVE  \E top \in 0..nextSeq[pages[u].room] :
                             pages[u].seqs = (IF pages[u].next = 0 THEN 1 ELSE pages[u].next)..top
      BY DEF PagesAreContiguous
    <2>2. PICK p : p = pages[u]
      OBVIOUS
    <2>3. PICK r \in Rooms : r = p.room
      BY <2>1, <2>2 DEF ReadInv, ReadTypeOK
    <2>4. PICK top \in 0..Len(channel[r]) : p.seqs = (IF p.next = 0 THEN 1 ELSE p.next)..top
      BY <2>1, <2>2, <2>3 DEF ReadInv, PagesOfLog
    <2>5. top \in 0..nextSeq[r]
      <3>1. Len(channel[r]) \in Nat /\ Len(channel[r]) <= nextSeq[r] /\ nextSeq[r] \in Nat
        BY <2>1, RoomIsLog DEF ReadInv, StoreInv, StoreTypeOK
      <3> QED
        BY <3>1
    <2> QED
      BY <2>2, <2>3, <2>4, <2>5
  <1> QED
    BY <1>1, ReadInvariant, PTL

-----------------------------------------------------------------------------
(* The rooms implement MessageLog *)

\* The table of a room, read in the order of seq, is what its channel carried.
TableMatches == [r \in Rooms |-> InOrder(messages[r])] = channel

LEMMA TableIsChannel == StoreInv => TableMatches
  <1>1. SUFFICES ASSUME StoreInv
                 PROVE  [r \in Rooms |-> InOrder(messages[r])] = channel
    BY DEF TableMatches
  <1>2. \A r \in Rooms : InOrder(messages[r]) = channel[r]
    BY <1>1, RoomIsLog, TableInOrder
  <1>3. channel \in [Rooms -> Seq(Message)]
    BY <1>1 DEF StoreInv, StoreTypeOK
  <1> QED
    BY <1>2, <1>3

LEMMA InitLog ==
    ASSUME Init
    PROVE  Log!Init
  <1>1. [r \in Rooms |-> InOrder(messages[r])] = channel
    BY InitStore, TableIsChannel DEF TableMatches
  <1>2. channel = [r \in Rooms |-> <<>>] /\ got = [u \in Readers |-> [r \in Rooms |-> <<>>]]
    BY DEF Init
  <1> QED
    BY <1>1, <1>2 DEF Log!Init

\* A commit is a Post, a read of the catch-up a Fetch, and every other step a
\* stutter of the log.
LEMMA LogStep ==
    ASSUME ReadInv, TableMatches', [Next]_vars
    PROVE  [Log!Next]_(Log!vars)
  <1>1. /\ [r \in Rooms |-> InOrder(messages[r])] = channel
        /\ [r \in Rooms |-> InOrder(messages[r])]' = channel'
    BY TableIsChannel DEF ReadInv, TableMatches
  <1>2. ASSUME UNCHANGED <<channel, got>>
        PROVE  UNCHANGED Log!vars
    BY <1>1, <1>2 DEF Log!vars
  <1>3. ASSUME UNCHANGED got, NEW r \in Rooms, NEW m \in Message,
               channel' = [channel EXCEPT ![r] = Append(channel[r], m)]
        PROVE  Log!Next
    <2>1. Log!Post(r, m)
      BY <1>1, <1>3 DEF Log!Post
    <2> QED
      BY <2>1 DEF Log!Next
  <1>4. ASSUME UNCHANGED channel, NEW u \in Readers, NEW r \in Rooms, NEW kept \in Forms,
               CatchUp(u, r, kept)
        PROVE  Log!Next
    <2>1. PICK h \in 0..Len(channel[r]) :
              /\ h >= Len(got[u][r])
              /\ got' = [got EXCEPT ![u][r] = SubSeq(channel[r], 1, h)]
      BY <1>4, CatchUpReads
    <2>2. Log!Fetch(u, r, h)
      BY <1>1, <1>4, <2>1 DEF Log!Fetch
    <2> QED
      BY <1>1, <2>1, <2>2 DEF Log!Next
  <1>5. ASSUME NEW u, NEW r, FirstPage(u, r) \/ NextPage(u)
        PROVE  UNCHANGED got
    BY <1>5 DEF FirstPage, NextPage
  <1>6. StoreInv
    BY DEF ReadInv
  <1> QED
    BY <1>2, <1>3, <1>4, <1>5, <1>6, StepOfRooms DEF readVars

\* The rooms are logs: a message is appended and announced in one step, and
\* what a reader was sent is at all times a beginning of the log.
THEOREM RoomsImplementLog == Spec => LogSpec
  <1>1. Init => Log!Init
    BY InitLog
  <1>2. ReadInv /\ TableMatches' /\ [Next]_vars => [Log!Next]_(Log!vars)
    BY LogStep
  <1>3. ReadInv => TableMatches
    BY TableIsChannel DEF ReadInv
  <1> QED
    BY <1>1, <1>2, <1>3, ReadInvariant, PTL DEF Spec, LogSpec, Log!Spec

=============================================================================
