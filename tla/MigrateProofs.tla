--------------------------- MODULE MigrateProofs ---------------------------
(***************************************************************************)
(* Proofs about Migrate, for any number of runners and versions.           *)
(*                                                                         *)
(* RunnerFacts ties what a run believes to the table; with at most one     *)
(* transaction past its SQL (OneHolder) it gives AppliedInOrder.  That     *)
(* some run finishes rests on Frontier: there is always a run that none of *)
(* the others has overtaken, and a run that gives up was overtaken.        *)
(***************************************************************************)
EXTENDS Migrate, TLAPS

RunnerFacts(r, rec, tr) ==
    /\ r \in Runner
    /\ r.seen \subseteq rec
    /\ r.pc \in InTransaction => r.at \in Versions /\ r.at \notin r.seen
    /\ r.pc \in InTransaction \cup {"next"} => \A v \in Versions : v < r.at => v \in rec
    /\ r.pc \in InTransaction \cup {"next", "select"} => tr
    /\ r.pc = "stored" => r.at \notin rec
    /\ r.pc = "ok" => rec = Versions

RunnerInv == \A p \in Runners : RunnerFacts(runner[p], recorded, tracked)

Holding(r) == r.pc \in {"ran", "stored"}
OneHolder == \A p, q \in Runners : Holding(runner[p]) /\ Holding(runner[q]) => p = q

TableInv ==
    /\ tracked \in BOOLEAN /\ faulty \in BOOLEAN
    /\ recorded \subseteq Versions
    /\ recorded # {} => tracked
    /\ applied \in Seq(Versions)
    /\ AppliedInOrder

\* No other run has recorded a version that this one is still to apply.
Ahead(r, rec, tr) ==
    \/ r.pc = "create" /\ ~tr
    \/ r.pc = "select"
    \/ r.pc \in InTransaction \cup {"next"} /\ \A v \in rec : v >= r.at => v \in r.seen

Frontier ==
    ~faulty /\ (\E p \in Runners : runner[p].pc # "off")
        => \/ recorded = Versions
           \/ \E p \in Runners : Ahead(runner[p], recorded, tracked)

Inv == TableInv /\ (runner \in [Runners -> Runner]) /\ RunnerInv /\ OneHolder /\ Frontier

-----------------------------------------------------------------------------
(* Lemmas *)

\* The fields of a record that At makes.
LEMMA AtFields ==
    ASSUME NEW c, NEW s, NEW a
    PROVE  At(c, s, a).pc = c /\ At(c, s, a).seen = s /\ At(c, s, a).at = a
  BY DEF At

\* At makes a runner.
LEMMA AtRunner ==
    ASSUME NEW c \in Ended \cup InTransaction \cup {"create", "select", "next"},
           NEW s \in SUBSET Versions, NEW a \in 1..NVersions + 1
    PROVE  At(c, s, a) \in Runner
  BY DEF At, Runner

\* One runner moves to r; the others keep their facts, as the tables only grow and
\* nobody records what another has stored.
LEMMA RunnerStep ==
    ASSUME Inv, NEW p \in Runners, NEW r, runner' = [runner EXCEPT ![p] = r],
           RunnerFacts(r, recorded', tracked'),
           recorded \subseteq recorded', recorded' \subseteq Versions, tracked => tracked',
           \A q \in Runners \ {p} : runner[q].pc = "stored" => runner[q].at \notin recorded',
           \A q \in Runners \ {p} : ~(Holding(runner[q]) /\ Holding(r))
    PROVE  (runner' \in [Runners -> Runner]) /\ RunnerInv' /\ OneHolder'
  <1>1. runner \in [Runners -> Runner] /\ r \in Runner
    BY DEF Inv, RunnerFacts
  <1>2. runner' \in [Runners -> Runner] /\ runner'[p] = r
        /\ \A q \in Runners \ {p} : runner'[q] = runner[q]
    BY <1>1
  <1>3. ASSUME NEW q \in Runners \ {p} PROVE RunnerFacts(runner[q], recorded', tracked')
    <2>1. RunnerFacts(runner[q], recorded, tracked)
      BY DEF Inv, RunnerInv
    <2>2. QED
      BY <2>1 DEF RunnerFacts
  <1>4. OneHolder'
    BY <1>2 DEF Inv, OneHolder
  <1>5. QED
    BY <1>2, <1>3, <1>4 DEF RunnerInv

\* A run that was ahead and did not move still is, if nothing is recorded.
LEMMA StillAhead ==
    ASSUME Inv, NEW p \in Runners, NEW r, runner' = [runner EXCEPT ![p] = r],
           UNCHANGED <<recorded, tracked>>, faulty' = faulty, runner[p].pc # "off",
           Ahead(runner[p], recorded, tracked)
               => recorded = Versions \/ Ahead(r, recorded, tracked)
    PROVE  Frontier'
  <1>1. runner \in [Runners -> Runner]
    BY DEF Inv
  <1>2. runner'[p] = r /\ \A q \in Runners \ {p} : runner'[q] = runner[q]
    BY <1>1
  <1>3. QED
    BY <1>2 DEF Inv, Frontier

\* A run that is ahead after the step.
LEMMA NowAhead ==
    ASSUME Inv, NEW p \in Runners, NEW r, runner' = [runner EXCEPT ![p] = r],
           Ahead(r, recorded', tracked')
    PROVE  Frontier'
  <1>1. runner'[p] = r
    BY DEF Inv
  <1>2. QED
    BY <1>1 DEF Frontier

\* What a transaction records that holds the function and found the version missing.
LEMMA Recorded ==
    ASSUME Inv, NEW p \in Runners, runner[p].pc = "stored", Recording(p)
    PROVE  /\ runner[p].at = Len(applied) + 1
           /\ recorded' = 1..runner[p].at
           /\ recorded \subseteq recorded'
           /\ recorded' \subseteq Versions
           /\ applied' \in Seq(Versions)
           /\ AppliedInOrder'
           /\ tracked
           /\ \A q \in Runners \ {p} : ~Holding(runner[q])
  <1> DEFINE v == runner[p].at
             n == Len(applied)
  <1>1. /\ v \in Versions /\ v \notin recorded /\ tracked
        /\ \A w \in Versions : w < v => w \in recorded
    BY DEF Inv, RunnerInv, RunnerFacts, InTransaction
  <1>2. applied \in Seq(Versions) /\ n \in Nat /\ applied = [i \in 1..n |-> i] /\ recorded = 1..n
        /\ recorded \subseteq Versions
    BY DEF Inv, TableInv, AppliedInOrder
  <1>3. v = n + 1
    <2>1. v \in Nat /\ NVersions \in Nat /\ v >= 1 /\ v <= NVersions
      BY <1>1, MigrateAssumption DEF Versions
    <2>2. ~(v <= n)
      BY <1>1, <1>2, <2>1
    <2>3. ~(n + 1 < v)
      <3>1. SUFFICES ASSUME n + 1 < v PROVE FALSE
        OBVIOUS
      <3>2. n + 1 \in Versions
        BY <3>1, <2>1, <1>2 DEF Versions
      <3>3. n + 1 \in recorded
        BY <3>1, <3>2, <1>1
      <3>4. QED
        BY <3>3, <1>2
    <2>4. QED
      BY <2>1, <2>2, <2>3, <1>2
  <1>4. recorded' = 1..v
    BY <1>2, <1>3 DEF Recording
  <1>5. applied' \in Seq(Versions) /\ applied' = [i \in 1..n + 1 |-> i] /\ Len(applied') = n + 1
    <2>1. applied' = Append(applied, v) /\ v \in Versions
      BY <1>1 DEF Recording
    <2>2. applied' \in Seq(Versions) /\ Len(applied') = n + 1
          /\ (\A i \in 1..n : applied'[i] = applied[i]) /\ applied'[n + 1] = v
      BY <2>1, <1>2
    <2>3. \A i \in 1..n + 1 : applied'[i] = i
      BY <2>2, <1>2, <1>3
    <2>4. applied' = [i \in 1..Len(applied') |-> applied'[i]]
      BY <2>2
    <2>5. QED
      BY <2>2, <2>3, <2>4
  <1>6. AppliedInOrder'
    BY <1>3, <1>4, <1>5 DEF AppliedInOrder
  <1>7. recorded \subseteq recorded' /\ recorded' \subseteq Versions
    BY <1>1, <1>2 DEF Recording
  <1>8. \A q \in Runners \ {p} : ~Holding(runner[q])
    BY DEF Inv, OneHolder, Holding
  <1>9. QED
    BY <1>1, <1>3, <1>4, <1>5, <1>6, <1>7, <1>8

-----------------------------------------------------------------------------
(* The invariant *)

\* The invariant holds of what an earlier deployment left.
LEMMA InitInv == Init => Inv
  <1> SUFFICES ASSUME Init PROVE Inv
    OBVIOUS
  <1>1. PICK n \in 0..NVersions : /\ applied = [i \in 1..n |-> i]
                                  /\ recorded = 1..n
                                  /\ tracked \in IF n = 0 THEN BOOLEAN ELSE {TRUE}
    BY DEF Init
  <1>2. n \in Nat /\ n <= NVersions /\ NVersions \in Nat
    BY MigrateAssumption
  <1>3. applied \in Seq(Versions) /\ Len(applied) = n
    BY <1>1, <1>2 DEF Versions
  <1>4. TableInv
    <2>1. recorded \subseteq Versions /\ AppliedInOrder
      BY <1>1, <1>2, <1>3 DEF Versions, AppliedInOrder
    <2>2. tracked \in BOOLEAN /\ (recorded # {} => tracked) /\ faulty \in BOOLEAN
      <3>1. CASE n = 0
        <4>1. recorded = {}
          BY <1>1, <3>1
        <4>2. QED
          BY <1>1, <3>1, <4>1, Zenon DEF Init
      <3>2. CASE n # 0
        BY <1>1, <3>2, Zenon DEF Init
      <3>3. QED
        BY <3>1, <3>2
    <2>3. QED
      BY <1>3, <2>1, <2>2 DEF TableInv
  <1>5. At("off", {}, 1) \in Runner
    BY <1>2, AtRunner DEF Ended
  <1>6. runner \in [Runners -> Runner] /\ \A p \in Runners : runner[p] = At("off", {}, 1)
    BY <1>5 DEF Init
  <1>7. RunnerFacts(At("off", {}, 1), recorded, tracked)
    BY <1>5, AtFields DEF RunnerFacts, InTransaction
  <1>8. OneHolder /\ Frontier
    BY <1>6, AtFields DEF OneHolder, Frontier, Holding
  <1>9. QED
    BY <1>4, <1>6, <1>7, <1>8 DEF Inv, RunnerInv

\* The steps that record nothing.
LEMMA QuietStep ==
    ASSUME Inv, NEW p \in Runners, NEW r, runner' = [runner EXCEPT ![p] = r],
           UNCHANGED <<recorded, applied>>, tracked' \in BOOLEAN, tracked => tracked',
           faulty' \in BOOLEAN, RunnerFacts(r, recorded, tracked'), Frontier',
           \A q \in Runners \ {p} : ~(Holding(runner[q]) /\ Holding(r))
    PROVE  Inv'
  <1>1. TableInv'
    BY DEF Inv, TableInv, AppliedInOrder
  <1>2. \A q \in Runners \ {p} : runner[q].pc = "stored" => runner[q].at \notin recorded'
    BY DEF Inv, RunnerInv, RunnerFacts
  <1>3. recorded' \subseteq Versions
    BY DEF Inv, TableInv
  <1>4. QED
    BY <1>1, <1>2, <1>3, RunnerStep DEF Inv

\* A run starts.
LEMMA StartStep == ASSUME Inv, NEW p \in Runners, Start(p) PROVE Inv'
  <1> DEFINE c == IF tracked THEN "select" ELSE "create"
             r == At(c, {}, 1)
  <1>1. /\ runner' = [runner EXCEPT ![p] = r]
        /\ UNCHANGED <<tracked, recorded, applied, faulty>>
        /\ tracked \in BOOLEAN /\ faulty \in BOOLEAN
    BY DEF Start, Inv, TableInv
  <1>2. c \in {"select", "create"} /\ (c = "select" => tracked) /\ (c = "create" => ~tracked)
    OBVIOUS
  <1> HIDE DEF c
  <1>3. RunnerFacts(r, recorded, tracked)
    <2>1. r \in Runner
      BY <1>2, AtRunner, MigrateAssumption
    <2>2. QED
      BY <1>2, <2>1, AtFields DEF RunnerFacts, InTransaction
  <1>4. Ahead(r, recorded, tracked) /\ ~Holding(r)
    BY <1>2, AtFields DEF Ahead, Holding
  <1> HIDE DEF r
  <1>5. Frontier'
    BY <1>1, <1>4, NowAhead
  <1>6. QED
    BY <1>1, <1>3, <1>4, <1>5, QuietStep

\* A run goes from one place to another, and its list and its position stay.
LEMMA GotoStep ==
    ASSUME Inv, NEW p \in Runners, NEW c, NEW d, Goto(p, c, d), UNCHANGED <<recorded, applied>>,
           tracked' \in BOOLEAN, tracked => tracked', faulty' \in BOOLEAN, Frontier',
           RunnerFacts(At(d, runner[p].seen, runner[p].at), recorded, tracked'),
           d \in {"ran", "stored"}
               => \A q \in Runners \ {p} : ~Holding(runner[q])
    PROVE  Inv'
  <1> DEFINE r == At(d, runner[p].seen, runner[p].at)
  <1>1. runner' = [runner EXCEPT ![p] = r]
    BY DEF Goto
  <1>2. \A q \in Runners \ {p} : ~(Holding(runner[q]) /\ Holding(r))
    BY AtFields DEF Holding
  <1> HIDE DEF r
  <1>3. RunnerFacts(r, recorded, tracked')
    BY DEF r
  <1>4. QED
    BY <1>1, <1>2, <1>3, QuietStep

\* The table of versions is created.
LEMMA CreateStep == ASSUME Inv, NEW p \in Runners, CreateTable(p) PROVE Inv'
  <1> DEFINE r == At("select", runner[p].seen, runner[p].at)
  <1>1. /\ Goto(p, "create", "select") /\ tracked' = TRUE
        /\ UNCHANGED <<recorded, applied, faulty>> /\ faulty \in BOOLEAN
    BY DEF CreateTable, Inv, TableInv
  <1>2. RunnerFacts(runner[p], recorded, tracked)
    BY DEF Inv, RunnerInv
  <1>3. RunnerFacts(r, recorded, tracked')
    <2>1. r \in Runner
      BY <1>2, AtRunner DEF RunnerFacts, Runner
    <2>2. QED
      BY <1>1, <1>2, <2>1, AtFields DEF RunnerFacts, InTransaction
  <1>4. Frontier'
    <2>1. Ahead(r, recorded', tracked') /\ runner' = [runner EXCEPT ![p] = r]
      BY <1>1, AtFields DEF Ahead, Goto
    <2> HIDE DEF r
    <2>2. QED
      BY <2>1, NowAhead
  <1>5. QED
    BY <1>1, <1>3, <1>4, GotoStep

\* A run reads what is applied: nobody is ahead of it at that moment.
LEMMA SelectStep == ASSUME Inv, NEW p \in Runners, Select(p) PROVE Inv'
  <1> DEFINE r == At("next", recorded, 1)
  <1>1. /\ runner' = [runner EXCEPT ![p] = r] /\ runner[p].pc = "select"
        /\ UNCHANGED <<tracked, recorded, applied, faulty>>
        /\ tracked \in BOOLEAN /\ faulty \in BOOLEAN /\ recorded \subseteq Versions
    BY DEF Select, Inv, TableInv
  <1>2. RunnerFacts(r, recorded, tracked)
    <2>1. r \in Runner
      BY <1>1, AtRunner, MigrateAssumption
    <2>2. tracked
      BY <1>1 DEF Inv, RunnerInv, RunnerFacts
    <2>3. QED
      BY <2>1, <2>2, AtFields, MigrateAssumption DEF RunnerFacts, InTransaction, Versions
  <1>3. Ahead(r, recorded, tracked) /\ ~Holding(r)
    BY AtFields DEF Ahead, Holding
  <1> HIDE DEF r
  <1>4. Frontier'
    BY <1>1, <1>3, NowAhead
  <1>5. QED
    BY <1>1, <1>2, <1>3, <1>4, QuietStep

\* The next version is the least one a run has not seen, so those before it are recorded.
LEMMA BeginStep == ASSUME Inv, NEW p \in Runners, Begin(p) PROVE Inv'
  <1>1. PICK v \in Pending(runner[p]) :
            (\A w \in Pending(runner[p]) : v <= w) /\ BeginAt(p, v)
    BY DEF Begin
  <1> DEFINE r == At("begun", runner[p].seen, v)
  <1>2. /\ runner' = [runner EXCEPT ![p] = r] /\ runner[p].pc = "next"
        /\ UNCHANGED <<tracked, recorded, applied, faulty>>
        /\ tracked \in BOOLEAN /\ faulty \in BOOLEAN
    BY <1>1 DEF BeginAt, Inv, TableInv
  <1>3. RunnerFacts(runner[p], recorded, tracked)
    BY DEF Inv, RunnerInv
  <1>4. v \in Versions /\ v >= runner[p].at /\ v \notin runner[p].seen /\ v \in 1..NVersions + 1
    BY <1>1, MigrateAssumption DEF Pending, Versions
  <1>5. \A w \in Versions : w < v => w \in recorded
    <2> SUFFICES ASSUME NEW w \in Versions, w < v PROVE w \in recorded
      OBVIOUS
    <2>1. w \in Int /\ v \in Int /\ runner[p].at \in Int
      BY <1>3, <1>4, MigrateAssumption DEF Versions, RunnerFacts, Runner
    <2>2. w \notin Pending(runner[p])
      BY <1>1, <2>1
    <2>3. w < runner[p].at \/ w \in runner[p].seen
      BY <2>1, <2>2 DEF Pending
    <2>4. QED
      BY <1>2, <1>3, <2>3 DEF RunnerFacts
  <1>6. RunnerFacts(r, recorded, tracked)
    <2>1. r \in Runner
      BY <1>3, <1>4, AtRunner DEF RunnerFacts, Runner, InTransaction
    <2>2. tracked
      BY <1>2, <1>3 DEF RunnerFacts
    <2>3. QED
      BY <1>3, <1>4, <1>5, <2>1, <2>2, AtFields DEF RunnerFacts
  <1>7. ~Holding(r)
    BY AtFields DEF Holding
  <1>8. Ahead(runner[p], recorded, tracked) => Ahead(r, recorded, tracked)
    <2>1. recorded \subseteq Int /\ runner[p].at \in Int /\ v \in Int
      BY <1>3, <1>4, MigrateAssumption DEF Inv, TableInv, Versions, RunnerFacts, Runner
    <2>2. QED
      BY <1>2, <1>4, <2>1, AtFields DEF Ahead, InTransaction
  <1> HIDE DEF r
  <1>9. Frontier'
    BY <1>2, <1>8, StillAhead
  <1>10. QED
    BY <1>2, <1>6, <1>7, <1>9, QuietStep

\* A run that goes on within its transaction, or ends.
LEMMA MoveFacts ==
    ASSUME Inv, NEW p \in Runners, NEW d \in {"ran", "stored", "ok", "failed"},
           d \in {"ran", "stored"} => runner[p].pc \in InTransaction,
           d = "stored" => runner[p].at \notin recorded,
           d = "ok" => recorded = Versions
    PROVE  RunnerFacts(At(d, runner[p].seen, runner[p].at), recorded, tracked)
  <1> DEFINE r == At(d, runner[p].seen, runner[p].at)
  <1>1. RunnerFacts(runner[p], recorded, tracked)
    BY DEF Inv, RunnerInv
  <1>2. r \in Runner
    BY <1>1, AtRunner DEF RunnerFacts, Runner, Ended, InTransaction
  <1>3. r.pc = d /\ r.seen = runner[p].seen /\ r.at = runner[p].at
    BY AtFields
  <1> HIDE DEF r
  <1>4. RunnerFacts(r, recorded, tracked)
    BY <1>1, <1>2, <1>3 DEF RunnerFacts, InTransaction
  <1>5. QED
    BY <1>4 DEF r

\* The SQL of a version: no other transaction has run one.
LEMMA ScriptStep == ASSUME Inv, NEW p \in Runners, Script(p) \/ Insert(p) PROVE Inv'
  <1>1. UNCHANGED <<tracked, recorded, applied, faulty>> /\ tracked \in BOOLEAN /\ faulty \in BOOLEAN
    BY DEF Script, Insert, Inv, TableInv
  <1>2. PICK c \in {"begun", "ran"}, d \in {"ran", "stored"} :
            /\ Goto(p, c, d)
            /\ d = "stored" => runner[p].at \notin recorded
            /\ \A q \in Runners \ {p} : ~Holding(runner[q])
    <2>1. CASE Script(p)
      BY <2>1 DEF Script, Holding
    <2>2. CASE Insert(p)
      BY <2>2 DEF Insert, Holding, Goto, Inv, OneHolder
    <2>3. QED
      BY <2>1, <2>2
  <1> DEFINE r == At(d, runner[p].seen, runner[p].at)
  <1>3. RunnerFacts(r, recorded, tracked)
    BY <1>2, MoveFacts DEF Goto, InTransaction
  <1>4. Frontier'
    <2>1. runner' = [runner EXCEPT ![p] = r] /\ runner[p].pc # "off"
      BY <1>2 DEF Goto
    <2>2. Ahead(runner[p], recorded, tracked) => Ahead(r, recorded, tracked)
      BY <1>2, AtFields DEF Ahead, Goto, InTransaction
    <2> HIDE DEF r
    <2>3. QED
      BY <1>1, <2>1, <2>2, StillAhead
  <1>5. QED
    BY <1>1, <1>2, <1>3, <1>4, GotoStep

\* A commit records the version that comes next; its runner is ahead of all others.
LEMMA CommitStep == ASSUME Inv, NEW p \in Runners, Commit(p) PROVE Inv'
  <1> DEFINE v == runner[p].at
             r == At("next", runner[p].seen, v + 1)
  <1>1. /\ runner' = [runner EXCEPT ![p] = r] /\ runner[p].pc = "stored" /\ Recording(p)
        /\ UNCHANGED <<tracked, faulty>>
    BY DEF Commit
  <1>2. /\ v = Len(applied) + 1
        /\ recorded' = 1..v
        /\ recorded \subseteq recorded' /\ recorded' \subseteq Versions
        /\ applied' \in Seq(Versions) /\ AppliedInOrder' /\ tracked
        /\ \A q \in Runners \ {p} : ~Holding(runner[q])
    BY <1>1, Recorded
  <1>3. /\ RunnerFacts(runner[p], recorded, tracked) /\ v \in Versions
        /\ v + 1 \in 1..NVersions + 1 /\ v \in Int
    BY <1>1, MigrateAssumption DEF Inv, RunnerInv, RunnerFacts, InTransaction, Versions
  <1>4. TableInv'
    BY <1>1, <1>2 DEF Inv, TableInv
  <1>5. RunnerFacts(r, recorded', tracked')
    <2>1. r \in Runner
      BY <1>3, AtRunner DEF RunnerFacts, Runner
    <2>2. r.pc = "next" /\ r.seen = runner[p].seen /\ r.at = v + 1
      BY AtFields
    <2>3. \A w \in Versions : w < v + 1 => w \in recorded'
      BY <1>2, <1>3, MigrateAssumption DEF Versions
    <2> HIDE DEF r
    <2>4. QED
      BY <1>1, <1>2, <1>3, <2>1, <2>2, <2>3 DEF RunnerFacts, InTransaction
  <1>6. Frontier'
    <2>1. Ahead(r, recorded', tracked')
      BY <1>2, <1>3, AtFields DEF Ahead
    <2> HIDE DEF r
    <2>2. QED
      BY <1>1, <2>1, NowAhead
  <1>7. ~Holding(r) /\ \A q \in Runners \ {p} : runner[q].pc # "stored"
    BY <1>2, AtFields DEF Holding
  <1>8. (runner' \in [Runners -> Runner]) /\ RunnerInv' /\ OneHolder'
    <2> HIDE DEF r
    <2>1. QED
      BY <1>1, <1>2, <1>5, <1>7, RunnerStep
  <1>9. QED
    BY <1>4, <1>6, <1>8 DEF Inv

\* A run that has come to the end finds every version recorded.
LEMMA DoneStep == ASSUME Inv, NEW p \in Runners, Done(p) PROVE Inv'
  <1>1. /\ Goto(p, "next", "ok") /\ Pending(runner[p]) = {}
        /\ UNCHANGED <<tracked, recorded, applied, faulty>>
        /\ tracked \in BOOLEAN /\ faulty \in BOOLEAN /\ recorded \subseteq Versions
    BY DEF Done, Inv, TableInv
  <1>2. recorded = Versions
    <2>1. RunnerFacts(runner[p], recorded, tracked) /\ runner[p].at \in Int
      BY MigrateAssumption DEF Inv, RunnerInv, RunnerFacts, Runner
    <2>2. ASSUME NEW v \in Versions PROVE v \in recorded
      <3>1. v < runner[p].at \/ v \in runner[p].seen
        BY <1>1, <2>1, MigrateAssumption DEF Pending, Versions
      <3>2. QED
        BY <1>1, <2>1, <3>1 DEF RunnerFacts, Goto
    <2>3. QED
      BY <1>1, <2>2
  <1>3. RunnerFacts(At("ok", runner[p].seen, runner[p].at), recorded, tracked)
    BY <1>2, MoveFacts
  <1>4. Frontier'
    BY <1>1, <1>2 DEF Frontier, Versions
  <1>5. QED
    BY <1>1, <1>3, <1>4, GotoStep

\* A run that is refused was overtaken, so another one is ahead.
LEMMA RefusedStep == ASSUME Inv, NEW p \in Runners, Refused(p) PROVE Inv'
  <1> DEFINE r == At("failed", runner[p].seen, runner[p].at)
  <1>1. /\ Goto(p, runner[p].pc, "failed") /\ Refusal(p)
        /\ UNCHANGED <<tracked, recorded, applied, faulty>>
        /\ tracked \in BOOLEAN /\ faulty \in BOOLEAN
    BY DEF Refused, Inv, TableInv
  <1>2. RunnerFacts(r, recorded, tracked)
    BY MoveFacts
  <1>3. Frontier'
    <2>1. ~Ahead(runner[p], recorded, tracked) /\ runner[p].pc # "off"
      <3>1. RunnerFacts(runner[p], recorded, tracked) /\ runner[p].at \in Int
        BY MigrateAssumption DEF Inv, RunnerInv, RunnerFacts, Runner
      <3>2. QED
        BY <1>1, <3>1 DEF Refusal, Ahead, RunnerFacts, InTransaction
    <2>2. runner' = [runner EXCEPT ![p] = r]
      BY <1>1 DEF Goto
    <2> HIDE DEF r
    <2>3. QED
      BY <1>1, <2>1, <2>2, StillAhead
  <1>4. QED
    BY <1>1, <1>2, <1>3, GotoStep

\* Any other end of a run, with or without its commit.
LEMMA FaultStep == ASSUME Inv, NEW p \in Runners, Fault(p) PROVE Inv'
  <1> DEFINE r == At("failed", runner[p].seen, runner[p].at)
  <1>1. /\ Goto(p, runner[p].pc, "failed") /\ faulty' = TRUE /\ UNCHANGED tracked
        /\ tracked \in BOOLEAN
    BY DEF Fault, Inv, TableInv
  <1>2. RunnerFacts(r, recorded, tracked)
    BY MoveFacts
  <1>3. Frontier'
    BY <1>1 DEF Frontier
  <1>4. CASE UNCHANGED <<recorded, applied>>
    BY <1>1, <1>2, <1>3, <1>4, GotoStep
  <1>5. CASE runner[p].pc = "stored" /\ Recording(p)
    <2>1. /\ recorded \subseteq recorded' /\ recorded' \subseteq Versions
          /\ applied' \in Seq(Versions) /\ AppliedInOrder' /\ tracked
          /\ \A q \in Runners \ {p} : ~Holding(runner[q])
      BY <1>5, Recorded
    <2>2. TableInv'
      BY <1>1, <2>1 DEF TableInv
    <2>3. RunnerFacts(r, recorded', tracked')
      BY <1>1, <1>2, <2>1, AtFields DEF RunnerFacts, InTransaction
    <2>4. runner' = [runner EXCEPT ![p] = r] /\ ~Holding(r)
      BY <1>1, AtFields DEF Goto, Holding
    <2>5. \A q \in Runners \ {p} : runner[q].pc # "stored"
      BY <2>1 DEF Holding
    <2>6. (runner' \in [Runners -> Runner]) /\ RunnerInv' /\ OneHolder'
      <3> HIDE DEF r
      <3>1. QED
        BY <1>1, <2>1, <2>3, <2>4, <2>5, RunnerStep
    <2>7. QED
      BY <1>3, <2>2, <2>6 DEF Inv
  <1>6. QED
    BY <1>4, <1>5 DEF Fault

\* Every step keeps the invariant.
LEMMA InvStep == Inv /\ [Next]_vars => Inv'
  <1> SUFFICES ASSUME Inv, [Next]_vars PROVE Inv'
    OBVIOUS
  <1>1. CASE UNCHANGED vars
    BY <1>1 DEF vars, Inv, TableInv, AppliedInOrder, RunnerInv, OneHolder, Frontier
  <1>2. CASE Next
    BY <1>2, StartStep, CreateStep, SelectStep, BeginStep, ScriptStep, CommitStep, DoneStep,
       RefusedStep, FaultStep DEF Next, Proceed
  <1>3. QED
    BY <1>1, <1>2

-----------------------------------------------------------------------------
(* The theorems *)

\* Tables and runs have their types; what is recorded is recorded in a table.
THEOREM MigrateTypeCorrect == Spec => []MigrateTypeOK
  <1>1. Inv => MigrateTypeOK
    BY DEF Inv, TableInv, RunnerInv, RunnerFacts, MigrateTypeOK
  <1>2. QED
    BY <1>1, InitInv, InvStep, PTL DEF Spec

\* For any number of concurrent runs, and wherever they end, each version is applied
\* once, in order, and recorded with it.
THEOREM AppliedOnceInOrder == Spec => []AppliedInOrder
  <1>1. Inv => AppliedInOrder
    BY DEF Inv, TableInv
  <1>2. QED
    BY <1>1, InitInv, InvStep, PTL DEF Spec

\* Exit code 0 means that the schema is complete.
THEOREM OkMeansMigrated == Spec => []OkIsMigrated
  <1>1. Inv => OkIsMigrated
    BY DEF Inv, RunnerInv, RunnerFacts, OkIsMigrated
  <1>2. QED
    BY <1>1, InitInv, InvStep, PTL DEF Spec

\* Conflicts between runs alone never leave the schema incomplete.
THEOREM SomeRunDoesFinish == Spec => []SomeRunFinishes
  <1>1. Inv => SomeRunFinishes
    BY DEF Inv, Frontier, Ahead, Ended, InTransaction, SomeRunFinishes
  <1>2. QED
    BY <1>1, InitInv, InvStep, PTL DEF Spec

=============================================================================
