------------------------------ MODULE Migrate ------------------------------
(***************************************************************************)
(* scripts/migrate.js: several runs of it on one database, as when app-1   *)
(* starts while someone runs the script by hand (docker-compose.yml:33,    *)
(* README.md:60).  An action is the script from one query to the next.     *)
(* Versions are numbered in the order of their sorted file names.          *)
(***************************************************************************)
EXTENDS Integers, Sequences

CONSTANTS
    Runners,   \* processes that run the script
    NVersions  \* files in db/migrations

ASSUME MigrateAssumption == NVersions \in Nat

VARIABLES
    tracked,   \* the table schema_migrations exists
    recorded,  \* its rows
    applied,   \* history: the versions whose SQL was committed, in that order
    runner,
    faulty     \* history: a query failed for other reasons, or a process died

vars == <<tracked, recorded, applied, runner, faulty>>

Versions == 1..NVersions
Ended == {"off", "ok", "failed"}
InTransaction == {"begun", "ran", "stored"}
Runner == [pc : Ended \cup InTransaction \cup {"create", "select", "next"},
           seen : SUBSET Versions, at : 1..NVersions + 1]

MigrateTypeOK ==
    /\ tracked \in BOOLEAN /\ faulty \in BOOLEAN
    /\ recorded \subseteq Versions
    /\ recorded # {} => tracked
    /\ applied \in Seq(Versions)
    /\ runner \in [Runners -> Runner]
    /\ \A p \in Runners : runner[p].pc \in InTransaction => runner[p].at \in Versions

\* A process at place c of the script: `applied` is s, and the loop is at file a.
At(c, s, a) == [pc |-> c, seen |-> s, at |-> a]

\* An earlier deployment may have left the first versions applied.
Init ==
    /\ \E n \in 0..NVersions :
          /\ applied = [i \in 1..n |-> i]
          /\ recorded = 1..n
          /\ tracked \in IF n = 0 THEN BOOLEAN ELSE {TRUE}
    /\ runner = [p \in Runners |-> At("off", {}, 1)]
    /\ faulty = FALSE

-----------------------------------------------------------------------------
Goto(p, from, to) ==
    /\ runner[p].pc = from
    /\ runner' = [runner EXCEPT ![p] = At(to, runner[p].seen, runner[p].at)]

\* The script connects and finds that the table exists, or that it does not.
Start(p) ==
    /\ runner[p].pc \in Ended
    /\ runner' = [runner EXCEPT ![p] = At(IF tracked THEN "select" ELSE "create", {}, 1)]
    /\ UNCHANGED <<tracked, recorded, applied, faulty>>

CreateTable(p) ==
    /\ Goto(p, "create", "select")
    /\ tracked' = TRUE
    /\ UNCHANGED <<recorded, applied, faulty>>

Select(p) ==
    /\ runner[p].pc = "select"
    /\ runner' = [runner EXCEPT ![p] = At("next", recorded, 1)]
    /\ UNCHANGED <<tracked, recorded, applied, faulty>>

\* The files the loop has not come to and that were not applied when it looked.
Pending(r) == {v \in Versions : v >= r.at /\ v \notin r.seen}

BeginAt(p, v) ==
    /\ runner[p].pc = "next"
    /\ runner' = [runner EXCEPT ![p] = At("begun", runner[p].seen, v)]
    /\ UNCHANGED <<tracked, recorded, applied, faulty>>

Unsorted(p) == \E v \in Pending(runner[p]) : BeginAt(p, v)  \* mutant of Begin
SkipsOne(p) ==  \* mutant of Begin
    \E v \in Pending(runner[p]) : (\A w \in Pending(runner[p]) : v <= w) /\ BeginAt(p, v + 1)

Begin(p) ==
    \E v \in Pending(runner[p]) : (\A w \in Pending(runner[p]) : v <= w) /\ BeginAt(p, v)

\* The SQL of a version.  Each replaces notify_new_message, so it waits for the
\* end of another transaction that has done so.
Script(p) ==
    /\ \A q \in Runners : runner[q].pc \notin {"ran", "stored"}
    /\ Goto(p, "begun", "ran")
    /\ UNCHANGED <<tracked, recorded, applied, faulty>>

Insert(p) ==
    /\ runner[p].at \notin recorded
    /\ Goto(p, "ran", "stored")
    /\ UNCHANGED <<tracked, recorded, applied, faulty>>

Recording(p) ==
    /\ recorded' = recorded \cup {runner[p].at}
    /\ applied' = Append(applied, runner[p].at)

BreaksAlways(p) ==  \* mutant of Commit
    /\ Goto(p, "stored", "failed")
    /\ Recording(p)
    /\ UNCHANGED <<tracked, faulty>>

Commit(p) ==
    /\ runner[p].pc = "stored"
    /\ Recording(p)
    /\ runner' = [runner EXCEPT ![p] = At("next", runner[p].seen, runner[p].at + 1)]
    /\ UNCHANGED <<tracked, faulty>>

Done(p) ==
    /\ Pending(runner[p]) = {}
    /\ Goto(p, "next", "ok")
    /\ UNCHANGED <<tracked, recorded, applied, faulty>>

Refusal(p) ==
    \/ runner[p].pc = "create" /\ tracked
    \/ runner[p].pc \in {"begun", "ran"} /\ runner[p].at \in recorded

NoExitCode(p) ==  \* mutant of Refused
    /\ Refusal(p)
    /\ Goto(p, runner[p].pc, "ok")
    /\ UNCHANGED <<tracked, recorded, applied, faulty>>

AwaitsWinner(p) ==  \* mutant of Refused
    /\ Refusal(p)
    /\ runner[p].pc # "ran"
    /\ Goto(p, runner[p].pc, "failed")
    /\ UNCHANGED <<tracked, recorded, applied, faulty>>

\* Another runner was faster: the table or what the SQL creates exists, the function
\* was replaced meanwhile, or the row has the key of another.  ROLLBACK, exit code 1.
Refused(p) ==
    /\ Refusal(p)
    /\ Goto(p, runner[p].pc, "failed")
    /\ UNCHANGED <<tracked, recorded, applied, faulty>>

\* Anything else that ends a run: its transaction is rolled back, unless a COMMIT
\* under way takes effect.
Fault(p) ==
    /\ runner[p].pc \notin Ended
    /\ Goto(p, runner[p].pc, "failed")
    /\ \/ UNCHANGED <<recorded, applied>>
       \/ runner[p].pc = "stored" /\ Recording(p)
    /\ faulty' = TRUE
    /\ UNCHANGED tracked

Proceed(p) ==
    \/ CreateTable(p) \/ Select(p) \/ Begin(p) \/ Script(p) \/ Insert(p) \/ Commit(p)
    \/ Done(p) \/ Refused(p)

Next == \E p \in Runners : Start(p) \/ Proceed(p) \/ Fault(p)

Spec == Init /\ [][Next]_vars

\* A query is answered, and a lock is granted in the order of waiting.
FairSpec == Spec /\ \A p \in Runners : SF_vars(Proceed(p))

-----------------------------------------------------------------------------
(* Properties *)

\* Whoever runs the script and wherever a run ends, every version is applied once,
\* after those before it, and recorded if and only if it is applied.
AppliedInOrder ==
    /\ applied = [i \in 1..Len(applied) |-> i]
    /\ recorded = 1..Len(applied)

\* A run that ends with exit code 0, after which app-1 starts its server, has found
\* or made every version, though its list of what was applied may be long out of date.
OkIsMigrated == (\E p \in Runners : runner[p].pc = "ok") => recorded = Versions

\* Runs that get in each other's way do not all give up: when all have ended, and
\* nothing else went wrong, every version is applied.
SomeRunFinishes ==
    /\ ~faulty
    /\ \A p \in Runners : runner[p].pc \in Ended
    /\ \E p \in Runners : runner[p].pc # "off"
    => recorded = Versions

\* A run ends: it does not wait for ever for the transaction of another.
RunsEnd == \A p \in Runners : runner[p].pc \notin Ended ~> runner[p].pc \in Ended

=============================================================================
