----------------------------- MODULE Publication -----------------------------
(***************************************************************************)
(* The coverage history: compatibility jobs that record a daily snapshot   *)
(* (compatibility.yml, web/scripts/record.ts), and the publication job     *)
(* that merges the snapshots of its workflow run into the coverage-history *)
(* branch and deploys the dashboard (web/scripts/history.ts, daily() of    *)
(* web/src/history.ts).                                                    *)
(*                                                                         *)
(* Two concurrency groups act on the workflow runs: a compatibility job    *)
(* that starts cancels the running one of the same target; publications    *)
(* run one at a time with at most one pending, and a publication that      *)
(* becomes pending replaces the one that was.                              *)
(***************************************************************************)
EXTENDS Naturals, FiniteSets

CONSTANTS
    Runs,        \* workflow runs
    Targets,     \* tracks with their baseline
    MaxTime,     \* bound on the clock
    DayLength,   \* clock ticks of one UTC day
    Failures     \* BOOLEAN: steps of a publication may fail

ASSUME PublicationAssumption ==
    /\ MaxTime \in Nat /\ DayLength \in Nat \ {0}
    /\ Failures \in BOOLEAN

Times == 0..MaxTime

VARIABLES
    now,         \* the clock
    job,         \* [Runs -> [Targets -> state of the compatibility job]]
    artifacts,   \* snapshots uploaded by compatibility jobs
    pub,         \* [Runs -> state of the publication job]
    todo,        \* snapshots the running publication has still to merge
    local,       \* history.json in the running publication's working directory
    branch,      \* history.json on the coverage-history branch
    site,        \* history.json of the deployed dashboard
    published    \* history: snapshots of publications that were pushed

jobs == <<now, job, artifacts>>
vars == <<jobs, pub, todo, local, branch, site, published>>

-----------------------------------------------------------------------------
\* Snapshots and the daily history.

Snapshot == [run : Runs, target : Targets, time : Times, complete : {0, 1}]
Days == {t \div DayLength : t \in Times}
Keys == Targets \X Days
None == [complete |-> 2]

utcDay(time) == time \div DayLength
KeyOf(s) == <<s.target, utcDay(s.time)>>

\* Mutant: the latest finish wins, complete or not.
LatestWins(item, previous) ==
    previous = None \/ item.time >= previous.time

\* daily(): complete runs first, then the latest finish.
Replaces(item, previous) ==
    \/ previous = None
    \/ item.complete > previous.complete
    \/ item.complete = previous.complete /\ item.time >= previous.time

\* daily(history, entry): the entry competes with the one of its key.
daily(history, entry) ==
    IF Replaces(entry, history[KeyOf(entry)])
    THEN [history EXCEPT ![KeyOf(entry)] = entry]
    ELSE history

Empty == [k \in Keys |-> None]

-----------------------------------------------------------------------------
\* Compatibility jobs (external: GitHub Actions schedules them).

Tick ==
    /\ now < MaxTime
    /\ now' = now + 1
    /\ UNCHANGED <<job, artifacts, pub, todo, local, branch, site, published>>

\* A job starts and cancels the running one of the same target, of whichever run.
StartJob(r, t) ==
    /\ job[r][t] = "waiting"
    /\ job' = [q \in Runs |->
                 IF q = r THEN [job[q] EXCEPT ![t] = "running"]
                 ELSE IF job[q][t] = "running" THEN [job[q] EXCEPT ![t] = "cancelled"]
                 ELSE job[q]]
    /\ UNCHANGED <<now, artifacts, pub, todo, local, branch, site, published>>

\* The always-run steps of the job record and upload a snapshot: of a complete
\* run or of an interrupted one.
Record(r, t) ==
    /\ job[r][t] \in {"running", "cancelled"}
    /\ \E complete \in {0, 1} :
          artifacts' = artifacts \union
              {[run |-> r, target |-> t, time |-> now, complete |-> complete]}
    /\ job' = [job EXCEPT ![r][t] = IF @ = "cancelled" THEN "dropped" ELSE "ended"]
    /\ UNCHANGED <<now, pub, todo, local, branch, site, published>>

\* The job ends without a snapshot: it never came to the recording step, or the
\* record was refused (an unknown pin, no report from the coverage engine).
NoRecord(r, t) ==
    /\ job[r][t] \in {"running", "cancelled"}
    /\ job' = [job EXCEPT ![r][t] = IF @ = "cancelled" THEN "dropped" ELSE "ended"]
    /\ UNCHANGED <<now, artifacts, pub, todo, local, branch, site, published>>

-----------------------------------------------------------------------------
\* Publication jobs.

Publishing == {r \in Runs : pub[r] \in {"restore", "update", "save", "deploy"}}
Pending == {r \in Runs : pub[r] = "pending"}
JobsOver(r) == \A t \in Targets : job[r][t] \in {"ended", "dropped"}

\* Mutant: the concurrency group does not hold a publication back.
BeginAtOnce(r) ==
    /\ JobsOver(r) /\ pub[r] \in {"none", "pending"}
    /\ pub' = [pub EXCEPT ![r] = "restore"]
    /\ todo' = {s \in artifacts : s.run = r}
    /\ UNCHANGED <<jobs, local, branch, site, published>>

\* All compatibility jobs of the run are over and no publication runs: this one
\* does, with the snapshots of its run.
Begin(r) ==
    /\ JobsOver(r) /\ Publishing = {}
    /\ \/ pub[r] = "pending"
       \/ pub[r] = "none" /\ Pending = {}
    /\ pub' = [pub EXCEPT ![r] = "restore"]
    /\ todo' = {s \in artifacts : s.run = r}
    /\ UNCHANGED <<jobs, local, branch, site, published>>

\* Otherwise it waits, in the place of the publication that was waiting.
Enqueue(r) ==
    /\ JobsOver(r) /\ pub[r] = "none"
    /\ Publishing \union Pending # {}
    /\ pub' = [q \in Runs |-> IF q = r THEN "pending"
                              ELSE IF q \in Pending THEN "replaced" ELSE pub[q]]
    /\ UNCHANGED <<jobs, todo, local, branch, site, published>>

\* if: always() && !cancelled(): a run with a cancelled job may be skipped.
Skip(r) ==
    /\ JobsOver(r) /\ pub[r] = "none"
    /\ \E t \in Targets : job[r][t] = "dropped"
    /\ pub' = [pub EXCEPT ![r] = "skipped"]
    /\ UNCHANGED <<jobs, todo, local, branch, site, published>>

\* "Restore durable history".
Restore(r) ==
    /\ pub[r] = "restore"
    /\ local' = branch
    /\ pub' = [pub EXCEPT ![r] = "update"]
    /\ UNCHANGED <<jobs, todo, branch, site, published>>

\* One iteration of "history update".
Update(r) ==
    /\ pub[r] = "update"
    /\ \E s \in todo :
          /\ local' = daily(local, s)
          /\ todo' = todo \ {s}
          /\ pub' = [pub EXCEPT ![r] = IF todo = {s} THEN "save" ELSE @]
    /\ UNCHANGED <<jobs, branch, site, published>>

\* No snapshot at all: the loop runs once over the unmatched pattern and fails.
NothingToMerge(r) ==
    /\ pub[r] = "update" /\ todo = {}
    /\ pub' = [pub EXCEPT ![r] = "failed"]
    /\ local' = Empty
    /\ UNCHANGED <<jobs, todo, branch, site, published>>

\* Mutant: a rejected push does not stop the job.
SaveUnpushed(r) ==
    /\ pub[r] = "save"
    /\ pub' = [pub EXCEPT ![r] = "deploy"]
    /\ UNCHANGED <<jobs, todo, local, branch, site, published>>

\* "Save durable history": commit and push, unless nothing changed.
Save(r) ==
    /\ pub[r] = "save"
    /\ branch' = local
    /\ published' = published \union {s \in artifacts : s.run = r}
    /\ pub' = [pub EXCEPT ![r] = "deploy"]
    /\ UNCHANGED <<jobs, todo, local, site>>

\* The site built from the merged history is deployed.
Deploy(r) ==
    /\ pub[r] = "deploy"
    /\ site' = local
    /\ local' = Empty
    /\ pub' = [pub EXCEPT ![r] = "done"]
    /\ UNCHANGED <<jobs, todo, branch, published>>

\* A step fails and ends the job; the working directory is lost.
Fail(r) ==
    /\ Failures
    /\ r \in Publishing
    /\ pub' = [pub EXCEPT ![r] = "failed"]
    /\ todo' = {} /\ local' = Empty
    /\ UNCHANGED <<jobs, branch, site, published>>

-----------------------------------------------------------------------------
Init ==
    /\ now = 0
    /\ job = [r \in Runs |-> [t \in Targets |-> "waiting"]]
    /\ artifacts = {} /\ pub = [r \in Runs |-> "none"]
    /\ todo = {} /\ local = Empty /\ branch = Empty /\ site = Empty /\ published = {}

Publish(r) ==
    \/ Enqueue(r) \/ Begin(r) \/ Restore(r) \/ Update(r) \/ NothingToMerge(r)
    \/ Save(r) \/ Deploy(r)

\* The publication of every run is over.
Quiet == \A r \in Runs : pub[r] \in {"done", "failed", "replaced", "skipped"}

Finished == Quiet /\ UNCHANGED vars

Next ==
    \/ Tick \/ Finished
    \/ \E r \in Runs : Publish(r) \/ Skip(r) \/ Fail(r)
    \/ \E r \in Runs, t \in Targets : StartJob(r, t) \/ Record(r, t) \/ NoRecord(r, t)

Spec == Init /\ [][Next]_vars

-----------------------------------------------------------------------------
\* Properties.

\* The types: the histories hold recorded snapshots under their own keys, and the
\* concurrency group lets one publication run at a time (compatibility.yml:191-193).
TypeOK ==
    /\ now \in Times
    /\ artifacts \subseteq Snapshot /\ todo \subseteq artifacts /\ published \subseteq artifacts
    /\ \A h \in {local, branch, site} :
          \A k \in Keys : h[k] # None => h[k] \in artifacts /\ KeyOf(h[k]) = k
    /\ Cardinality(Publishing) <= 1

\* history.ts:133-154, compatibility.yml: whatever the order in which runs finish
\* and publish, the branch holds for every target and day the best snapshot ever
\* pushed: a complete one if there is one, and then the latest.
BranchIsBest ==
    \A s \in published :
        LET kept == branch[KeyOf(s)]
        IN  /\ kept \in published
            /\ kept.complete >= s.complete
            /\ kept.complete = s.complete => kept.time >= s.time

\* docs/ci.md:56-58: snapshots persist on the branch: an entry is never removed, and
\* a complete run is never displaced by an interrupted or an earlier one.
Persists ==
    [][\A k \in Keys : branch[k] # None =>
          /\ branch'[k] # None
          /\ branch'[k].complete >= branch[k].complete
          /\ branch'[k].complete = branch[k].complete => branch'[k].time >= branch[k].time]_vars

\* The branch and the site as a durable history.
AtMost(a, b) ==
    b.complete >= a.complete /\ (b.complete = a.complete => b.time >= a.time)
Durable == INSTANCE DurableHistory
    WITH NoEntry <- None, Key <- KeyOf, log <- published, durable <- branch, dashboard <- site

\* The publications implement a durable history: however their runs overlap, fail or are
\* replaced, a reader of the branch sees each push as one batch that loses nothing, and a
\* reader of the site a history that was on the branch, whole (compatibility.yml:210-262,
\* history.ts:133-154).
ImplementsDurable == Durable!Spec

\* docs/ci.md:56-57: "keeps the latest complete run for each UTC day": when every
\* publication is over and none failed or was skipped, a day with a complete run
\* shows the latest one.
LatestCompleteKept ==
    (\A r \in Runs : pub[r] \in {"done", "replaced"}) =>
        \A s \in artifacts : s.complete = 1 =>
            LET kept == branch[KeyOf(s)]
            IN  kept # None /\ kept.complete = 1 /\ kept.time >= s.time
=============================================================================
