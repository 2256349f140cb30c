--------------------------- MODULE ParentLifetime ---------------------------
(***************************************************************************)
(* parent_lifetime_scenarios.py: the supervisor that launches a sandbox     *)
(* through a short-lived launcher, watches whether the sandbox outlives it, *)
(* and then, as the subreaper of everything below it, kills and reaps what  *)
(* is left.  Processes fork, die and are re-parented while the supervisor   *)
(* walks /proc, so what it has found is stale when it acts on it.           *)
(***************************************************************************)
EXTENDS Naturals, FiniteSets

CONSTANTS
    Late,        \* processes the sandbox may fork at any moment
    Deviations,  \* what the target may do wrong, "none" included
    Slow,        \* values of `slow': may the waits reach their deadlines?
    Limit        \* processes a walk of /proc does not reach (100 in the code)

ASSUME LifetimeAssumption ==
    /\ Late \intersect {"supervisor", "launcher", "target", "payload", "none"} = {}
    /\ IsFiniteSet(Late)
    /\ Slow \subseteq BOOLEAN
    /\ Limit \in Nat

Sandbox == {"target", "payload"} \union Late
Procs == {"launcher"} \union Sandbox

VARIABLES
    die,        \* --die-with-parent
    deviation,  \* what this target may do wrong
    slow,       \* whether waits may reach their deadlines
    pc,         \* where the supervisor is
    state,      \* [Procs -> life of each process]
    parent,     \* [Procs -> its parent]
    pending,    \* _descendants: processes whose children are still to be read
    found,      \* _descendants: processes to be killed
    statuses,   \* exit statuses the supervisor has reaped
    seen,       \* processes seen alive after the launcher's exit
    outcome,    \* how the supervised part ended
    cleanup,    \* how the cleanup ended
    breached    \* history: the target broke its promise

vars == <<die, deviation, slow, pc, state, parent, pending, found, statuses, seen, outcome,
          cleanup, breached>>
tables == <<state, parent>>
rest == <<pending, found, statuses>>

Living == {p \in Procs : state[p] \in {"alive", "doomed"}}
Children(p) == {c \in Procs : parent[c] = p /\ state[c] \in {"alive", "doomed", "zombie"}}
Started == {p \in Sandbox : state[p] # "unborn"}

-----------------------------------------------------------------------------
\* The kernel and the sandbox (external).

\* prctl(PR_SET_CHILD_SUBREAPER): orphans are adopted by the supervisor.
Subreaper == "supervisor"

\* A process is dead; the subreaper adopts its children.
Dies(p) ==
    /\ state' = [state EXCEPT ![p] = "zombie"]
    /\ parent' = [c \in Procs |-> IF parent[c] = p /\ state[c] # "unborn" THEN Subreaper
                                  ELSE parent[c]]

Born(c, p) ==
    /\ state[c] = "unborn"
    /\ state' = [state EXCEPT ![c] = "alive"]
    /\ parent' = [parent EXCEPT ![c] = p]

\* _launch(): the launcher starts the target.
StartTarget ==
    /\ pc = "await pid" /\ state["launcher"] = "alive"
    /\ Born("target", "launcher")
    /\ UNCHANGED <<die, deviation, slow, pc, rest, seen, outcome, cleanup, breached>>

\* The sandbox executes the payload, or forks something else.
Fork ==
    \E p \in Sandbox, c \in Sandbox \ {"target"} :
        /\ state[p] = "alive"
        /\ c = "payload" => p = "target"
        /\ Born(c, p)
        /\ UNCHANGED <<die, deviation, slow, pc, rest, seen, outcome, cleanup, breached>>

\* With --die-with-parent the sandbox dies once its launcher is gone; a target
\* that "survives" does not, one that "leaks" keeps its payload.
ParentDeath ==
    \E p \in {"target", "payload"} :
        /\ die /\ state["launcher"] \in {"zombie", "gone"} /\ state[p] = "alive"
        /\ deviation # "survives"
        /\ ~(deviation = "leaks" /\ p = "payload")
        /\ Dies(p)
        /\ UNCHANGED <<die, deviation, slow, pc, rest, seen, outcome, cleanup, breached>>

\* A target that "crashes" loses a process before the launcher is released.
Crash ==
    \E p \in {"target", "payload"} :
        /\ deviation = "crashes" /\ pc = "await ready" /\ state[p] = "alive"
        /\ Dies(p)
        /\ breached' = TRUE
        /\ UNCHANGED <<die, deviation, slow, pc, rest, seen, outcome, cleanup>>

\* Without the option a target that is "fragile" dies with its launcher anyway; that
\* breaks the promise when it happens within the second that is watched.
FragileDeath ==
    \E p \in {"target", "payload"} :
        /\ ~die /\ deviation = "fragile"
        /\ state["launcher"] \in {"zombie", "gone"} /\ state[p] = "alive"
        /\ Dies(p)
        /\ breached' = (breached \/ pc \in {"watch", "observe target"}
                                 \/ (pc = "observe payload" /\ p = "payload"))
        /\ UNCHANGED <<die, deviation, slow, pc, rest, seen, outcome, cleanup>>

\* A killed process goes as soon as it can.
DoomedDies ==
    \E p \in Procs :
        /\ state[p] = "doomed" /\ Dies(p)
        /\ UNCHANGED <<die, deviation, slow, pc, rest, seen, outcome, cleanup, breached>>

\* The target waits for its own children.
TargetReaps ==
    \E c \in Sandbox :
        /\ state["target"] = "alive" /\ parent[c] = "target" /\ state[c] = "zombie"
        /\ state' = [state EXCEPT ![c] = "gone"]
        /\ UNCHANGED <<die, deviation, slow, pc, parent, rest, seen, outcome, cleanup, breached>>

External ==
    StartTarget \/ Fork \/ ParentDeath \/ Crash \/ FragileDeath \/ DoomedDies \/ TargetReaps

-----------------------------------------------------------------------------
\* _supervise().

Goto(step) == pc' = step

SpawnLauncher ==
    /\ pc = "start"
    /\ Born("launcher", "supervisor")
    /\ Goto("await pid")
    /\ UNCHANGED <<die, deviation, slow, rest, seen, outcome, cleanup, breached>>

ReadPid ==
    /\ pc = "await pid" /\ state["target"] # "unborn"
    /\ Goto("await ready")
    /\ UNCHANGED <<die, deviation, slow, tables, rest, seen, outcome, cleanup, breached>>

\* The payload wrote "ready"; the walk below the target must find it.  The step is the
\* reading of the target's own children.
FindPayload ==
    /\ pc = "await ready" /\ state["payload"] # "unborn"
    /\ 1 + Cardinality(Children("target")) < Limit
    /\ IF "payload" \in Living \intersect Children("target")
       THEN Goto("release") /\ UNCHANGED outcome
       ELSE Goto("finally") /\ outcome' = "assertion"
    /\ UNCHANGED <<die, deviation, slow, tables, rest, seen, cleanup, breached>>

\* The walk raises at Limit processes.  What lies deeper is read later, when it may be
\* anything the sandbox has started so far.
FindTooMany ==
    /\ pc = "await ready" /\ state["payload"] # "unborn"
    /\ Cardinality(Started) >= Limit
    /\ Goto("finally") /\ outcome' = "assertion"
    /\ UNCHANGED <<die, deviation, slow, tables, rest, seen, cleanup, breached>>

\* The target died before its payload was ready.
TargetGone ==
    /\ pc = "await ready" /\ state["target"] = "zombie"
    /\ Goto("finally") /\ outcome' = "assertion"
    /\ UNCHANGED <<die, deviation, slow, tables, rest, seen, cleanup, breached>>

\* A deadline passes before the sandbox is ready or the launcher has exited.
GiveUp ==
    /\ slow /\ pc \in {"await ready", "release"}
    /\ Goto("finally") /\ outcome' = "assertion"
    /\ UNCHANGED <<die, deviation, slow, tables, rest, seen, cleanup, breached>>

\* launcher.communicate("x"): it exits and is waited for.
ReleaseLauncher ==
    /\ pc = "release" /\ state["launcher"] = "alive"
    /\ state' = [state EXCEPT !["launcher"] = "gone"]
    /\ parent' = [c \in Procs |-> IF parent[c] = "launcher" THEN Subreaper ELSE parent[c]]
    /\ Goto("watch")
    /\ UNCHANGED <<die, deviation, slow, rest, seen, outcome, cleanup, breached>>

\* The waiting loop ends: both are dead, or its deadline has passed (at once when
\* nothing more can happen to the sandbox).
StopWatching ==
    /\ pc = "watch"
    /\ \/ die /\ {"target", "payload"} \intersect Living = {}
       \/ ~die
       \/ die /\ (slow \/ deviation \in {"survives", "leaks"})
    /\ Goto("observe target")
    /\ UNCHANGED <<die, deviation, slow, tables, rest, seen, outcome, cleanup, breached>>

Observe(p, from, to) ==
    /\ pc = from
    /\ seen' = IF p \in Living THEN seen \union {p} ELSE seen
    /\ Goto(to)
    /\ UNCHANGED <<die, deviation, slow, tables, rest, outcome, cleanup, breached>>

ObserveTarget == Observe("target", "observe target", "observe payload")
ObservePayload == Observe("payload", "observe payload", "assert")

\* Mutant: only the command's own process is looked at.
TargetOnly == IF die THEN "target" \notin seen ELSE "target" \in seen

\* Both are alive, or with --die-with-parent both are dead.
Expected == seen = IF die THEN {} ELSE {"target", "payload"}

Assert ==
    /\ pc = "assert"
    /\ outcome' = IF Expected THEN "ok" ELSE "assertion"
    /\ breached' = (breached \/ (die /\ deviation \in {"survives", "leaks"}))
    /\ Goto("finally")
    /\ UNCHANGED <<die, deviation, slow, tables, rest, seen, cleanup>>

\* finally: a launcher that still runs is killed and waited for.
KillLauncher ==
    /\ pc = "finally"
    /\ IF state["launcher"] = "alive"
       THEN /\ state' = [state EXCEPT !["launcher"] = "gone"]
            /\ parent' = [c \in Procs |-> IF parent[c] = "launcher" THEN Subreaper ELSE parent[c]]
       ELSE UNCHANGED tables
    /\ pending' = {"supervisor"} /\ found' = {}
    /\ Goto("walk")
    /\ UNCHANGED <<die, deviation, slow, statuses, seen, outcome, cleanup, breached>>

\* Mutant: the supervisor counts itself among its descendants.
WalkItself ==
    /\ pc = "walk"
    /\ \E p \in pending :
          /\ pending' = (pending \ {p}) \union (Children(p) \ found)
          /\ found' = found \union {p}
    /\ UNCHANGED <<die, deviation, slow, pc, tables, statuses, seen, outcome, cleanup, breached>>

\* _descendants(os.getpid())[1:]: the children of one more process are read.
Walk ==
    /\ pc = "walk"
    /\ \E p \in pending :
          /\ Cardinality(found \union {"supervisor", p}) < Limit
          /\ pending' = (pending \ {p}) \union (Children(p) \ found)
          /\ found' = (found \union {p}) \ {"supervisor"}
    /\ UNCHANGED <<die, deviation, slow, pc, tables, statuses, seen, outcome, cleanup, breached>>

\* Limit processes: the assertion leaves the cleanup, and what is left stays.
WalkTooMany ==
    /\ pc = "walk"
    /\ \E p \in pending : Cardinality(found \union {"supervisor", p}) >= Limit
    /\ cleanup' = "too many"
    /\ Goto("done")
    /\ UNCHANGED <<die, deviation, slow, tables, rest, seen, outcome, breached>>

WalkDone ==
    /\ pc = "walk" /\ pending = {}
    /\ Goto("kill")
    /\ UNCHANGED <<die, deviation, slow, tables, rest, seen, outcome, cleanup, breached>>

\* SIGKILL for each one found, if it is still alive.
Kill ==
    /\ pc = "kill"
    /\ \E p \in found :
          /\ found' = found \ {p}
          /\ state' = IF state[p] = "alive" THEN [state EXCEPT ![p] = "doomed"] ELSE state
    /\ UNCHANGED <<die, deviation, slow, pc, parent, pending, statuses, seen, outcome, cleanup, breached>>

KillDone ==
    /\ pc = "kill" /\ found = {}
    /\ Goto("reap")
    /\ UNCHANGED <<die, deviation, slow, tables, rest, seen, outcome, cleanup, breached>>

\* waitpid(-1, WNOHANG): a dead child is reaped.
Reap ==
    /\ pc = "reap"
    /\ \E p \in Children("supervisor") :
          /\ state[p] = "zombie"
          /\ state' = [state EXCEPT ![p] = "gone"]
          /\ statuses' = statuses \union {p}
    /\ UNCHANGED <<die, deviation, slow, pc, parent, pending, found, seen, outcome, cleanup, breached>>

NoZombies == \A p \in Children("supervisor") : state[p] # "zombie"

\* Mutant: one round of killing and reaping is enough.
OneRound ==
    /\ pc = "reap" /\ NoZombies
    /\ cleanup' = IF "target" \in statuses THEN "complete" ELSE "no status"
    /\ Goto("done")
    /\ UNCHANGED <<die, deviation, slow, tables, rest, seen, outcome, breached>>

\* ChildProcessError: there is no child left.
NoChildren ==
    /\ pc = "reap" /\ Children("supervisor") = {}
    /\ cleanup' = IF "target" \in statuses THEN "complete" ELSE "no status"
    /\ Goto("done")
    /\ UNCHANGED <<die, deviation, slow, tables, rest, seen, outcome, breached>>

\* Mutant: every round starts with an empty dictionary of statuses.
StatusesForgotten ==
    /\ pc = "reap" /\ NoZombies /\ Children("supervisor") # {}
    /\ pending' = {"supervisor"} /\ statuses' = {}
    /\ Goto("walk")
    /\ UNCHANGED <<die, deviation, slow, tables, found, seen, outcome, cleanup, breached>>

\* Children are left, none of them dead: another round.
AnotherRound ==
    /\ pc = "reap" /\ NoZombies /\ Children("supervisor") # {}
    /\ pending' = {"supervisor"}
    /\ Goto("walk")
    /\ UNCHANGED <<die, deviation, slow, tables, found, statuses, seen, outcome, cleanup, breached>>

\* Mutant: every round is given a deadline of its own.
DeadlineRestarts ==
    /\ pc = "reap" /\ NoZombies /\ Children("supervisor") # {}
    /\ pending' = {"supervisor"}
    /\ Goto("walk")
    /\ UNCHANGED <<die, deviation, slow, tables, found, statuses, seen, outcome, cleanup, breached>>

\* ... unless five seconds have passed.
CleanupTimesOut ==
    /\ pc = "reap" /\ NoZombies /\ Children("supervisor") # {}
    /\ cleanup' = "timed out"
    /\ Goto("done")
    /\ UNCHANGED <<die, deviation, slow, tables, rest, seen, outcome, breached>>

Supervise ==
    \/ SpawnLauncher \/ ReadPid \/ FindPayload \/ FindTooMany \/ TargetGone \/ GiveUp
    \/ ReleaseLauncher \/ StopWatching
    \/ ObserveTarget \/ ObservePayload \/ Assert

Cleanup ==
    \/ KillLauncher \/ Walk \/ WalkTooMany \/ WalkDone \/ Kill \/ KillDone
    \/ Reap \/ NoChildren \/ AnotherRound \/ CleanupTimesOut

Finished == pc = "done" /\ UNCHANGED vars

Init ==
    /\ die \in BOOLEAN /\ deviation \in Deviations /\ slow \in Slow
    /\ pc = "start"
    /\ state = [p \in Procs |-> "unborn"] /\ parent = [p \in Procs |-> "none"]
    /\ pending = {} /\ found = {} /\ statuses = {} /\ seen = {}
    /\ outcome = "none" /\ cleanup = "none" /\ breached = FALSE

Next == External \/ Supervise \/ Cleanup \/ Finished

Spec == Init /\ [][Next]_vars

\* The supervisor runs and its deadlines pass; nothing is assumed of processes
\* that were sent SIGKILL: one may stay in the kernel for ever.
FairSpec ==
    /\ Spec
    /\ WF_vars(Supervise) /\ WF_vars(Cleanup) /\ SF_vars(CleanupTimesOut)
    /\ WF_vars(StartTarget) /\ WF_vars(Fork) /\ WF_vars(ParentDeath)

-----------------------------------------------------------------------------
\* The types: the parent of a process is alive, and the supervisor is not among the
\* processes to be killed (parent_lifetime_scenarios.py:60).
TypeOK ==
    /\ pc \in {"start", "await pid", "await ready", "release", "watch", "observe target",
               "observe payload", "assert", "finally", "walk", "kill", "reap", "done"}
    /\ state \in [Procs -> {"unborn", "alive", "doomed", "zombie", "gone"}]
    /\ pending \subseteq Procs \union {"supervisor"} /\ found \subseteq Procs
    /\ statuses \subseteq Procs
    /\ \A p \in Procs : parent[p] \in Procs => state[parent[p]] \in {"alive", "doomed"}

\* parent_lifetime_scenarios.py:56-74: when the cleanup returns, every process of the
\* sandbox is dead and reaped, also one that was forked after the walk that should
\* have found it, or adopted only when its parent died.
NothingLeft ==
    cleanup \in {"complete", "no status"} => \A p \in Procs : state[p] \in {"unborn", "gone"}

\* parent_lifetime_scenarios.py:126-127: the supervisor itself reaps the target, so a
\* cleanup that returns always has its exit status to report.
StatusKnown == cleanup # "no status"

\* parent_lifetime_scenarios.py:107-117: the observation is right: it succeeds only if
\* the target kept its promise.  A prompt target that keeps it is blamed neither by the
\* observation nor by the cleanup, unless it has started so many processes that a walk may
\* reach the limit (line 39) or one of them outlives SIGKILL by five seconds (line 73).
Crowded == 1 + Cardinality(Started) >= Limit
ObservationSound ==
    /\ outcome = "ok" => ~breached
    /\ outcome = "assertion" /\ ~slow => breached \/ Crowded
    /\ cleanup \in {"none", "complete", "timed out"} \/ Crowded

\* parent_lifetime_scenarios.py:58-73: the supervisor always ends, even if a process it
\* killed never goes away.
Ends == <>(pc = "done")
=============================================================================
