------------------------ MODULE ParentLifetimeProofs ------------------------
(***************************************************************************)
(* ParentLifetime.tla: the cleanup of the supervisor leaves nothing behind *)
(* and knows the status of the target, and its observation is right, for   *)
(* any number of processes the sandbox forks and every deviation.          *)
(***************************************************************************)
EXTENDS ParentLifetime, FiniteSetTheorems, TLAPS

Before == {"start", "await pid", "await ready", "release", "watch", "observe target",
           "observe payload", "assert", "finally"}
Found == {"release", "watch", "observe target", "observe payload", "assert"}
After == {"walk", "kill", "reap", "done"}

\* The process table: whoever was born has a parent, and parents live.
TableInv ==
    /\ state \in [Procs -> {"unborn", "alive", "doomed", "zombie", "gone"}]
    /\ parent \in [Procs -> Procs \union {"supervisor", "none"}]
    /\ \A p \in Procs : parent[p] = "none" <=> state[p] = "unborn"
    /\ \A p \in Procs : parent[p] \in Procs => state[parent[p]] \in {"alive", "doomed"}

\* There is no set of processes each of whose parents is in the set, so every living
\* process descends from the supervisor.
NoLoop == \A S \in SUBSET Procs : S # {} => \E p \in S : parent[p] \notin S

TreeInv == TableInv /\ NoLoop

\* Who is there at each place of the supervisor.
StageInv ==
    /\ pc \in Before \union After
    /\ pc = "start" => \A p \in Procs : state[p] = "unborn"
    /\ pc \in {"await pid", "await ready", "release"} => state["launcher"] = "alive"
    /\ pc \in (Found \ {"release"}) \union After => state["launcher"] = "gone"
    /\ pc = "finally" => state["launcher"] \in {"alive", "gone"}
    /\ pc \in Before => \A p \in Procs : state[p] # "doomed"
    /\ pc \notin {"start", "await pid"} => state["target"] # "unborn"
    /\ parent["target"] \in {"none", "launcher", "supervisor"}
    /\ parent["payload"] \in {"none", "target", "supervisor"}

\* What the cleanup has on record, and what is left when it returns.
CleanupInv ==
    /\ pending \subseteq Procs \union {"supervisor"} /\ found \subseteq Procs
    /\ statuses \subseteq Procs
    /\ state["target"] = "gone" => "target" \in statuses
    /\ cleanup # "none" => pc = "done"
    /\ cleanup # "no status"
    /\ cleanup = "complete" => \A p \in Procs : state[p] \in {"unborn", "gone"}

\* Until it is found, the payload of an honest target is alive below it; one that has
\* broken its promise cannot show a payload any more.
ReadyInv ==
    /\ pc \in {"start", "await pid"} => ~ breached
    /\ pc \in {"start", "await pid", "await ready"} /\ ~ breached =>
          /\ state["target"] \in {"unborn", "alive"} /\ state["payload"] \in {"unborn", "alive"}
          /\ state["payload"] = "alive" => parent["payload"] = "target"
    /\ pc = "await ready" /\ breached =>
          state["target"] # "alive" \/ state["payload"] \in {"zombie", "gone"}
    /\ pc = "release" => state["target"] = "alive" /\ state["payload"] = "alive" /\ ~ breached
    /\ pc \in Found => state["payload"] # "unborn"

\* What has been seen at each place, against what the target did.
SeenInv ==
    /\ pc \in Before \ {"observe payload", "assert", "finally"} => seen = {}
    /\ pc = "observe payload" => seen \subseteq {"target"}
    /\ pc = "assert" => seen \subseteq {"target", "payload"}
    /\ die /\ pc \in Found => ~ breached
    /\ die /\ deviation \in {"survives", "leaks"} /\ pc \in Found =>
          state["payload"] = "alive" /\ (pc = "assert" => "payload" \in seen)
    /\ die /\ ~ slow /\ deviation \notin {"survives", "leaks"}
          /\ pc \in {"observe target", "observe payload", "assert"} =>
          /\ state["target"] \in {"zombie", "gone"} /\ state["payload"] \in {"zombie", "gone"}
          /\ seen = {}
    /\ ~ die /\ breached /\ pc \in Found =>
          \E p \in {"target", "payload"} : state[p] \in {"zombie", "gone"} /\ p \notin seen
    /\ ~ die /\ ~ breached =>
          /\ pc \in {"watch", "observe target"} =>
                state["target"] = "alive" /\ state["payload"] = "alive"
          /\ pc = "observe payload" => state["payload"] = "alive" /\ seen = {"target"}
          /\ pc = "assert" => seen = {"target", "payload"}

OutcomeInv ==
    /\ pc \in Before \ {"finally"} => outcome = "none"
    /\ outcome = "ok" => ~ breached
    /\ outcome = "assertion" /\ ~ slow => breached \/ Crowded

\* A walk meets only what the sandbox has started.
CrowdInv ==
    /\ pending \subseteq Started \union {"supervisor"} /\ found \subseteq Started
    /\ cleanup \in {"none", "complete", "no status", "timed out"} \/ Crowded

-----------------------------------------------------------------------------
\* The process table.

LEMMA Names ==
    /\ "supervisor" \notin Procs /\ "none" \notin Procs
    /\ "launcher" \notin Sandbox /\ {"launcher", "target", "payload"} \subseteq Procs
    /\ Sandbox \subseteq Procs
  BY LifetimeAssumption DEF Procs, Sandbox

\* A newborn process cannot close a loop: nothing descends from it yet.
LEMMA BornTree ==
    ASSUME TreeInv, NEW c \in Procs, NEW p, Born(c, p),
           p = "supervisor" \/ (p \in Procs /\ state[p] = "alive")
    PROVE  TreeInv'
  <1> USE DEF TreeInv, TableInv, NoLoop, Born
  <1>1. state' \in [Procs -> {"unborn", "alive", "doomed", "zombie", "gone"}]
    OBVIOUS
  <1>2. parent' \in [Procs -> Procs \union {"supervisor", "none"}]
    OBVIOUS
  <1>3. \A q \in Procs : parent'[q] = "none" <=> state'[q] = "unborn"
    BY Names
  <1>4. \A q \in Procs : parent'[q] \in Procs => state'[parent'[q]] \in {"alive", "doomed"}
    BY Names
  <1>5. ASSUME NEW S \in SUBSET Procs, S # {} PROVE \E q \in S : parent'[q] \notin S
    <2>1. CASE c \notin S
      BY <1>5, <2>1
    <2>2. CASE S = {c}
      BY <2>2, Names
    <2>3. CASE c \in S /\ S # {c}
      <3>1. PICK q \in S \ {c} : parent[q] \notin S \ {c}
        <4>1. S \ {c} \in SUBSET Procs /\ S \ {c} # {}
          BY <1>5, <2>3
        <4> QED
          BY <4>1
      <3>2. parent[q] # c
        BY <3>1
      <3> QED
        BY <3>1, <3>2
    <2> QED
      BY <2>1, <2>2, <2>3
  <1> QED
    BY <1>1, <1>2, <1>3, <1>4, <1>5

\* What is handed over to the supervisor leaves every loop.
LEMMA AdoptTree ==
    ASSUME TreeInv, NEW p \in Procs, state[p] # "unborn", NEW s \in {"zombie", "gone"},
           state' = [state EXCEPT ![p] = s],
           \/ parent' = [c \in Procs |-> IF parent[c] = p /\ state[c] # "unborn" THEN "supervisor"
                                        ELSE parent[c]]
           \/ parent' = [c \in Procs |-> IF parent[c] = p THEN "supervisor" ELSE parent[c]]
    PROVE  TreeInv'
  <1> USE DEF TreeInv, TableInv, NoLoop
  <1>0. parent' = [c \in Procs |-> IF parent[c] = p THEN "supervisor" ELSE parent[c]]
    BY Names
  <1>1. state' \in [Procs -> {"unborn", "alive", "doomed", "zombie", "gone"}]
    OBVIOUS
  <1>2. parent' \in [Procs -> Procs \union {"supervisor", "none"}]
    BY <1>0
  <1>3. \A q \in Procs : parent'[q] = "none" <=> state'[q] = "unborn"
    BY <1>0, Names
  <1>4. \A q \in Procs : parent'[q] \in Procs => state'[parent'[q]] \in {"alive", "doomed"}
    BY <1>0, Names
  <1>5. ASSUME NEW S \in SUBSET Procs, S # {} PROVE \E q \in S : parent'[q] \notin S
    <2>1. PICK q \in S : parent[q] \notin S
      BY <1>5
    <2> QED
      BY <1>0, <2>1, Names
  <1> QED
    BY <1>1, <1>2, <1>3, <1>4, <1>5

\* A zombie has no children, so it may go; whoever is alive may be doomed.
LEMMA ChangeTree ==
    ASSUME TreeInv, NEW p \in Procs, NEW s, UNCHANGED parent,
           state' = [state EXCEPT ![p] = s],
           \/ state[p] = "zombie" /\ s = "gone"
           \/ state[p] = "alive" /\ s = "doomed"
    PROVE  TreeInv'
  BY DEF TreeInv, TableInv, NoLoop

LEMMA TreeExternal == TreeInv /\ External => TreeInv'
  <1> SUFFICES ASSUME TreeInv, External PROVE TreeInv'
    OBVIOUS
  <1> USE Names
  <1>1. CASE StartTarget
    BY <1>1, BornTree DEF StartTarget
  <1>2. CASE Fork
    BY <1>2, BornTree DEF Fork
  <1>3. ASSUME NEW p \in Procs, state[p] \in {"alive", "doomed"}, Dies(p) PROVE TreeInv'
    BY <1>3, AdoptTree DEF Dies, Subreaper
  <1>4. CASE ParentDeath \/ Crash \/ FragileDeath \/ DoomedDies
    BY <1>3, <1>4 DEF ParentDeath, Crash, FragileDeath, DoomedDies
  <1>5. CASE TargetReaps
    BY <1>5, ChangeTree DEF TargetReaps
  <1> QED
    BY <1>1, <1>2, <1>4, <1>5 DEF External

LEMMA TreeSupervise == TreeInv /\ StageInv /\ Supervise => TreeInv'
  <1> SUFFICES ASSUME TreeInv, StageInv, Supervise PROVE TreeInv'
    OBVIOUS
  <1> USE Names
  <1>1. CASE SpawnLauncher
    BY <1>1, BornTree DEF SpawnLauncher
  <1>2. CASE ReleaseLauncher
    BY <1>2, AdoptTree DEF ReleaseLauncher, Subreaper
  <1>3. CASE UNCHANGED tables
    BY <1>3 DEF tables, TreeInv, TableInv, NoLoop
  <1> QED
    BY <1>1, <1>2, <1>3 DEF Supervise, ReadPid, FindPayload, FindTooMany, TargetGone, GiveUp,
       StopWatching, ObserveTarget, ObservePayload, Observe, Assert

LEMMA TreeCleanup == TreeInv /\ CleanupInv /\ Cleanup => TreeInv'
  <1> SUFFICES ASSUME TreeInv, CleanupInv, Cleanup PROVE TreeInv'
    OBVIOUS
  <1> USE Names
  <1>1. CASE KillLauncher
    <2>1. CASE state["launcher"] = "alive"
      BY <1>1, <2>1, AdoptTree DEF KillLauncher, Subreaper
    <2>2. CASE state["launcher"] # "alive"
      BY <1>1, <2>2 DEF KillLauncher, tables, TreeInv, TableInv, NoLoop
    <2> QED
      BY <2>1, <2>2
  <1>2. CASE Kill
    <2>1. PICK p \in found : state' = IF state[p] = "alive" THEN [state EXCEPT ![p] = "doomed"]
                                     ELSE state
      BY <1>2 DEF Kill
    <2>2. p \in Procs /\ UNCHANGED parent
      BY <1>2 DEF Kill, CleanupInv
    <2>3. CASE state[p] = "alive"
      BY <2>1, <2>2, <2>3, ChangeTree
    <2>4. CASE state[p] # "alive"
      BY <2>1, <2>2, <2>4 DEF TreeInv, TableInv, NoLoop
    <2> QED
      BY <2>3, <2>4
  <1>3. CASE Reap
    BY <1>3, ChangeTree DEF Reap, Children
  <1>4. CASE UNCHANGED tables
    BY <1>4 DEF tables, TreeInv, TableInv, NoLoop
  <1> QED
    BY <1>1, <1>2, <1>3, <1>4 DEF Cleanup, Walk, WalkTooMany, WalkDone, KillDone, NoChildren, AnotherRound,
       CleanupTimesOut

-----------------------------------------------------------------------------
\* What a step makes of the process table, process by process.
Change(p, s) == \A q \in Procs : state'[q] = IF q = p THEN s ELSE state[q]
Gets(c, p) == \A q \in Procs : parent'[q] = IF q = c THEN p ELSE parent[q]
Adopts(p) == \A q \in Procs : parent'[q] = IF parent[q] = p THEN "supervisor" ELSE parent[q]

Birth(c, p) ==
    /\ c \in Sandbox /\ p \in Procs /\ state[c] = "unborn" /\ state[p] = "alive"
    /\ c = "target" => p = "launcher" /\ pc = "await pid"
    /\ c # "target" => p \in Sandbox
    /\ c = "payload" => p = "target"
    /\ Change(c, "alive") /\ Gets(c, p) /\ breached' = breached

\* Why a process of the sandbox that was not killed dies.
Perishes(p) ==
    /\ p \in {"target", "payload"} /\ state[p] = "alive"
    /\ \/ /\ die /\ state["launcher"] \in {"zombie", "gone"} /\ deviation # "survives"
          /\ ~ (deviation = "leaks" /\ p = "payload") /\ breached' = breached
       \/ deviation = "crashes" /\ pc = "await ready" /\ breached'
       \/ /\ ~ die /\ state["launcher"] \in {"zombie", "gone"} /\ deviation = "fragile"
          /\ breached' = (breached \/ pc \in {"watch", "observe target"}
                                   \/ (pc = "observe payload" /\ p = "payload"))

Death(p) ==
    /\ p \in Procs /\ Change(p, "zombie") /\ Adopts(p)
    /\ (state[p] = "doomed" /\ breached' = breached) \/ Perishes(p)

Leave(c) ==
    /\ c \in Sandbox /\ parent[c] = "target" /\ state[c] = "zombie"
    /\ Change(c, "gone") /\ UNCHANGED <<parent, breached>>

LEMMA ExternalMoves ==
    ASSUME TableInv, External
    PROVE  /\ UNCHANGED <<die, deviation, slow, pc, pending, found, statuses, seen, outcome, cleanup>>
           /\ \/ \E c, p \in Procs : Birth(c, p)
              \/ \E p \in Procs : Death(p)
              \/ \E p \in Procs : Leave(p)
  <1> DEFINE Same == UNCHANGED <<die, deviation, slow, pc, pending, found, statuses, seen, outcome,
                                 cleanup>>
  <1> USE Names
  <1>1. ASSUME NEW c \in Procs, NEW p, Born(c, p) PROVE Change(c, "alive") /\ Gets(c, p)
    BY <1>1 DEF Born, TableInv, Change, Gets
  <1>2. ASSUME NEW p \in Procs, Dies(p), state[p] # "unborn" PROVE Change(p, "zombie") /\ Adopts(p)
    BY <1>2 DEF Dies, Subreaper, TableInv, Change, Adopts
  <1>3. CASE StartTarget
    <2>1. Same
      BY <1>3 DEF StartTarget, rest
    <2>2. Birth("target", "launcher")
      BY <1>1, <1>3 DEF StartTarget, Born, Birth, Sandbox
    <2> QED
      BY <2>1, <2>2
  <1>4. CASE Fork
    <2>1. Same
      BY <1>4 DEF Fork, rest
    <2>2. PICK p \in Sandbox, c \in Sandbox \ {"target"} :
            /\ state[p] = "alive" /\ (c = "payload" => p = "target") /\ Born(c, p)
            /\ breached' = breached
      BY <1>4 DEF Fork
    <2>3. Birth(c, p)
      BY <1>1, <2>2 DEF Born, Birth
    <2> QED
      BY <2>1, <2>3
  <1>5. CASE ParentDeath \/ Crash \/ FragileDeath
    <2>1. Same
      BY <1>5 DEF ParentDeath, Crash, FragileDeath, rest
    <2>2. PICK p \in {"target", "payload"} : Perishes(p) /\ Dies(p)
      BY <1>5 DEF ParentDeath, Crash, FragileDeath, Perishes
    <2>3. Death(p)
      BY <1>2, <2>2 DEF Death, Perishes
    <2> QED
      BY <2>1, <2>3
  <1>6. CASE DoomedDies
    BY <1>2, <1>6 DEF DoomedDies, Death, rest
  <1>7. CASE TargetReaps
    <2>1. Same
      BY <1>7 DEF TargetReaps, rest
    <2>2. PICK c \in Sandbox : /\ parent[c] = "target" /\ state[c] = "zombie"
                               /\ state' = [state EXCEPT ![c] = "gone"]
                               /\ UNCHANGED <<parent, breached>>
      BY <1>7 DEF TargetReaps
    <2>3. Change(c, "gone")
      BY <2>2 DEF TableInv, Change
    <2> QED
      BY <2>1, <2>2, <2>3 DEF Leave
  <1> QED
    BY <1>3, <1>4, <1>5, <1>6, <1>7 DEF External

LEMMA SpawnMoves ==
    TableInv /\ SpawnLauncher => Change("launcher", "alive") /\ Gets("launcher", "supervisor")
  <1> SUFFICES ASSUME TableInv, SpawnLauncher
               PROVE  Change("launcher", "alive") /\ Gets("launcher", "supervisor")
    OBVIOUS
  <1>1. /\ state' = [state EXCEPT !["launcher"] = "alive"]
        /\ parent' = [parent EXCEPT !["launcher"] = "supervisor"]
    BY DEF SpawnLauncher, Born
  <1> QED
    BY <1>1 DEF TableInv, Change, Gets

LEMMA KillLauncherMoves ==
    TableInv /\ KillLauncher =>
        \/ state["launcher"] = "alive" /\ Change("launcher", "gone") /\ Adopts("launcher")
        \/ state["launcher"] # "alive" /\ UNCHANGED tables
  <1> SUFFICES ASSUME TableInv, KillLauncher, state["launcher"] = "alive"
               PROVE  Change("launcher", "gone") /\ Adopts("launcher")
    BY DEF KillLauncher
  <1>1. /\ state' = [state EXCEPT !["launcher"] = "gone"]
        /\ parent' = [c \in Procs |-> IF parent[c] = "launcher" THEN "supervisor" ELSE parent[c]]
    BY DEF KillLauncher, Subreaper
  <1> QED
    BY <1>1, Names DEF TableInv, Change, Adopts

LEMMA KillMoves ==
    TableInv /\ CleanupInv /\ Kill =>
        /\ UNCHANGED parent
        /\ \A q \in Procs : \/ state'[q] = state[q]
                            \/ state[q] = "alive" /\ state'[q] = "doomed"
  <1> SUFFICES ASSUME TableInv, Kill
               PROVE  /\ UNCHANGED parent
                      /\ \A q \in Procs : \/ state'[q] = state[q]
                                          \/ state[q] = "alive" /\ state'[q] = "doomed"
    OBVIOUS
  <1>1. PICK p : state' = IF state[p] = "alive" THEN [state EXCEPT ![p] = "doomed"] ELSE state
    BY DEF Kill
  <1> QED
    BY <1>1 DEF Kill, TableInv

LEMMA ReapMoves ==
    TableInv /\ Reap =>
        \E p \in Procs : /\ state[p] = "zombie" /\ Change(p, "gone") /\ UNCHANGED parent
                         /\ statuses' = statuses \union {p}
  BY DEF Reap, Children, TableInv, Change

-----------------------------------------------------------------------------
\* The stages of the supervisor.

LEMMA StageExternal == TableInv /\ StageInv /\ External => StageInv'
  <1> SUFFICES ASSUME TableInv, StageInv, External PROVE StageInv'
    OBVIOUS
  <1> USE Names DEF StageInv, Before, After, Found
  <1>0. pc' = pc
    BY ExternalMoves
  <1>1. ASSUME NEW c, NEW p, Birth(c, p) PROVE StageInv'
    BY <1>0, <1>1 DEF Birth, Change, Gets, Sandbox
  <1>2. ASSUME NEW p, Death(p) PROVE StageInv'
    BY <1>0, <1>2 DEF Death, Perishes, Change, Adopts
  <1>3. ASSUME NEW c, Leave(c) PROVE StageInv'
    BY <1>0, <1>3 DEF Leave, Change
  <1> QED
    BY <1>1, <1>2, <1>3, ExternalMoves

LEMMA StageSupervise == TableInv /\ StageInv /\ Supervise => StageInv'
  <1> SUFFICES ASSUME TableInv, StageInv, Supervise PROVE StageInv'
    OBVIOUS
  <1> USE Names DEF StageInv, Before, After, Found, Goto
  <1>1. CASE SpawnLauncher
    BY <1>1 DEF SpawnLauncher, Born, TableInv
  <1>2. CASE ReadPid
    BY <1>2 DEF ReadPid, tables
  <1>3. CASE FindPayload
    BY <1>3 DEF FindPayload, tables
  <1>4. CASE FindTooMany \/ TargetGone \/ GiveUp
    BY <1>4 DEF FindTooMany, TargetGone, GiveUp, tables
  <1>5. CASE ReleaseLauncher
    BY <1>5 DEF ReleaseLauncher, Subreaper, TableInv
  <1>6. CASE StopWatching
    BY <1>6 DEF StopWatching, tables
  <1>7. CASE ObserveTarget \/ ObservePayload
    BY <1>7 DEF ObserveTarget, ObservePayload, Observe, tables
  <1>8. CASE Assert
    BY <1>8 DEF Assert, tables
  <1> QED
    BY <1>1, <1>2, <1>3, <1>4, <1>5, <1>6, <1>7, <1>8 DEF Supervise

LEMMA StageCleanup == TableInv /\ StageInv /\ CleanupInv /\ Cleanup => StageInv'
  <1> SUFFICES ASSUME TableInv, StageInv, CleanupInv, Cleanup PROVE StageInv'
    OBVIOUS
  <1> USE Names DEF StageInv, Before, After, Found, Goto
  <1>1. CASE KillLauncher
    BY <1>1, KillLauncherMoves DEF KillLauncher, tables, Change, Adopts
  <1>2. CASE Kill
    BY <1>2, KillMoves DEF Kill
  <1>3. CASE Reap
    BY <1>3 DEF Reap, Children, TableInv
  <1>4. CASE Walk \/ WalkTooMany \/ WalkDone \/ KillDone \/ NoChildren \/ AnotherRound \/ CleanupTimesOut
    BY <1>4 DEF Walk, WalkTooMany, WalkDone, KillDone, NoChildren, AnotherRound, CleanupTimesOut, tables
  <1> QED
    BY <1>1, <1>2, <1>3, <1>4 DEF Cleanup

-----------------------------------------------------------------------------
\* When the supervisor has no child left, nobody is left: whoever were left would
\* descend from it.
LEMMA NobodyLeft ==
    ASSUME TreeInv, Children("supervisor") = {}
    PROVE  \A p \in Procs : state[p] \in {"unborn", "gone"}
  <1> DEFINE L == {p \in Procs : state[p] \in {"alive", "doomed", "zombie"}}
  <1>1. L = {}
    <2> SUFFICES ASSUME L # {} PROVE FALSE
      OBVIOUS
    <2>1. PICK p \in L : parent[p] \notin L
      BY DEF TreeInv, NoLoop
    <2>2. parent[p] # "supervisor"
      BY DEF Children
    <2>3. parent[p] \in Procs
      BY <2>1, <2>2 DEF TreeInv, TableInv
    <2> QED
      BY <2>1, <2>3 DEF TreeInv, TableInv
  <1> QED
    BY <1>1 DEF TreeInv, TableInv

LEMMA CleanupExternal == TableInv /\ StageInv /\ CleanupInv /\ External => CleanupInv'
  <1> SUFFICES ASSUME TableInv, StageInv, CleanupInv, External PROVE CleanupInv'
    OBVIOUS
  <1> USE Names DEF CleanupInv
  <1>0. UNCHANGED <<pc, pending, found, statuses, cleanup>>
    BY ExternalMoves
  <1>1. ASSUME NEW c, NEW p, Birth(c, p) PROVE CleanupInv'
    BY <1>0, <1>1 DEF Birth, Change
  <1>2. ASSUME NEW p, Death(p) PROVE CleanupInv'
    BY <1>0, <1>2 DEF Death, Perishes, Change
  <1>3. ASSUME NEW c, Leave(c) PROVE CleanupInv'
    <2>1. c # "target"
      BY <1>3 DEF Leave, StageInv
    <2> QED
      BY <1>0, <1>3, <2>1 DEF Leave, Change
  <1> QED
    BY <1>1, <1>2, <1>3, ExternalMoves

LEMMA CleanupSupervise == TableInv /\ CleanupInv /\ Supervise => CleanupInv'
  <1> SUFFICES ASSUME TableInv, CleanupInv, Supervise PROVE CleanupInv'
    OBVIOUS
  <1> USE Names DEF CleanupInv, rest, Goto
  <1>1. CASE SpawnLauncher
    BY <1>1, SpawnMoves DEF SpawnLauncher, Change
  <1>2. CASE ReleaseLauncher
    BY <1>2 DEF ReleaseLauncher, TableInv
  <1>3. CASE ~ (SpawnLauncher \/ ReleaseLauncher)
    BY <1>3 DEF Supervise, ReadPid, FindPayload, FindTooMany, TargetGone, GiveUp, StopWatching, ObserveTarget,
                ObservePayload, Observe, Assert, tables
  <1> QED
    BY <1>1, <1>2, <1>3

LEMMA CleanupCleanup == TreeInv /\ StageInv /\ CleanupInv /\ Cleanup => CleanupInv'
  <1> SUFFICES ASSUME TreeInv, StageInv, CleanupInv, Cleanup PROVE CleanupInv'
    OBVIOUS
  <1>0. TableInv
    BY DEF TreeInv
  <1> USE <1>0, Names DEF CleanupInv, rest, Goto
  <1>1. CASE KillLauncher
    BY <1>1, KillLauncherMoves DEF KillLauncher, tables, Change
  <1>2. CASE Walk
    BY <1>2 DEF Walk, Children, tables
  <1>3. CASE Kill
    BY <1>3, KillMoves DEF Kill
  <1>4. CASE Reap
    BY <1>4, ReapMoves DEF Reap, Change
  <1>5. CASE NoChildren
    <2>1. \A p \in Procs : state[p] \in {"unborn", "gone"}
      BY <1>5, NobodyLeft DEF NoChildren
    <2>2. state["target"] = "gone"
      BY <1>5, <2>1 DEF NoChildren, StageInv
    <2> QED
      BY <1>5, <2>1, <2>2 DEF NoChildren, tables
  <1>6. CASE WalkTooMany \/ WalkDone \/ KillDone \/ AnotherRound \/ CleanupTimesOut
    BY <1>6 DEF WalkTooMany, WalkDone, KillDone, AnotherRound, CleanupTimesOut, tables
  <1> QED
    BY <1>1, <1>2, <1>3, <1>4, <1>5, <1>6 DEF Cleanup

-----------------------------------------------------------------------------
\* How many processes there are to be met: nobody who was started is unborn again.

LEMMA StartedFinite == \A T \in SUBSET Sandbox : IsFiniteSet(T) /\ Cardinality(T) \in Nat
  <1>1. IsFiniteSet(Late \union {"target"}) /\ IsFiniteSet((Late \union {"target"}) \union {"payload"})
    BY LifetimeAssumption, FS_AddElement
  <1>2. Sandbox = (Late \union {"target"}) \union {"payload"}
    BY DEF Sandbox
  <1> QED
    BY <1>1, <1>2, FS_Subset, FS_CardinalityType

LEMMA ManyCrowd == Cardinality(Started) >= Limit => Crowded
  <1>1. Cardinality(Started) \in Nat
    BY StartedFinite DEF Started
  <1> QED
    BY <1>1, LifetimeAssumption DEF Crowded

LEMMA StartedGrows ==
    ASSUME TableInv, CleanupInv, External \/ Supervise \/ Cleanup
    PROVE  Started \subseteq Started' /\ (Crowded => Crowded')
  <1> USE Names
  <1> SUFFICES ASSUME NEW q \in Sandbox, state[q] # "unborn" PROVE state'[q] # "unborn"
    <2>1. Started \in SUBSET Started'
      BY DEF Started
    <2>2. /\ IsFiniteSet(Started') /\ Cardinality(Started') \in Nat /\ Cardinality(Started) \in Nat
      <3>1. Started \in SUBSET Sandbox /\ Started' \in SUBSET Sandbox
        BY DEF Started
      <3> QED
        BY <3>1, StartedFinite
    <2>3. Cardinality(Started) <= Cardinality(Started')
      BY <2>1, <2>2, FS_Subset
    <2> QED
      BY <2>1, <2>2, <2>3, LifetimeAssumption DEF Crowded
  <1>0. q \in Procs /\ q # "launcher"
    OBVIOUS
  <1>1. CASE External
    BY <1>0, <1>1, ExternalMoves DEF Birth, Death, Leave, Change
  <1>2. CASE SpawnLauncher
    BY <1>0, <1>2, SpawnMoves DEF Change
  <1>3. CASE ReleaseLauncher
    BY <1>0, <1>3 DEF ReleaseLauncher, TableInv
  <1>4. CASE KillLauncher
    BY <1>0, <1>4, KillLauncherMoves DEF Change, tables
  <1>5. CASE Kill
    BY <1>0, <1>5, KillMoves
  <1>6. CASE Reap
    BY <1>0, <1>6, ReapMoves DEF Change
  <1>7. CASE UNCHANGED tables
    BY <1>7 DEF tables
  <1>8. CASE Supervise
    BY <1>2, <1>3, <1>7, <1>8 DEF Supervise, ReadPid, FindPayload, FindTooMany, TargetGone, GiveUp,
       StopWatching, ObserveTarget, ObservePayload, Observe, Assert
  <1>9. CASE Cleanup
    BY <1>4, <1>5, <1>6, <1>7, <1>9 DEF Cleanup, Walk, WalkTooMany, WalkDone, KillDone, NoChildren,
       AnotherRound, CleanupTimesOut
  <1> QED
    BY <1>1, <1>8, <1>9

LEMMA CrowdStep ==
    TableInv /\ StageInv /\ CleanupInv /\ CrowdInv /\ (External \/ Supervise \/ Cleanup)
    => CrowdInv'
  <1> SUFFICES ASSUME TableInv, StageInv, CleanupInv, CrowdInv, External \/ Supervise \/ Cleanup
               PROVE  CrowdInv'
    OBVIOUS
  <1>1. Started \subseteq Started' /\ (Crowded => Crowded')
    BY StartedGrows
  <1>2. CASE /\ pending' \subseteq Started \union {"supervisor"} /\ found' \subseteq Started
             /\ cleanup' \in {cleanup, "none", "complete", "no status", "timed out"} \/ Crowded
    BY <1>1, <1>2 DEF CrowdInv
  <1>3. CASE External
    BY <1>2, <1>3, ExternalMoves DEF CrowdInv
  <1>4. CASE Supervise
    <2>1. UNCHANGED <<pending, found, cleanup>>
      BY <1>4 DEF Supervise, SpawnLauncher, ReadPid, FindPayload, FindTooMany, TargetGone, GiveUp,
         ReleaseLauncher, StopWatching, ObserveTarget, ObservePayload, Observe, Assert, rest
    <2> QED
      BY <1>2, <2>1 DEF CrowdInv
  <1>5. CASE Walk
    <2>1. PICK p \in pending : /\ pending' = (pending \ {p}) \union (Children(p) \ found)
                               /\ found' = (found \union {p}) \ {"supervisor"}
      BY <1>5 DEF Walk
    <2>2. Children(p) \subseteq Started
      <3>1. state["launcher"] = "gone"
        BY <1>5 DEF Walk, StageInv, After
      <3> QED
        BY <3>1, Names DEF Children, Started, Procs
    <2>3. cleanup' = cleanup
      BY <1>5 DEF Walk
    <2> QED
      BY <1>2, <2>1, <2>2, <2>3 DEF CrowdInv
  <1>6. CASE WalkTooMany
    <2>1. PICK p \in pending : Cardinality(found \union {"supervisor", p}) >= Limit
      BY <1>6 DEF WalkTooMany
    <2>2. found \union {"supervisor", p} \in SUBSET (Started \union {"supervisor"})
      BY DEF CrowdInv
    <2>3. "supervisor" \notin Started
      BY Names DEF Started
    <2>4. IsFiniteSet(Started) /\ Cardinality(Started) \in Nat
      BY StartedFinite DEF Started
    <2>5. /\ IsFiniteSet(Started \union {"supervisor"})
          /\ Cardinality(Started \union {"supervisor"}) = Cardinality(Started) + 1
      BY <2>3, <2>4, FS_AddElement
    <2>6. /\ Cardinality(found \union {"supervisor", p}) <= Cardinality(Started) + 1
          /\ Cardinality(found \union {"supervisor", p}) \in Nat
      BY <2>2, <2>5, FS_Subset, FS_CardinalityType
    <2>7. Crowded
      BY <2>1, <2>6, <2>4, LifetimeAssumption DEF Crowded
    <2>8. UNCHANGED <<pending, found>>
      BY <1>6 DEF WalkTooMany, rest
    <2> QED
      BY <1>2, <2>7, <2>8 DEF CrowdInv
  <1>7. CASE Cleanup /\ ~ Walk /\ ~ WalkTooMany
    <2>1. /\ pending' \in {pending, {"supervisor"}}
          /\ cleanup' \in {cleanup, "complete", "no status", "timed out"}
      BY <1>7 DEF Cleanup, KillLauncher, WalkDone, Kill, KillDone, Reap, NoChildren, AnotherRound,
         CleanupTimesOut, rest
    <2>2. found' \subseteq found
      BY <1>7 DEF Cleanup, KillLauncher, WalkDone, Kill, KillDone, Reap, NoChildren, AnotherRound,
         CleanupTimesOut, rest
    <2> QED
      BY <1>2, <2>1, <2>2 DEF CrowdInv
  <1> QED
    BY <1>3, <1>4, <1>5, <1>6, <1>7

-----------------------------------------------------------------------------
\* The observation: what the sandbox does to it.

LEMMA ReadyExternal ==
    breached \in BOOLEAN /\ TableInv /\ StageInv /\ ReadyInv /\ External => ReadyInv'
  <1> SUFFICES ASSUME breached \in BOOLEAN, TableInv, StageInv, ReadyInv, External PROVE ReadyInv'
    OBVIOUS
  <1> USE Names DEF ReadyInv, Found
  <1>0. pc' = pc
    BY ExternalMoves
  <1>1. ASSUME NEW c, NEW p, Birth(c, p) PROVE ReadyInv'
    <2>1. breached' = breached
      BY <1>1 DEF Birth
    <2>2. c = "payload" => state["target"] = "alive" /\ parent'["payload"] = "target"
      BY <1>1 DEF Birth, Gets
    <2>3. c # "payload" => state'["payload"] = state["payload"] /\ parent'["payload"] = parent["payload"]
      BY <1>1 DEF Birth, Change, Gets
    <2>4. c = "payload" => state'["payload"] = "alive" /\ state["payload"] = "unborn"
      BY <1>1 DEF Birth, Change
    <2>5. c = "target" => state'["target"] = "alive" /\ pc = "await pid"
      BY <1>1 DEF Birth, Change
    <2>6. c # "target" => state'["target"] = state["target"]
      BY <1>1 DEF Birth, Change
    <2> QED
      BY <1>0, <2>1, <2>2, <2>3, <2>4, <2>5, <2>6
  <1>2. ASSUME NEW p, Death(p) PROVE ReadyInv'
    <2>1. CASE state[p] = "doomed"
      <3>1. pc \notin Before
        BY <1>2, <2>1 DEF Death, StageInv
      <3> QED
        BY <1>0, <3>1 DEF Before
    <2>2. CASE state[p] # "doomed" /\ pc = "await ready"
      <3>1. breached' /\ p \in {"target", "payload"}
        BY <1>2, <2>2 DEF Death, Perishes, StageInv
      <3>2. state'[p] = "zombie"
        BY <1>2 DEF Death, Change
      <3> QED
        BY <1>0, <2>2, <3>1, <3>2
    <2>3. CASE state[p] # "doomed" /\ pc \in {"start", "await pid", "release"}
      BY <1>2, <2>3 DEF Death, Perishes, StageInv
    <2>4. CASE pc \notin {"start", "await pid", "await ready", "release"}
      BY <1>0, <1>2, <2>4 DEF Death, Change
    <2> QED
      BY <2>1, <2>2, <2>3, <2>4
  <1>3. ASSUME NEW c, Leave(c) PROVE ReadyInv'
    BY <1>0, <1>3 DEF Leave, Change
  <1> QED
    BY <1>1, <1>2, <1>3, ExternalMoves

LEMMA SeenExternal ==
    /\ breached \in BOOLEAN /\ die \in BOOLEAN /\ TableInv /\ StageInv /\ ReadyInv /\ SeenInv
    /\ External
    => SeenInv'
  <1> SUFFICES ASSUME breached \in BOOLEAN, die \in BOOLEAN, TableInv, StageInv, ReadyInv, SeenInv,
                      External
               PROVE  SeenInv'
    OBVIOUS
  <1> USE Names DEF SeenInv, Found, Before
  <1>0. UNCHANGED <<pc, die, deviation, slow, seen>>
    BY ExternalMoves
  <1>1. ASSUME NEW c, NEW p, Birth(c, p) PROVE SeenInv'
    <2>1. breached' = breached
      BY <1>1 DEF Birth
    <2>2. ASSUME pc \in Found PROVE state'["target"] = state["target"] /\ state'["payload"] = state["payload"]
      BY <1>1, <2>2 DEF Birth, Change, ReadyInv
    <2> QED
      BY <1>0, <2>1, <2>2
  <1>2. ASSUME NEW p, Death(p), pc \in Found PROVE SeenInv'
    <2>1. state[p] # "doomed"
      BY <1>2 DEF Death, StageInv
    <2>2. Perishes(p) /\ state'[p] = "zombie"
          /\ \A q \in Procs \ {p} : state'[q] = state[q]
      BY <1>2, <2>1 DEF Death, Change
    <2>3. pc # "release"
      BY <2>2 DEF Perishes, StageInv
    <2>4. CASE die
      <3>1. breached' = breached /\ deviation # "survives" /\ ~ (deviation = "leaks" /\ p = "payload")
        BY <2>2, <2>3, <2>4, <1>2 DEF Perishes
      <3> QED
        BY <1>0, <2>2, <2>4, <3>1 DEF Perishes
    <2>5. CASE ~ die
      <3>1. breached' = (breached \/ pc \in {"watch", "observe target"}
                                   \/ (pc = "observe payload" /\ p = "payload"))
        BY <2>2, <2>5, <1>2 DEF Perishes
      <3>2. p \in {"target", "payload"}
        BY <2>2 DEF Perishes
      <3>3. CASE breached
        BY <1>0, <2>2, <2>5, <3>1, <3>3
      <3>4. CASE ~ breached /\ breached'
        <4>1. p \notin seen
          BY <3>1, <3>2, <3>4
        <4> QED
          BY <1>0, <2>2, <2>5, <3>2, <3>4, <4>1
      <3>5. CASE ~ breached'
        <4>1. ~ breached /\ pc \notin {"watch", "observe target"}
              /\ (pc = "observe payload" => p = "target")
          BY <3>1, <3>2, <3>5
        <4> QED
          BY <1>0, <2>2, <2>5, <3>2, <3>5, <4>1
      <3> QED
        BY <3>3, <3>4, <3>5
    <2> QED
      BY <2>4, <2>5
  <1>3. ASSUME NEW c, Leave(c) PROVE SeenInv'
    BY <1>0, <1>3 DEF Leave, Change
  <1>4. CASE pc \notin Found
    BY <1>0, <1>4
  <1> QED
    BY <1>1, <1>2, <1>3, <1>4, ExternalMoves

LEMMA OutcomeExternal ==
    breached \in BOOLEAN /\ TableInv /\ StageInv /\ CleanupInv /\ OutcomeInv /\ External
    => OutcomeInv' /\ breached' \in BOOLEAN
  <1> SUFFICES ASSUME breached \in BOOLEAN, TableInv, StageInv, CleanupInv, OutcomeInv, External
               PROVE  OutcomeInv' /\ breached' \in BOOLEAN
    OBVIOUS
  <1>0. UNCHANGED <<pc, slow, outcome>>
    BY ExternalMoves
  <1>1. breached' \in BOOLEAN /\ (breached => breached')
        /\ (pc \notin Before \ {"finally"} => breached' = breached)
    BY ExternalMoves DEF Birth, Death, Perishes, Leave, Before
  <1> QED
    BY <1>0, <1>1, StartedGrows DEF OutcomeInv

-----------------------------------------------------------------------------
\* The observation: what the supervisor makes of it.

ObsInv ==
    /\ die \in BOOLEAN /\ slow \in BOOLEAN /\ breached \in BOOLEAN
    /\ ReadyInv /\ SeenInv /\ OutcomeInv

LEMMA FoundAlive ==
    ASSUME TableInv, StageInv, pc = "await ready", "payload" \in Living \intersect Children("target")
    PROVE  state["target"] = "alive" /\ state["payload"] = "alive"
  BY Names DEF TableInv, StageInv, Living, Children, Before

LEMMA ObsSupervise == TableInv /\ StageInv /\ CleanupInv /\ ObsInv /\ Supervise => ObsInv'
  <1> SUFFICES ASSUME TableInv, StageInv, CleanupInv, ObsInv, Supervise PROVE ObsInv'
    OBVIOUS
  <1>0. Crowded => Crowded'
    BY StartedGrows
  <1> USE <1>0, Names DEF ObsInv, ReadyInv, SeenInv, OutcomeInv, Before, Found, Goto
  <1>1. CASE SpawnLauncher
    <2>1. state'["target"] = "unborn" /\ state'["payload"] = "unborn"
      BY <1>1, SpawnMoves DEF Change, StageInv, SpawnLauncher
    <2> QED
      BY <1>1, <2>1 DEF SpawnLauncher
  <1>2. CASE ReadPid
    BY <1>2 DEF ReadPid, tables
  <1>3. CASE FindPayload
    <2>1. CASE "payload" \in Living \intersect Children("target")
      BY <1>3, <2>1, FoundAlive DEF FindPayload, tables
    <2>2. CASE "payload" \notin Living \intersect Children("target")
      <3>1. breached
        BY <1>3, <2>2 DEF FindPayload, Living, Children
      <3> QED
        BY <1>3, <2>2, <3>1 DEF FindPayload, tables
    <2> QED
      BY <2>1, <2>2
  <1>4. CASE TargetGone
    BY <1>4 DEF TargetGone, tables
  <1>5. CASE GiveUp
    BY <1>5 DEF GiveUp, tables
  <1>6. CASE ReleaseLauncher
    <2>1. state'["target"] = state["target"] /\ state'["payload"] = state["payload"]
      BY <1>6 DEF ReleaseLauncher, TableInv
    <2> QED
      BY <1>6, <2>1 DEF ReleaseLauncher
  <1>7. CASE StopWatching
    <2>1. state["target"] # "unborn" /\ state["payload"] # "unborn"
      BY <1>7 DEF StopWatching, StageInv
    <2>2. die /\ ~ slow /\ deviation \notin {"survives", "leaks"} =>
            state["target"] \in {"zombie", "gone"} /\ state["payload"] \in {"zombie", "gone"}
      <3>1. die /\ ~ slow /\ deviation \notin {"survives", "leaks"} =>
              "target" \notin Living /\ "payload" \notin Living
        BY <1>7 DEF StopWatching
      <3>2. /\ state["target"] \in {"alive", "doomed", "zombie", "gone"}
            /\ state["payload"] \in {"alive", "doomed", "zombie", "gone"}
        BY <2>1 DEF TableInv
      <3> QED
        BY <3>1, <3>2 DEF Living
    <2> QED
      BY <1>7, <2>1, <2>2 DEF StopWatching, tables
  <1>8. CASE ObserveTarget
    BY <1>8 DEF ObserveTarget, Observe, Living, tables
  <1>9. CASE ObservePayload
    BY <1>9 DEF ObservePayload, Observe, Living, tables
  <1>10. CASE Assert
    <2>1. breached' = (breached \/ (die /\ deviation \in {"survives", "leaks"}))
      BY <1>10 DEF Assert
    <2>2. CASE Expected
      <3>1. ~ breached'
        BY <1>10, <2>1, <2>2 DEF Assert, Expected
      <3> QED
        BY <1>10, <2>2, <3>1 DEF Assert
    <2>3. CASE ~ Expected
      <3>1. slow \/ breached'
        BY <1>10, <2>1, <2>3 DEF Assert, Expected
      <3>2. breached' \in BOOLEAN
        BY <2>1
      <3> QED
        BY <1>10, <2>3, <3>1, <3>2 DEF Assert
    <2> QED
      BY <2>2, <2>3
  <1>11. CASE FindTooMany
    <2>1. Crowded
      BY <1>11, ManyCrowd DEF FindTooMany
    <2> QED
      BY <1>11, <2>1 DEF FindTooMany, tables
  <1> QED
    BY <1>1, <1>2, <1>3, <1>4, <1>5, <1>6, <1>7, <1>8, <1>9, <1>10, <1>11 DEF Supervise

LEMMA ObsCleanup == TableInv /\ StageInv /\ CleanupInv /\ ObsInv /\ Cleanup => ObsInv'
  <1> SUFFICES ASSUME TableInv, StageInv, CleanupInv, ObsInv, Cleanup PROVE ObsInv'
    OBVIOUS
  <1>1. /\ pc \notin Before \ {"finally"} /\ pc' \notin Before
        /\ UNCHANGED <<die, slow, breached, outcome>>
    BY DEF Cleanup, KillLauncher, Walk, WalkTooMany, WalkDone, Kill, KillDone, Reap, NoChildren,
           AnotherRound, CleanupTimesOut, Goto, Before
  <1>2. Crowded => Crowded'
    BY StartedGrows
  <1> QED
    BY <1>1, <1>2 DEF ObsInv, ReadyInv, SeenInv, OutcomeInv, Before, Found

-----------------------------------------------------------------------------
LifetimeInv == TreeInv /\ StageInv /\ CleanupInv /\ CrowdInv /\ ObsInv

LEMMA LifetimeInit == Init => LifetimeInv
  <1> SUFFICES ASSUME Init PROVE LifetimeInv
    OBVIOUS
  <1> USE Names, LifetimeAssumption DEF Init
  <1>1. TableInv
    BY DEF TableInv
  <1>2. NoLoop
    BY DEF NoLoop
  <1>3. StageInv
    BY DEF StageInv, Before, After, Found
  <1>4. CleanupInv
    BY DEF CleanupInv
  <1>5. ObsInv
    BY DEF ObsInv, ReadyInv, SeenInv, OutcomeInv, Before, Found
  <1>6. CrowdInv
    BY DEF CrowdInv
  <1> QED
    BY <1>1, <1>2, <1>3, <1>4, <1>5, <1>6 DEF LifetimeInv, TreeInv

LEMMA LifetimeStep == LifetimeInv /\ [Next]_vars => LifetimeInv'
  <1> SUFFICES ASSUME LifetimeInv, [Next]_vars PROVE LifetimeInv'
    OBVIOUS
  <1>0. TreeInv /\ TableInv /\ StageInv /\ CleanupInv /\ CrowdInv /\ ObsInv
    BY DEF LifetimeInv, TreeInv
  <1>1. CASE External
    <2>1. TreeInv' /\ StageInv' /\ CleanupInv'
      BY <1>0, <1>1, TreeExternal, StageExternal, CleanupExternal
    <2>2. ReadyInv' /\ SeenInv' /\ OutcomeInv' /\ breached' \in BOOLEAN
      BY <1>0, <1>1, ReadyExternal, SeenExternal, OutcomeExternal DEF ObsInv
    <2>3. die' = die /\ slow' = slow /\ CrowdInv'
      BY <1>0, <1>1, ExternalMoves, CrowdStep
    <2> QED
      BY <1>0, <2>1, <2>2, <2>3 DEF LifetimeInv, ObsInv
  <1>2. CASE Supervise
    BY <1>0, <1>2, TreeSupervise, StageSupervise, CleanupSupervise, CrowdStep,
       ObsSupervise DEF LifetimeInv
  <1>3. CASE Cleanup
    BY <1>0, <1>3, TreeCleanup, StageCleanup, CleanupCleanup, CrowdStep, ObsCleanup DEF LifetimeInv
  <1>4. CASE UNCHANGED vars
    <2>1. /\ die' = die /\ deviation' = deviation /\ slow' = slow /\ pc' = pc /\ state' = state
          /\ parent' = parent /\ pending' = pending /\ found' = found /\ statuses' = statuses
          /\ seen' = seen /\ outcome' = outcome /\ cleanup' = cleanup /\ breached' = breached
      BY <1>4 DEF vars
    <2>2. TreeInv' /\ StageInv' /\ CleanupInv'
      BY <1>0, <2>1 DEF TreeInv, TableInv, NoLoop, StageInv, CleanupInv
    <2>3. CrowdInv' /\ (Crowded => Crowded')
      BY <1>0, <2>1 DEF CrowdInv, Crowded, Started
    <2>4. ReadyInv' /\ SeenInv'
      BY <1>0, <2>1 DEF ObsInv, ReadyInv, SeenInv
    <2>5. OutcomeInv'
      BY <1>0, <2>1, <2>3 DEF ObsInv, OutcomeInv
    <2>6. die' \in BOOLEAN /\ slow' \in BOOLEAN /\ breached' \in BOOLEAN
      BY <1>0, <2>1 DEF ObsInv
    <2> QED
      BY <2>2, <2>3, <2>4, <2>5, <2>6 DEF LifetimeInv, ObsInv
  <1> QED
    BY <1>1, <1>2, <1>3, <1>4 DEF Next, Finished

LEMMA LifetimeAlways == Spec => []LifetimeInv
  BY LifetimeInit, LifetimeStep, PTL DEF Spec

\* The types of ParentLifetime.tla, for any processes the sandbox forks: the parent of a
\* process is alive, and the supervisor never takes itself for a descendant to be killed
\* (parent_lifetime_scenarios.py:60).
THEOREM LifetimeTypes == Spec => []TypeOK
  <1>1. LifetimeInv => TypeOK
    BY DEF LifetimeInv, TreeInv, TableInv, StageInv, CleanupInv, TypeOK, Before, After
  <1> QED
    BY LifetimeAlways, <1>1, PTL

\* parent_lifetime_scenarios.py:56-74: when the cleanup returns, every process is dead and
\* reaped, however many were forked and in whatever order they were adopted: whoever
\* were left would descend from the supervisor, which has no child.
THEOREM NothingIsLeft == Spec => []NothingLeft
  <1>1. LifetimeInv => NothingLeft
    BY DEF LifetimeInv, CleanupInv, NothingLeft
  <1> QED
    BY LifetimeAlways, <1>1, PTL

\* parent_lifetime_scenarios.py:126-127: the supervisor is the one that reaps the target.
THEOREM StatusIsKnown == Spec => []StatusKnown
  <1>1. LifetimeInv => StatusKnown
    BY DEF LifetimeInv, CleanupInv, StatusKnown
  <1> QED
    BY LifetimeAlways, <1>1, PTL

\* parent_lifetime_scenarios.py:107-117: the observation succeeds only if the target kept its
\* promise.  A prompt target that keeps it is blamed neither by the observation nor by the
\* cleanup while it has started fewer processes than a walk takes for a runaway tree (line 39),
\* unless one of them outlives SIGKILL by the five seconds of the cleanup (line 73).
THEOREM ObservationIsSound == Spec => []ObservationSound
  <1>1. LifetimeInv => ObservationSound
    BY DEF LifetimeInv, CleanupInv, CrowdInv, ObsInv, OutcomeInv, ObservationSound
  <1> QED
    BY LifetimeAlways, <1>1, PTL
=============================================================================
