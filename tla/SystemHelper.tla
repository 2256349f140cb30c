---------------------------- MODULE SystemHelper ----------------------------
(***************************************************************************)
(* ci/system_helper.py: provisioning of the disposable CI machine (start), *)
(* the authorization probe, the privileged test cases (run_case) and the   *)
(* always-run cleanup (stop).  The machine is one record; start and stop   *)
(* are programs, sequences of operations; they can fail or be killed       *)
(* before, in the middle of and after each.  Cases run in processes of     *)
(* their own, serialised by an flock on case.lock; a case run.py gave up   *)
(* on is an orphan, because the unprivileged runner cannot signal the root *)
(* process behind sudo.                                                    *)
(***************************************************************************)
EXTENDS Naturals, Sequences, FiniteSets

CONSTANTS
    Procs,       \* case processes of one machine
    MaxStarts,   \* bound on provisioning rounds
    Faults       \* what may go wrong besides a failing command: "crash" (start, stop and
                 \* cases may be killed, or meet an OSError, at any operation), "orphan"
                 \* (run.py may time out on a case)

WRITER == "bb-flatpak-writer"
READER == "bb-flatpak-reader"
Users == {WRITER, READER}
CONFIG == "installations.d/blackbox-ci.conf"
BUS_POLICY == "org.freedesktop.Flatpak.Blackbox.conf"
POLKIT_POLICY == "org.freedesktop.Flatpak.policy"
RULES == "00-flatpak-blackbox.rules"

ASSUME HelperAssumption ==
    /\ MaxStarts \in Nat \ {0}
    /\ Faults \subseteq {"crash", "orphan"}
    /\ "probe" \notin Procs /\ "none" \notin Procs

VARIABLES
    m,          \* the machine, with the contents of system-helper-state
    before,     \* history: the machine before provisioning
    faults,     \* what may go wrong in this behaviour
    cut,        \* history: the exposed operations that were cut short
    phase,      \* what the CI job is doing
    step,       \* index of the next operation of start or stop
    starts,     \* provisioning rounds begun
    pc,         \* [Procs -> where a case process is]
    orphan,     \* case processes run.py has abandoned
    lock,       \* [round -> holder of that state directory's case.lock]
    round       \* [Procs -> provisioning round whose lock file the process opened]

vars == <<m, before, faults, cut, phase, step, starts, pc, orphan, lock, round>>

-----------------------------------------------------------------------------
\* The machine before provisioning: Flatpak may be installed or not, and with it the
\* directories of its configuration; `dirs' are the paths whose parent directory exists.
Pristine(policy, account) ==
    [files |-> {},
     dirs |-> IF policy = "none" THEN {} ELSE {CONFIG, BUS_POLICY, POLKIT_POLICY, RULES},
     policy |-> policy, users |-> {}, account |-> account,
     installation |-> "absent", helper |-> FALSE,
     state |-> FALSE, lists |-> {}, createdFiles |-> {}, createdUsers |-> {}, marks |-> {},
     saved |-> "none", pid |-> "none"]

Op(op, arg) == [op |-> op, arg |-> arg]

\* start(): everything after the checks for a fresh machine; install() creates a file and
\* then records it, a user is recorded before it is added.
StartProgram ==
    <<Op("mkdir state", ""),
      Op("record user", WRITER), Op("useradd", WRITER),
      Op("record user", READER), Op("useradd", READER),
      Op("sysusers", ""), Op("mark account", ""),
      Op("mkdir installation", ""), Op("mark", "installation-created"),
      Op("create", CONFIG), Op("record", CONFIG),
      Op("create", BUS_POLICY), Op("record", BUS_POLICY),
      Op("save policy", ""), Op("unlink policy", ""),
      Op("create", POLKIT_POLICY), Op("record", POLKIT_POLICY),
      Op("create", RULES), Op("record", RULES),
      Op("reload", ""), Op("spawn", ""), Op("write pid", ""), Op("await name", "")>>

\* Mutant: the original policy is put back only at the very end, after the
\* directory that holds the copy is gone.
RestoreLate ==
    <<Op("kill", ""), Op("unlink recorded", ""), Op("reload", ""),
      Op("rmtree installation", ""), Op("userdel", ""), Op("userdel account", ""),
      Op("rmtree state", ""), Op("restore policy", "")>>

\* stop(): everything after the test for the state directory.
StopProgram ==
    <<Op("kill", ""), Op("unlink recorded", ""), Op("restore policy", ""), Op("reload", ""),
      Op("rmtree installation", ""), Op("userdel", ""), Op("userdel account", ""),
      Op("rmtree state", "")>>

\* Mutant: records a directory the cleanup would refuse.
RecordsParent(h, path) == [h EXCEPT !.createdFiles = @ \union {"parent directory"}]

\* install(): the path goes to created-files.
recordFile(h, path) == [h EXCEPT !.createdFiles = @ \union {path}]

\* Mutant: only the writer is recorded.
WriterOnly(h, user) ==
    [h EXCEPT !.createdUsers = IF user = WRITER THEN @ \union {user} ELSE @]

\* The account goes to created-users.
recordUser(h, user) == [h EXCEPT !.createdUsers = @ \union {user}]

\* stop() unlinks what created-files names, or the part `gone' of it.
Unlinked(h, gone) ==
    [h EXCEPT !.files = @ \ gone, !.policy = IF POLKIT_POLICY \in gone THEN "none" ELSE @]

\* What one operation does to the machine; `busy' tells whether a case runs
\* processes as the test users, which makes userdel fail (its status is ignored).
Effect(o, h, busy) ==
    CASE o.op = "mkdir state"   ->
            [h EXCEPT !.state = TRUE, !.lists = {"created-files", "created-users"}]
      [] o.op = "record user"   -> recordUser(h, o.arg)
      [] o.op = "useradd"       -> [h EXCEPT !.users = @ \union {o.arg}]
      [] o.op = "sysusers"      -> IF h.account = "none" THEN [h EXCEPT !.account = "new"] ELSE h
      [] o.op = "mark account"  ->
            IF h.account = "new" THEN [h EXCEPT !.marks = @ \union {"helper-user-created"}] ELSE h
      [] o.op = "mkdir installation" -> [h EXCEPT !.installation = "clean"]
      [] o.op = "mark"          -> [h EXCEPT !.marks = @ \union {o.arg}]
      [] o.op = "create"        ->
            IF o.arg = POLKIT_POLICY
            THEN [h EXCEPT !.dirs = @ \union {o.arg}, !.policy = "test"]
            ELSE [h EXCEPT !.dirs = @ \union {o.arg}, !.files = @ \union {o.arg}]
      [] o.op = "record"        -> recordFile(h, o.arg)
      [] o.op = "save policy"   -> [h EXCEPT !.saved = h.policy]
      [] o.op = "unlink policy" -> [h EXCEPT !.policy = "none"]
      [] o.op = "spawn"         -> [h EXCEPT !.helper = TRUE]
      [] o.op = "write pid"     -> [h EXCEPT !.pid = "written"]
      [] o.op = "kill"          -> IF h.pid = "written" THEN [h EXCEPT !.helper = FALSE] ELSE h
      [] o.op = "unlink recorded" -> Unlinked(h, h.createdFiles)
      [] o.op = "restore policy" -> IF h.saved # "none" THEN [h EXCEPT !.policy = h.saved] ELSE h
      [] o.op = "rmtree installation" ->
            IF "installation-created" \in h.marks THEN [h EXCEPT !.installation = "absent"] ELSE h
      [] o.op = "userdel"       -> [h EXCEPT !.users = IF busy THEN @ ELSE @ \ h.createdUsers]
      [] o.op = "userdel account" ->
            IF "helper-user-created" \in h.marks THEN [h EXCEPT !.account = "none"] ELSE h
      [] o.op = "rmtree state"  ->
            [h EXCEPT !.state = FALSE, !.lists = {}, !.createdFiles = {}, !.createdUsers = {},
                      !.marks = {}, !.saved = "none", !.pid = "none"]
      [] OTHER                  -> h

\* What is left of the state directory when these of its entries are.
Remains(h, left) ==
    [h EXCEPT !.lists = left.lists, !.marks = left.marks, !.saved = left.saved, !.pid = left.pid,
              !.createdFiles = IF "created-files" \in left.lists THEN @ ELSE {},
              !.createdUsers = IF "created-users" \in left.lists THEN @ ELSE {}]

\* rmtree removes a directory entry by entry, in no order the code decides.
PartlyRemoved(h) ==
    {Remains(h, left) : left \in [lists : SUBSET h.lists, marks : SUBSET h.marks,
                                  saved : {h.saved, "none"}, pid : {h.pid, "none"}]}

\* The machines an operation may leave that raises or is killed.  copy2 and write_text
\* truncate a file before they fill it; a command may have done its work all the same.
CutShort(o, h, busy) ==
    {h} \union
    CASE o.op = "mkdir state"  ->
            {[h EXCEPT !.state = TRUE, !.lists = lists] : lists \in {{}, {"created-files"}}}
      [] o.op \in {"useradd", "sysusers", "kill", "userdel account"} -> {Effect(o, h, busy)}
      [] o.op = "create"       -> {[h EXCEPT !.dirs = @ \union {o.arg}]}
      [] o.op = "save policy" /\ h.policy # "none"   -> {[h EXCEPT !.saved = "torn"]}
      [] o.op = "write pid"    -> {[h EXCEPT !.pid = "empty"]}
      [] o.op = "unlink recorded" -> {Unlinked(h, gone) : gone \in SUBSET h.createdFiles}
      [] o.op = "restore policy" /\ h.saved # "none" -> {[h EXCEPT !.policy = "torn"]}
      [] o.op = "userdel" /\ ~ busy ->
            {[h EXCEPT !.users = @ \ gone] : gone \in SUBSET h.createdUsers}
      [] o.op = "rmtree state" -> PartlyRemoved(h)
      [] OTHER                 -> {}

\* stop() finds an empty pid file, a list that is not there, or no directory where
\* rmtree is told to remove one.
MustRaise(o, h) ==
    \/ o.op = "kill" /\ h.pid = "empty"
    \/ o.op = "unlink recorded" /\ "created-files" \notin h.lists
    \/ o.op = "rmtree installation" /\ "installation-created" \in h.marks
                                    /\ h.installation = "absent"
    \/ o.op = "userdel" /\ "created-users" \notin h.lists

\* Operations that may raise without an OSError: external commands and bus calls (userdel
\* by its time limit), the helper that does not come up or, once its pid is known, does
\* not stop.
CanRaise(o, h) ==
    \/ o.op \in {"useradd", "reload", "spawn", "await name", "userdel"}
    \/ o.op = "sysusers" /\ h.account = "none"
    \/ o.op = "kill" /\ h.pid = "written"
    \/ o.op = "userdel account" /\ "helper-user-created" \in h.marks
    \/ MustRaise(o, h)

\* The operations that stop() cannot make up for when they are cut short: between these
\* and the operation before them something exists that is not on record (a file, the
\* installation, the helper), or they destroy a record.
Exposed == {"record", "mark", "write pid", "save policy", "rmtree state"}

-----------------------------------------------------------------------------
Active(p) == pc[p] \notin {"idle", "ended"}
Busy == \E p \in Procs : pc[p] = "scenario"

Init ==
    /\ before \in {Pristine(policy, account) :
                     policy \in {"none", "original"}, account \in {"none", "present"}}
    /\ m = before /\ faults \in SUBSET Faults /\ cut = {}
    /\ phase = "fresh" /\ step = 1 /\ starts = 0
    /\ pc = [p \in Procs |-> "idle"]
    /\ orphan = {}
    /\ lock = [g \in 1..MaxStarts |-> "none"]
    /\ round = [p \in Procs |-> 0]

procVars == <<pc, orphan, lock, round>>

\* start(): refuses anything a previous round may have left behind.
Start ==
    /\ phase \in {"fresh", "stopped"} /\ starts < MaxStarts
    /\ ~ m.state /\ m.installation = "absent" /\ m.files = {} /\ m.users = {} /\ ~ m.helper
    /\ phase' = "start" /\ step' = 1 /\ starts' = starts + 1
    /\ UNCHANGED <<m, before, faults, cut, procVars>>

StartStep ==
    /\ phase = "start"
    /\ m' = Effect(StartProgram[step], m, Busy)
    /\ step' = step + 1
    /\ phase' = IF step = Len(StartProgram) THEN "probe" ELSE "start"
    /\ UNCHANGED <<before, faults, cut, starts, procVars>>

\* A command fails; one that adds accounts may have done so all the same.
StartRaises ==
    /\ phase = "start" /\ CanRaise(StartProgram[step], m)
    /\ m' \in CutShort(StartProgram[step], m, Busy)
    /\ phase' = "failed"
    /\ UNCHANGED <<before, faults, cut, step, starts, procVars>>

\* probe(): the writer leaves its remote and app in the installation.
Probe ==
    /\ phase = "probe"
    /\ m' = [m EXCEPT !.installation = "probe"]
    /\ phase' \in {"run", "failed"}
    /\ UNCHANGED <<before, faults, cut, step, starts, procVars>>

\* The run step of the job ends when run.py waits for no case.
RunEnds ==
    /\ phase = "run"
    /\ \A p \in Procs : Active(p) => p \in orphan
    /\ phase' = "failed"
    /\ UNCHANGED <<m, before, faults, cut, step, starts, procVars>>

\* stop(): run with `if: always()' whenever the state directory exists.
Stop ==
    /\ phase = "failed" /\ m.state
    /\ phase' = "stop" /\ step' = 1
    /\ UNCHANGED <<m, before, faults, cut, starts, procVars>>

StopStep ==
    /\ phase = "stop" /\ ~ MustRaise(StopProgram[step], m)
    /\ m' = Effect(StopProgram[step], m, Busy)
    /\ step' = step + 1
    /\ phase' = IF step = Len(StopProgram) THEN "stopped" ELSE "stop"
    /\ UNCHANGED <<before, faults, cut, starts, procVars>>

StopRaises ==
    /\ phase = "stop" /\ CanRaise(StopProgram[step], m)
    /\ m' \in CutShort(StopProgram[step], m, Busy)
    /\ phase' = "stuck"
    /\ UNCHANGED <<before, faults, cut, step, starts, procVars>>

\* Somebody runs the cleanup again after it failed.
StopAgain ==
    /\ phase = "stuck" /\ m.state
    /\ phase' = "stop" /\ step' = 1
    /\ UNCHANGED <<m, before, faults, cut, starts, procVars>>

\* start() or stop() is killed or meets an OSError at an operation; without a state
\* directory there is nothing for stop() to do.
CrashMain ==
    /\ "crash" \in faults /\ phase \in {"start", "stop"}
    /\ LET o == (IF phase = "start" THEN StartProgram ELSE StopProgram)[step]
       IN  m' \in CutShort(o, m, Busy) /\ cut' = cut \union ({o.op} \intersect Exposed)
    /\ phase' = IF m'.state THEN "failed" ELSE "stopped"
    /\ UNCHANGED <<before, faults, step, starts, procVars>>

-----------------------------------------------------------------------------
\* run_case, one process per case; run.py starts the next one when it has seen
\* the previous one end or has given up on it.
CaseVars(p, at) == pc' = [pc EXCEPT ![p] = at]
mainVars == <<before, faults, cut, phase, step, starts>>

StartCase(p) ==
    /\ phase = "run" /\ pc[p] = "idle"
    /\ \A q \in Procs : Active(q) => q \in orphan
    /\ m.pid = "written" /\ m.helper
    /\ CaseVars(p, "lock") /\ round' = [round EXCEPT ![p] = starts]
    /\ UNCHANGED <<m, mainVars, orphan, lock>>

TakeLock(p) ==
    /\ pc[p] = "lock" /\ lock[round[p]] = "none"
    /\ lock' = [lock EXCEPT ![round[p]] = p]
    /\ CaseVars(p, "reset")
    /\ UNCHANGED <<m, mainVars, orphan, round>>

\* Mutant: no reset before the scenario.
SkipReset(p) ==
    /\ pc[p] = "reset" /\ m.installation # "absent"
    /\ CaseVars(p, "scenario")
    /\ UNCHANGED <<m, mainVars, orphan, lock, round>>

\* rmtree before the scenario and in the finally block after it.
Remove(p) ==
    /\ pc[p] \in {"reset", "restore"} /\ m.installation # "absent"
    /\ m' = [m EXCEPT !.installation = "absent"]
    /\ CaseVars(p, IF pc[p] = "reset" THEN "mkdir" ELSE "mkdir again")
    /\ UNCHANGED <<mainVars, orphan, lock, round>>

\* The installation is not there, or mkdir finds another one: the process ends
\* with a traceback and its lock file is closed.
CaseRaises(p) ==
    /\ \/ pc[p] \in {"reset", "restore"} /\ m.installation = "absent"
       \/ pc[p] \in {"mkdir", "mkdir again"} /\ m.installation # "absent"
    /\ CaseVars(p, "ended") /\ lock' = [lock EXCEPT ![round[p]] = "none"]
    /\ UNCHANGED <<m, mainVars, orphan, round>>

Recreate(p) ==
    /\ pc[p] \in {"mkdir", "mkdir again"} /\ m.installation = "absent"
    /\ m' = [m EXCEPT !.installation = "clean"]
    /\ IF pc[p] = "mkdir"
       THEN CaseVars(p, "scenario") /\ UNCHANGED lock
       ELSE CaseVars(p, "ended") /\ lock' = [lock EXCEPT ![round[p]] = "none"]
    /\ UNCHANGED <<mainVars, orphan, round>>

\* One public operation of the scenario as the writer; it needs the helper.
Operate(p) ==
    /\ pc[p] = "scenario" /\ m.helper /\ m.installation # "absent"
    /\ m' = [m EXCEPT !.installation = p]
    /\ UNCHANGED <<mainVars, procVars>>

\* The scenario ends, by its last assertion or by an exception.
ScenarioEnds(p) ==
    /\ pc[p] = "scenario"
    /\ CaseVars(p, "restore")
    /\ UNCHANGED <<m, mainVars, orphan, lock, round>>

\* execute() in run.py times out; killpg on the sudo process is refused.
GiveUp(p) ==
    /\ "orphan" \in faults /\ phase = "run" /\ Active(p) /\ p \notin orphan
    /\ orphan' = orphan \union {p}
    /\ UNCHANGED <<m, mainVars, pc, lock, round>>

\* A case is killed, or one of its own file operations raises.
CrashCase(p) ==
    /\ "crash" \in faults /\ Active(p)
    /\ CaseVars(p, "ended")
    /\ lock' = [g \in DOMAIN lock |-> IF lock[g] = p THEN "none" ELSE lock[g]]
    /\ UNCHANGED <<m, mainVars, orphan, round>>

Finished ==
    /\ phase \in {"fresh", "stopped", "stuck"} \/ (phase = "failed" /\ ~ m.state)
    /\ \A p \in Procs : ~ Active(p)
    /\ UNCHANGED vars

MainStep ==
    \/ Start \/ StartStep \/ StartRaises \/ Probe \/ RunEnds
    \/ Stop \/ StopStep \/ StopRaises \/ StopAgain

CaseStep(p) ==
    \/ StartCase(p) \/ TakeLock(p) \/ Remove(p) \/ CaseRaises(p) \/ Recreate(p)
    \/ Operate(p) \/ ScenarioEnds(p)

Next ==
    \/ MainStep \/ CrashMain
    \/ \E p \in Procs : CaseStep(p) \/ GiveUp(p) \/ CrashCase(p)
    \/ Finished

Spec == Init /\ [][Next]_vars

-----------------------------------------------------------------------------
MachineType ==
    [files : SUBSET {CONFIG, BUS_POLICY, RULES},
     dirs : SUBSET {CONFIG, BUS_POLICY, POLKIT_POLICY, RULES},
     policy : {"none", "original", "test", "torn"},
     users : SUBSET Users, account : {"none", "present", "new"},
     installation : {"absent", "clean", "probe"} \union Procs, helper : BOOLEAN,
     state : BOOLEAN, lists : SUBSET {"created-files", "created-users"},
     createdFiles : SUBSET {CONFIG, BUS_POLICY, POLKIT_POLICY, RULES},
     createdUsers : SUBSET Users,
     marks : SUBSET {"helper-user-created", "installation-created"},
     saved : {"none", "original", "test", "torn"}, pid : {"none", "empty", "written"}]

\* The types: only paths and users that stop() accepts are ever recorded
\* (ci/system_helper.py:199-211).
TypeOK ==
    /\ m \in MachineType /\ before \in MachineType /\ faults \subseteq Faults
    /\ cut \subseteq Exposed
    /\ phase \in {"fresh", "start", "probe", "run", "failed", "stop", "stuck", "stopped"}
    /\ step \in 1..(Len(StartProgram) + 1) /\ starts \in 0..MaxStarts
    /\ pc \in [Procs -> {"idle", "lock", "reset", "mkdir", "scenario", "restore",
                         "mkdir again", "ended"}]
    /\ orphan \subseteq Procs
    /\ lock \in [1..MaxStarts -> Procs \union {"none"}]
    /\ round \in [Procs -> 0..MaxStarts]

\* docs/ci.md: "Always-run cleanup stops it, removes test users and the
\* installation, and restores any previous polkit action policy."  A cleanup
\* that reports success leaves the machine as it was before provisioning.
\* (Left out: the service account of the helper, which systemd-sysusers may add
\* and yet fail, and the parent directories install() makes, which nothing removes.)
MachineRestored ==
    phase = "stopped" =>
        [m EXCEPT !.account = before.account, !.dirs = before.dirs] = before

\* ci/system_helper.py:61-134, 180-215: MachineRestored whatever commands fail and wherever
\* start() and stop() are killed or meet an OSError, in several rounds, unless run.py
\* abandons a case or one of the exposed operations is the one cut short.
StopRestores == "orphan" \notin faults /\ cut = {} => MachineRestored

\* ci/system_helper.py:104-107, 199-205: the original polkit policy is not lost.  Until a
\* successful cleanup is over it is in place, or whole in the state directory, unless the
\* copy that saves it or the removal of the directory that holds it was cut short: stop()
\* then puts a truncated copy over the original, or removes it with no copy left.
PolicyKept ==
    before.policy = "original" /\ cut \intersect {"save policy", "rmtree state"} = {} =>
        m.policy = "original" \/ m.saved = "original"

\* Cases do not meet each other: while a case is between its reset and its
\* restore, no other case is, and what it finds there is its own or nothing (a
\* cleanup that overtakes an orphan removes the directory).  With abandoned cases this
\* is claimed of the first provisioning only, the machine being disposable: the lock
\* file of a second one is not the one an abandoned case of the first waits for.
CaseClean ==
    "orphan" \notin faults \/ starts = 1 => \A p \in Procs :
        pc[p] = "scenario" =>
            /\ m.installation \in {"clean", "absent", p}
            /\ \A q \in Procs \ {p} : pc[q] \in {"idle", "lock", "ended"}
=============================================================================
