------------------------------- MODULE Runner -------------------------------
(***************************************************************************)
(* main() of run.py: preflight, the loop over drivers and cases, the       *)
(* per-case resources (state directory, session bus, repository server),   *)
(* the two layers of exception handling, the cleanup blocks, the report    *)
(* saved along the way, the job summary, and the exit status.              *)
(*                                                                         *)
(* Exceptions are classes: the five the code catches and "uncaught", which *)
(* stands for everything the `except' tuples leave out (KeyboardInterrupt, *)
(* AssertionError, RuntimeError, subprocess.TimeoutExpired ...).  The      *)
(* inventory order is left open: any case of the current driver that the   *)
(* loop has not visited may be next.  SIGKILL (a cancelled job) may strike *)
(* between two steps.                                                      *)
(***************************************************************************)
EXTENDS Coverage

CONSTANTS
    ScenarioOf,        \* [Cases -> scenario names]
    Sensitive,         \* cases whose behavior_id is security sensitive
    Definition,        \* the fingerprint of the suite as loaded
    Drift,             \* a fingerprint the suite's files may change to
    HandlerEvidence    \* evidence lists (as sets) a case may record

VARIABLES
    pc,            \* where main() is
    args,          \* driver, scenario, allow_expected_failures, GITHUB_STEP_SUMMARY set
    kind,          \* driver of the current loop iteration
    tried,         \* drivers the loop has finished with
    clientError,   \* exception class stored by the client build, or "none"
    todo,          \* cases of this driver the loop has still to visit
    strays,        \* cases whose bus or server survived the rollback of its __enter__
    cur,           \* the case being executed
    raised,        \* exception in flight: "none" or a class
    closing,       \* what the cleanup steps raised last: "none", "error", "uncaught"
    status,        \* [Cases -> result["status"]]
    cleanup,       \* [Cases -> SUBSET {"complete", "error"}]
    evidence,      \* [Cases -> evidence recorded]
    dirs,          \* cases whose temporary state directory exists
    buses,         \* cases whose private session bus runs, owned by the ExitStack
    servers,       \* cases whose repository server listens, owned by the ExitStack
    provenance,    \* attribution blocks written into the report
    setupError,    \* "setup_error" in report
    code,          \* the local `status' of main(): 0 or 1
    final,         \* complete, integrity, verification of the in-memory report
    disk,          \* report.json as last saved, or NoReport
    job,           \* of the CI job: "report" summary appended, delivery "marker" saved,
                   \* "fallback" summary appended, always-run summary step "done"
    exit,          \* "running", "zero", "one", "traceback", "killed"
    returned,      \* history: cases whose handler returned
    asserted,      \* history: cases whose handler raised a ContractFailure
    cut,           \* history: cases left by an uncaught exception
    accounted      \* history: the suite's fingerprint at the final accounting

caseVars == <<cur, raised, closing, dirs, buses, servers>>
reportVars == <<status, cleanup, evidence, provenance, setupError, final>>
loopVars == <<args, kind, tried, clientError, todo, strays>>
endVars == <<code, disk, job, exit>>
history == <<returned, asserted, cut, accounted>>
vars == <<pc, caseVars, reportVars, loopVars, endVars, history>>

NoReport == [state |-> "absent"]
NoCase == "no case"

-----------------------------------------------------------------------------
\* Mutant: a status the report schema does not know.
UnknownStatus(e) ==
    IF e = "prerequisite" THEN "unmet" ELSE IF e = "contract" THEN "failed" ELSE "setup-error"

\* failure_status, and the tuples of the two `except' clauses.
FailureStatus(e) ==
    CASE e = "diagnostic"   -> "setup-error"
      [] e = "prerequisite" -> "unmet-prerequisite"
      [] e = "unsupported"  -> "unsupported"
      [] e = "contract"     -> "failed"
      [] OTHER              -> "setup-error"

Caught == {"diagnostic", "prerequisite", "unsupported", "contract", "other"}
Raisable == Caught \union {"uncaught"}

\* The classes each step can raise.  execute() raises PrerequisiteError or, on
\* a timeout, DiagnosticFailure; require() on the version query raises
\* ContractFailure; otherwise only handlers assert contracts.
MayRaise ==
    [target  |-> {"other", "uncaught"},
     probe   |-> {"contract", "diagnostic", "prerequisite", "other", "uncaught"},
     build   |-> {"other", "uncaught"},
     root    |-> {"other", "uncaught"},
     adapter |-> {"diagnostic", "prerequisite", "other", "uncaught"},
     bus     |-> {"prerequisite", "other", "uncaught"},
     serve   |-> {"other", "uncaught"},
     handler |-> Raisable,
     undo    |-> {"other", "uncaught"}]

Pending == {c \in Cases : status[c] = "pending"}
PendingOf(k) == {c \in Pending : DriverOf[c] = k}
Drivers == IF args.driver = "all" THEN {"cli", "library"} ELSE {args.driver}

Result(c) ==
    [case |-> c, status |-> status[c], evidence |-> evidence[c], cleanup |-> cleanup[c]]

Report(f) ==
    [state |-> "saved", definition |-> Definition, complete |-> f.complete,
     provenance |-> provenance, integrity |-> f.integrity,
     setup_error |-> setupError, verification |-> f.verification,
     results |-> [c \in Cases |-> Result(c)]]

Unfinished == [complete |-> FALSE, integrity |-> "unchecked", verification |-> "none"]

-----------------------------------------------------------------------------
Selected(a, c) ==
    /\ a.driver \in {"all", DriverOf[c]}
    /\ a.scenario \in {"all", ScenarioOf[c]}

Init ==
    /\ pc = "open"
    /\ args \in [driver : {"all", "cli", "library"},
                 scenario : {"all"} \union {ScenarioOf[c] : c \in Cases},
                 allow : BOOLEAN, actions : BOOLEAN]
    /\ kind = "none" /\ tried = {} /\ clientError = "none"
    /\ cur = NoCase /\ raised = "none" /\ closing = "none"
    /\ status = [c \in Cases |-> IF Selected(args, c) THEN "pending" ELSE "not-selected"]
    /\ cleanup = [c \in Cases |-> {}]
    /\ evidence = [c \in Cases |-> {}]
    /\ dirs = {} /\ buses = {} /\ servers = {}
    /\ provenance = {} /\ setupError = FALSE
    /\ code = 0 /\ final = Unfinished /\ disk = NoReport
    /\ job = {}
    /\ exit = "running"
    /\ todo = {} /\ strays = {}
    /\ returned = {} /\ asserted = {} /\ cut = {} /\ accounted = NoDefinition

\* The first write of report.json.
Open ==
    /\ pc = "open" /\ exit = "running"
    /\ disk' = Report(Unfinished)
    /\ pc' = "target"
    /\ UNCHANGED <<caseVars, reportVars, loopVars, code, job, exit, history>>

-----------------------------------------------------------------------------
\* Preflight.  An exception outside a case goes to the outer `except' clause
\* when it is of a caught class and straight to the outer `finally' otherwise.
Escape(e) == pc' = IF e = "uncaught" THEN "final" ELSE "outer"

PreflightRaises(e) ==
    /\ pc \in {"target", "probe", "build"} /\ exit = "running"
    /\ e \in MayRaise[pc]
    /\ raised' = e /\ Escape(e)
    /\ UNCHANGED <<cur, closing, dirs, buses, servers, reportVars, loopVars, endVars, history>>

\* The target is loaded; selected cases it declares unsupported, or that need
\* a system profile this runner cannot provide, are decided here.
LoadTarget(declared) ==
    /\ pc = "target" /\ exit = "running"
    /\ status' = [c \in Cases |-> IF c \in declared \cap Pending THEN "unsupported"
                                  ELSE status[c]]
    /\ code' = IF declared \cap Pending # {} THEN 1 ELSE code
    /\ IF Pending \subseteq declared
       THEN raised' = "unsupported" /\ pc' = "outer"
       ELSE raised' = raised /\ pc' = "probe"
    /\ UNCHANGED <<cur, closing, dirs, buses, servers, cleanup, evidence, provenance,
                   setupError, final, loopVars, disk, job, exit, history>>

\* Fixture checksums, program identities, version and architecture queries.
ProbeTarget ==
    /\ pc = "probe" /\ exit = "running"
    /\ provenance' = provenance \union Attribution
    /\ pc' = "drivers"
    /\ UNCHANGED <<caseVars, status, cleanup, evidence, setupError, final, loopVars,
                   endVars, history>>

\* The next driver that still has a pending case; "cli" comes first.
NextDriver(k) ==
    /\ pc = "drivers" /\ exit = "running"
    /\ k \in Drivers \ tried
    /\ k = "library" => "cli" \notin Drivers \ tried \/ PendingOf("cli") = {}
    /\ PendingOf(k) # {}
    /\ kind' = k /\ clientError' = "none"
    /\ tried' = tried \union {k} \union {"cli"}
    /\ todo' = {c \in Cases : DriverOf[c] = k}
    /\ pc' = IF k = "library" THEN "build" ELSE "cases"
    /\ UNCHANGED <<args, strays, caseVars, reportVars, endVars, history>>

NoMoreDrivers ==
    /\ pc = "drivers" /\ exit = "running"
    /\ \A k \in Drivers \ tried : PendingOf(k) = {}
    /\ pc' = "final"
    /\ UNCHANGED <<caseVars, reportVars, loopVars, endVars, history>>

\* build_client: its own failures are kept for every library case, with a
\* ContractFailure turned into a ValueError because no scenario has run.
BuildClient ==
    /\ pc = "build" /\ exit = "running"
    /\ provenance' = provenance \union {"library"}
    /\ pc' = "cases"
    /\ UNCHANGED <<loopVars, caseVars, status, cleanup, evidence, setupError, final, endVars,
                   history>>

BuildClientFails(e) ==
    /\ pc = "build" /\ exit = "running"
    /\ clientError' = e
    /\ pc' = "cases"
    /\ UNCHANGED <<args, kind, tried, todo, strays, caseVars, reportVars, endVars, history>>

-----------------------------------------------------------------------------
\* One pass over the inventory for the current driver: a case is visited once,
\* and passed over when it is decided already.
Visit(c) ==
    /\ pc = "cases" /\ exit = "running"
    /\ c \in todo \cap Pending
    /\ todo' = todo \ {c}
    /\ UNCHANGED <<args, kind, tried, clientError, strays>>

CaseWithoutClient(c) ==
    /\ Visit(c) /\ clientError # "none"
    /\ status' = [status EXCEPT ![c] = FailureStatus(clientError)]
    /\ code' = 1 /\ pc' = "announce"
    /\ UNCHANGED <<caseVars, cleanup, evidence, provenance, setupError, final,
                   disk, job, exit, history>>

CaseWithoutApis(c) ==
    /\ Visit(c) /\ kind = "library" /\ clientError = "none"
    /\ status' = [status EXCEPT ![c] = "unsupported"]
    /\ code' = 1 /\ pc' = "announce"
    /\ UNCHANGED <<caseVars, cleanup, evidence, provenance, setupError, final,
                   disk, job, exit, history>>

StartCase(c) ==
    /\ Visit(c) /\ clientError = "none"
    /\ cur' = c /\ raised' = "none" /\ closing' = "none"
    /\ pc' = "root"
    /\ UNCHANGED <<dirs, buses, servers, reportVars, endVars, history>>

CasesDone ==
    /\ pc = "cases" /\ exit = "running"
    /\ todo \cap Pending = {}
    /\ pc' = "drivers"
    /\ UNCHANGED <<caseVars, reportVars, loopVars, endVars, history>>

-----------------------------------------------------------------------------
\* One case: mkdtemp, adapter, session_bus, serving, handler.
CaseStep(from, to) == pc = from /\ exit = "running" /\ pc' = to

MakeRoot ==
    /\ CaseStep("root", "adapter")
    /\ dirs' = dirs \union {cur}
    /\ UNCHANGED <<cur, raised, closing, buses, servers, reportVars, loopVars, endVars, history>>

RunAdapter ==
    /\ CaseStep("adapter", "bus")
    /\ UNCHANGED <<caseVars, reportVars, loopVars, endVars, history>>

EnterBus ==
    /\ CaseStep("bus", "serve")
    /\ buses' = buses \union {cur}
    /\ UNCHANGED <<cur, raised, closing, dirs, servers, reportVars, loopVars, endVars, history>>

EnterServing ==
    /\ CaseStep("serve", "handler")
    /\ servers' = servers \union {cur}
    /\ UNCHANGED <<cur, raised, closing, dirs, buses, reportVars, loopVars, endVars, history>>

HandlerReturns(ev) ==
    /\ CaseStep("handler", "close-server")
    /\ evidence' = [evidence EXCEPT ![cur] = ev]
    /\ status' = [status EXCEPT ![cur] = "passed"]
    /\ returned' = returned \union {cur}
    /\ UNCHANGED <<caseVars, cleanup, provenance, setupError, final, loopVars, endVars,
                   asserted, cut, accounted>>

\* The except clause of the case.  The policy reads the evidence of passing
\* results only, so what a failing case recorded is left out.
Handled(e) ==
    /\ IF e = "uncaught"
       THEN /\ raised' = e /\ cut' = cut \union {cur}
            /\ UNCHANGED <<status, code>>
       ELSE /\ status' = [status EXCEPT ![cur] = FailureStatus(e)]
            /\ code' = 1
            /\ UNCHANGED <<raised, cut>>
    /\ pc' = "close-server"
    /\ UNCHANGED <<cur, closing, dirs, buses, servers, cleanup, evidence, provenance,
                   setupError, final, disk, job, exit, returned, accounted>>

CaseRaises(e) ==
    /\ pc \in {"root", "adapter", "bus", "serve", "handler"} /\ exit = "running"
    /\ e \in MayRaise[pc]
    /\ asserted' = IF e = "contract" THEN asserted \union {cur} ELSE asserted
    /\ Handled(e)
    /\ UNCHANGED loopVars

\* A context that fails inside __enter__ rolls itself back, and the rollback may
\* fail too: its exception replaces the first one, and what it could not stop
\* belongs to no ExitStack.
RollbackFails(e) ==
    /\ pc \in {"bus", "serve"} /\ exit = "running"
    /\ e \in MayRaise.undo
    /\ strays' = strays \union {cur}
    /\ Handled(e)
    /\ UNCHANGED <<args, kind, tried, clientError, todo, asserted>>

-----------------------------------------------------------------------------
\* The finally block.  ExitStack closes server then bus whatever the other
\* raises, and the state directory is removed in a nested finally; a later
\* exception replaces an earlier one.  A failed step leaves its resource behind.
Outcome(held, left, r) ==
    /\ r # "ok" => cur \in held
    /\ closing' = IF r = "ok" THEN closing ELSE r
    /\ left = IF r = "ok" THEN held \ {cur} ELSE held

CloseServer(r) ==
    /\ CaseStep("close-server", "close-bus")
    /\ Outcome(servers, servers', r)
    /\ UNCHANGED <<cur, raised, dirs, buses, reportVars, loopVars, endVars, history>>

CloseBus(r) ==
    /\ CaseStep("close-bus", "remove")
    /\ Outcome(buses, buses', r)
    /\ UNCHANGED <<cur, raised, dirs, servers, reportVars, loopVars, endVars, history>>

RemoveRoot(r) ==
    /\ CaseStep("remove", "verdict")
    /\ Outcome(dirs, dirs', r)
    /\ UNCHANGED <<cur, raised, buses, servers, reportVars, loopVars, endVars, history>>

\* Mutant: a cleanup error is logged but the result keeps its status.
CleanupErrorIgnored ==
    /\ pc = "verdict" /\ exit = "running"
    /\ IF closing # "uncaught"
       THEN /\ cleanup' = [cleanup EXCEPT ![cur] = {"complete"}]
            /\ pc' = "save" /\ UNCHANGED <<raised, cut>>
       ELSE /\ raised' = "uncaught" /\ cut' = cut \union {cur}
            /\ pc' = "final" /\ UNCHANGED cleanup
    /\ UNCHANGED <<cur, closing, dirs, buses, servers, status, evidence, provenance, setupError,
                   final, loopVars, endVars, returned, asserted, accounted>>

\* cleanup_complete, or setup-error with the cleanup error; an uncaught
\* exception of the cleanup skips the save.
CleanupVerdict ==
    /\ pc = "verdict" /\ exit = "running"
    /\ CASE closing = "none" ->
              /\ cleanup' = [cleanup EXCEPT ![cur] = {"complete"}]
              /\ pc' = "save" /\ UNCHANGED <<status, code, raised, cut>>
         [] closing = "error" ->
              /\ cleanup' = [cleanup EXCEPT ![cur] = {"error"}]
              /\ status' = [status EXCEPT ![cur] = "setup-error"]
              /\ code' = 1
              /\ pc' = "save" /\ UNCHANGED <<raised, cut>>
         [] closing = "uncaught" ->
              /\ raised' = "uncaught" /\ cut' = cut \union {cur}
              /\ pc' = "final" /\ UNCHANGED <<status, code, cleanup>>
    /\ UNCHANGED <<cur, closing, dirs, buses, servers, evidence, provenance, setupError, final,
                   loopVars, disk, job, exit, returned, asserted, accounted>>

\* write_json inside the finally block: it runs even while an uncaught
\* exception is in flight, and its own OSError replaces that exception.
SaveCase ==
    /\ pc = "save" /\ exit = "running"
    /\ disk' = Report(final)
    /\ pc' = IF raised = "uncaught" THEN "final" ELSE "announce"
    /\ UNCHANGED <<caseVars, reportVars, loopVars, code, job, exit, history>>

\* console.case_finished.
Announce ==
    /\ pc = "announce" /\ exit = "running"
    /\ pc' = "cases"
    /\ UNCHANGED <<caseVars, reportVars, loopVars, endVars, history>>

ReportingRaises(e) ==
    /\ pc \in {"save", "announce"} /\ exit = "running"
    /\ raised' = e /\ Escape(e)
    /\ UNCHANGED <<cur, closing, dirs, buses, servers, reportVars, loopVars, endVars, history>>

-----------------------------------------------------------------------------
\* Mutant: the setup error is written over every selected case.
EveryCaseBlamed(decided) ==
    /\ pc = "outer" /\ exit = "running"
    /\ setupError' = TRUE
    /\ status' = [c \in Cases |-> IF status[c] # "not-selected" THEN FailureStatus(raised)
                                  ELSE status[c]]
    /\ raised' = "none" /\ code' = 1
    /\ pc' = "final"
    /\ UNCHANGED <<cur, closing, dirs, buses, servers, cleanup, evidence, provenance, final,
                   loopVars, disk, job, exit, history>>

\* The outer except clause decides every pending case, announcing each one;
\* an announcement that fails leaves the rest pending.
OuterExcept(decided) ==
    /\ pc = "outer" /\ exit = "running"
    /\ setupError' = TRUE
    /\ decided \subseteq Pending
    /\ status' = [c \in Cases |-> IF c \in decided THEN FailureStatus(raised) ELSE status[c]]
    /\ \/ decided = Pending /\ raised' = "none" /\ code' = 1
       \/ decided # {} /\ raised' = "uncaught" /\ code' = code
    /\ pc' = "final"
    /\ UNCHANGED <<cur, closing, dirs, buses, servers, cleanup, evidence, provenance, final,
                   loopVars, disk, job, exit, history>>

\* The outer finally block: completeness, artifact integrity, accounting.
Finish(integrity, now) ==
    /\ pc = "final" /\ exit = "running"
    /\ LET f == [complete |-> Pending = {}, integrity |-> integrity, verification |-> "none"]
           v == Verification(Report(f), Definition, now)
       IN  /\ final' = [f EXCEPT !.verification = v]
           /\ code' = IF integrity # "verified" \/ v # "current" THEN 1 ELSE code
    /\ accounted' = now
    /\ pc' = "write"
    /\ UNCHANGED <<caseVars, status, cleanup, evidence, provenance, setupError, loopVars,
                   disk, job, exit, returned, asserted, cut>>

WriteReport ==
    /\ pc = "write" /\ exit = "running"
    /\ disk' = Report(final)
    /\ IF raised = "uncaught" THEN exit' = "traceback" /\ UNCHANGED pc
                              ELSE pc' = "summary" /\ UNCHANGED exit
    /\ UNCHANGED <<caseVars, reportVars, loopVars, code, job, history>>

\* An exception in the first write, inside the outer finally, or in the console
\* summary after it, leaves main() with a traceback.
FinishRaises ==
    /\ pc \in {"open", "final", "write", "summary"} /\ exit = "running"
    /\ exit' = "traceback"
    /\ UNCHANGED <<pc, caseVars, reportVars, loopVars, code, disk, job, history>>

\* The Actions job summary: the append, then the delivery marker.
Deliver ==
    /\ pc = "summary" /\ exit = "running" /\ args.actions
    /\ job' = job \union {"report", "marker"}
    /\ pc' = "gate"
    /\ UNCHANGED <<caseVars, reportVars, loopVars, code, disk, exit, history>>

\* Mutant: the marker is saved although the append failed.
MarkedAnyway(appended) ==
    /\ pc = "summary" /\ exit = "running" /\ args.actions
    /\ job' = job \union {"marker"}
    /\ code' = 1
    /\ pc' = "gate"
    /\ UNCHANGED <<caseVars, reportVars, loopVars, disk, exit, history>>

\* The append fails, or it succeeds and writing the marker fails.
DeliverFails(appended) ==
    /\ pc = "summary" /\ exit = "running" /\ args.actions
    /\ job' = job \union appended
    /\ code' = 1
    /\ pc' = "gate"
    /\ UNCHANGED <<caseVars, reportVars, loopVars, disk, exit, history>>

NothingToDeliver ==
    /\ pc = "summary" /\ exit = "running" /\ ~ args.actions
    /\ pc' = "gate"
    /\ UNCHANGED <<caseVars, reportVars, loopVars, endVars, history>>

\* Mutant: ignores how preflight failed the cases.
SetupErrorAllowed ==
    /\ code = 1
    /\ "marker" \in job \/ ~ args.actions
    /\ final.complete
    /\ \E c \in Cases : status[c] = "failed"
    /\ \A c \in Sensitive : status[c] # "failed"
    /\ \A c \in Cases : status[c] \in {"passed", "failed", "not-selected"}
    /\ final.integrity = "verified" /\ final.verification = "current"

\* expected_scenario_failures_only.
ExpectedFailuresOnly ==
    /\ code = 1
    /\ "marker" \in job \/ ~ args.actions
    /\ final.complete /\ ~ setupError
    /\ \E c \in Cases : status[c] = "failed"
    /\ \A c \in Sensitive : status[c] # "failed"
    /\ \A c \in Cases : status[c] \in {"passed", "failed", "not-selected"}
    /\ final.integrity = "verified" /\ final.verification = "current"

Return ==
    /\ pc = "gate" /\ exit = "running"
    /\ exit' = IF code = 0 \/ (args.allow /\ ExpectedFailuresOnly) THEN "zero" ELSE "one"
    /\ UNCHANGED <<pc, caseVars, reportVars, loopVars, code, disk, job, history>>

-----------------------------------------------------------------------------
\* The job is cancelled or the runner killed between two steps.
Kill ==
    /\ exit = "running"
    /\ exit' = "killed"
    /\ UNCHANGED <<pc, caseVars, reportVars, loopVars, code, disk, job, history>>

\* The always-run `compatibility.sh summary' step of the same CI job.
SummaryFallback ==
    /\ exit # "running" /\ args.actions /\ "done" \notin job
    /\ job' = job \union (IF "marker" \in job THEN {"done"} ELSE {"done", "fallback"})
    /\ UNCHANGED <<pc, caseVars, reportVars, loopVars, code, disk, exit, history>>

Done ==
    /\ exit # "running" /\ (args.actions => "done" \in job)
    /\ UNCHANGED vars

PreflightStep ==
    \/ Open
    \/ \E e \in Raisable : PreflightRaises(e)
    \/ \E declared \in SUBSET Cases : LoadTarget(declared)
    \/ ProbeTarget
    \/ \E k \in {"cli", "library"} : NextDriver(k)
    \/ NoMoreDrivers
    \/ BuildClient
    \/ \E e \in {"prerequisite", "other"} : BuildClientFails(e)

CaseSetup ==
    \/ \E c \in Cases : CaseWithoutClient(c) \/ CaseWithoutApis(c) \/ StartCase(c)
    \/ CasesDone
    \/ MakeRoot \/ RunAdapter \/ EnterBus \/ EnterServing
    \/ \E ev \in HandlerEvidence : HandlerReturns(ev)
    \/ \E e \in Raisable : CaseRaises(e) \/ RollbackFails(e)

CaseCleanup ==
    \/ \E r \in {"ok", "error", "uncaught"} : CloseServer(r) \/ CloseBus(r) \/ RemoveRoot(r)
    \/ CleanupVerdict \/ SaveCase \/ Announce
    \/ \E e \in {"other", "uncaught"} : ReportingRaises(e)

Finalise ==
    \/ \E decided \in SUBSET Cases : OuterExcept(decided)
    \/ \E i \in {"verified", "changed"}, now \in {Definition, Drift} : Finish(i, now)
    \/ WriteReport \/ FinishRaises
    \/ Deliver \/ \E appended \in {{}, {"report"}} : DeliverFails(appended)
    \/ NothingToDeliver \/ Return

RunnerStep == PreflightStep \/ CaseSetup \/ CaseCleanup \/ Finalise

Next == RunnerStep \/ Kill \/ SummaryFallback \/ Done

Spec == Init /\ [][Next]_vars

-----------------------------------------------------------------------------
ASSUME RunnerAssumption == NoCase \notin Cases

EvidenceRecords == UNION HandlerEvidence

\* The types of main()'s state: the statuses are those of the report schema.
TypeOK ==
    /\ pc \in {"open", "target", "probe", "drivers", "build", "cases", "root", "adapter",
              "bus", "serve", "handler", "close-server", "close-bus", "remove", "verdict",
              "save", "announce", "outer", "final", "write", "summary", "gate"}
    /\ args \in [driver : {"all", "cli", "library"}, allow : BOOLEAN, actions : BOOLEAN,
                 scenario : {"all"} \union {ScenarioOf[c] : c \in Cases}]
    /\ kind \in {"none", "cli", "library"} /\ tried \subseteq {"cli", "library"}
    /\ clientError \in {"none", "prerequisite", "other"}
    /\ todo \subseteq Cases /\ strays \subseteq Cases
    /\ cur \in Cases \union {NoCase}
    /\ raised \in Raisable \union {"none"}
    /\ closing \in {"none", "error", "uncaught"}
    /\ status \in [Cases -> Statuses \union {"pending"}]
    /\ cleanup \in [Cases -> {{}, {"complete"}, {"error"}}]
    /\ evidence \in [Cases -> SUBSET EvidenceRecords]
    /\ dirs \subseteq Cases /\ buses \subseteq Cases /\ servers \subseteq Cases
    /\ provenance \subseteq Attribution \union {"library"}
    /\ setupError \in BOOLEAN /\ code \in {0, 1}
    /\ final \in [complete : BOOLEAN, integrity : {"unchecked", "verified", "changed"},
                  verification : {"none", "unversioned", "stale", "incomplete", "invalid",
                                  "current"}]
    /\ job \subseteq {"report", "marker", "fallback", "done"}
    /\ exit \in {"running", "zero", "one", "traceback", "killed"}
    /\ returned \subseteq Cases /\ asserted \subseteq Cases /\ cut \subseteq Cases
    /\ accounted \in {NoDefinition, Definition, Drift}

\* What is left of a case: owned by its ExitStack, or escaped from it.
Owned == dirs \union buses \union servers
Resources == Owned \union strays

\* coverage_report.py would credit this report now.
Credited(report) ==
    report.state = "saved" /\ Verification(report, Definition, Definition) = "current"

\* COVERAGE.md: passing evidence means the case passed, including cleanup, in
\* a complete, verified run.  Whenever coverage_report.py would credit the
\* report.json now on disk (at any instant, also after a kill), each passed
\* case ran its handler to the end, recorded evidence at its own interface and
\* has released its state directory, its bus and its server.
CreditSound ==
    Credited(disk) =>
        \A c \in Cases : disk.results[c].status = "passed" =>
            /\ c \in returned \ cut
            /\ c \notin Resources
            /\ \E e \in disk.results[c].evidence : e.interface = DriverOf[c]

\* A zero exit status: every selected case passed with its cleanup confirmed
\* or, under --allow-expected-failures only, failed by an assertion of a
\* handler that really ran and is not security sensitive; the suite was at the
\* final accounting what it was when the run loaded it (run.py:880); the saved
\* report is the complete current one and, in CI, its summary was delivered.
ExitZeroSound ==
    exit = "zero" =>
        /\ \A c \in Cases :
              Selected(args, c) =>
                 \/ status[c] = "passed" /\ c \in returned /\ cleanup[c] = {"complete"}
                 \/ args.allow /\ c \in asserted \ Sensitive /\ status[c] = "failed"
        /\ accounted = Definition
        /\ Credited(disk) /\ disk.verification = "current"
        /\ args.actions => {"report", "marker"} \subseteq job

\* Cases are isolated: while a handler runs, nothing of another case is still
\* alive unless that case is reported as a set-up error, of its cleanup or of
\* the context whose rollback failed; a confirmed cleanup has left nothing but
\* what such a rollback could not stop.
Isolated ==
    pc = "handler" =>
        \A c \in Cases \ {cur} :
            c \in Resources =>
                status[c] = "setup-error" /\ (cleanup[c] = {"error"} \/ c \in strays)

\* A case decided in a saved report is never decided differently by a later
\* save: neither its cleanup nor the outer except clause rewrites it.
DecidedIsFinal ==
    [][disk.state = "saved" => \A c \in Cases :
          disk.results[c].status # "pending" =>
              disk'.results[c].status = disk.results[c].status]_vars

\* run.py:887-898, ci/compatibility.sh: once the always-run summary step is over, the
\* job shows a summary, the runner's or the fallback, wherever the run was cut off.
SummaryShown == "done" \in job => job \cap {"report", "fallback"} # {}

\* COVERAGE.md, "Interrupted runs or reports with missing evidence cannot earn
\* verified passing credit": no credit once an exception that main() does not
\* handle has cut a case short.
InterruptedEarnsNothing ==
    cut # {} /\ exit # "running" =>
        Credit(disk, Definition, Definition).requirements = {}

-----------------------------------------------------------------------------
\* The invariant behind CreditSound, in named parts.
SetupPcs == {"root", "adapter", "bus", "serve", "handler"}
CleanupPcs == {"close-server", "close-bus", "remove", "verdict"}
LoopPcs == {"open", "target", "probe", "drivers", "build", "cases", "announce"}

Untouched(c) == cleanup[c] = {} /\ c \notin Resources /\ c \notin cut /\ c \notin returned

\* A case still to run has been left alone; the case in hand is undecided until
\* its handler ends, and decided afterwards unless an exception is in flight.
LoopInv ==
    /\ pc \in LoopPcs => \A c \in Cases : status[c] = "pending" => Untouched(c)
    /\ pc \in SetupPcs \union CleanupPcs \union {"save"} =>
          /\ cur \in Cases
          /\ \A c \in Cases \ {cur} : status[c] = "pending" => Untouched(c)
          /\ pc # "save" => cleanup[cur] = {}
          /\ raised # "uncaught" /\ pc \notin SetupPcs => status[cur] # "pending"
    /\ pc \in SetupPcs =>
          status[cur] = "pending" /\ cur \notin cut \union strays /\ raised # "uncaught"
    /\ pc \in CleanupPcs /\ cur \in cut => status[cur] # "passed"

\* A cleanup that has raised nothing has released what it has passed.
ClosingInv ==
    closing = "none" =>
        /\ pc \in {"close-bus", "remove", "verdict"} => cur \notin servers
        /\ pc \in {"remove", "verdict"} => cur \notin buses
        /\ pc = "verdict" => cur \notin dirs

\* What the result records say of the cases.
ResultInv ==
    \A c \in Cases :
        /\ cleanup[c] = {"complete"} => c \notin Owned
        /\ status[c] = "passed" => c \in returned /\ c \notin strays
        /\ c \in cut /\ cleanup[c] = {"complete"} => status[c] # "passed"

\* A saved passing result is the one in memory.
DiskInv ==
    disk.state = "saved" =>
        /\ DOMAIN disk.results = Cases
        /\ \A c \in Cases :
              /\ disk.results[c].case = c
              /\ disk.results[c].status = "passed" /\ disk.results[c].cleanup = {"complete"} =>
                    status[c] = "passed" /\ cleanup[c] = {"complete"}

CreditInv == TypeOK /\ LoopInv /\ ClosingInv /\ ResultInv /\ DiskInv

=============================================================================
