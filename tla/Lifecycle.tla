------------------------------ MODULE Lifecycle ------------------------------
(***************************************************************************)
(* run.py: the lifecycle scenarios (scenario), the driver that runs one    *)
(* public command at a time and judges its outcome (Driver), and the       *)
(* repository server, whose handler threads read the published version and *)
(* the injected failure while the main thread changes them.                *)
(*                                                                         *)
(* A scenario is a program: a sequence of commands, each with what run.py  *)
(* requires of it and the exception it raises otherwise, and of assignments *)
(* to the repository.  The Flatpak under test is external: it honours the  *)
(* contract except, possibly, for one named deviation.                     *)
(***************************************************************************)
EXTENDS Naturals, Sequences, FiniteSets

CONSTANTS
    Kinds,         \* drivers: "cli", "library"
    Names,         \* scenario names
    Deviations,    \* the ways the target may break the contract, "none" included
    Payloads,      \* number of payload objects (.filez) of a version
    Late           \* values of `late': may a command end with requests in flight?

Versions == {"A", "B"}
Failing == {"failed-update", "retry-update"}

ASSUME LifecycleAssumption ==
    /\ Kinds \subseteq {"cli", "library"}
    /\ Names \subseteq {"ready-abort", "missing-install", "absent-ref", "noop-update",
                        "repeated-install", "lifecycle"} \union Failing
    /\ Payloads \in Nat \ {0}
    /\ Late \subseteq BOOLEAN

VARIABLES
    kind, name,    \* the case: driver kind and scenario
    deviation,     \* what this target may do wrong
    late,          \* whether its commands may end with requests in flight
    pc,            \* index of the next step of the program
    cmd,           \* the running command, or Idle
    result,        \* outcome of the command that ended and is not judged yet
    app, runtime,  \* what the target has installed
    version, failPayloads, requests,   \* RepositoryServer
    retryStart,    \* len(repository.requests) when downloads were restored
    flight,        \* requests the handler threads have not answered yet
    verdict,       \* how the scenario ended
    breached       \* history: the target broke its contract

repository == <<version, failPayloads>>
vars == <<kind, name, deviation, late, pc, cmd, result, app, runtime, repository,
          requests, retryStart, flight, verdict, breached>>

-----------------------------------------------------------------------------
\* Programs.

\* A command, what is required of its outcome, and the exception otherwise.
Command(op, ref, need, raises) == [op |-> op, ref |-> ref, need |-> need, raises |-> raises]

setup_success(op, ref) == Command(op, ref, "success", "setup-error")
success(op, ref) == Command(op, ref, "success", "failed")
expect_error(op, ref, error) == Command(op, ref, error, "failed")
query(ref, commit) == Command("query", ref, commit, "failed")

\* Mutant: downloads are never restored.
NeverUnblocks(what) ==
    Command(IF what = "unblock" THEN "publish B" ELSE what, "repository", "nothing", "failed")

Assign(what) == Command(what, "repository", "nothing", "failed")

assert_installed_version(v) ==
    <<query("app", v), query("runtime", "R"), Command("run", "app", v, "failed")>>

\* What is required once the fixture is installed at A.
AfterInstall(k, n) ==
    CASE n = "absent-ref" ->
            <<expect_error("query", "missing", "NOT_INSTALLED")>>
              \o assert_installed_version("A")
              \o <<expect_error("uninstall", "missing", "NOT_INSTALLED")>>
              \o assert_installed_version("A")
      [] n = "noop-update" -> <<success("update", "app")>> \o assert_installed_version("A")
      [] n = "repeated-install" ->
            <<Assign("publish B"),
              IF k = "library" THEN expect_error("install", "app", "ALREADY_INSTALLED")
                               ELSE Command("install", "app", "warned", "failed")>>
              \o assert_installed_version("A")
      [] n \in Failing ->
            <<Assign("publish B"), Assign("block"),
              Command("update", "app", "blocked download", "failed")>>
              \o assert_installed_version("A")
              \o (IF n = "failed-update" THEN <<>>
                  ELSE <<Assign("unblock"), Assign("mark"),
                         Command("update", "app", "restored download", "failed")>>
                         \o assert_installed_version("B"))
      [] n = "lifecycle" ->
            <<Assign("publish B"), success("update", "app")>>
              \o assert_installed_version("B")
              \o <<success("uninstall", "app"), query("runtime", "R")>>
              \o (IF k = "library" THEN <<expect_error("query", "app", "NOT_INSTALLED")>>
                  ELSE <<Command("query", "app", "failure", "failed"),
                         Command("list-apps", "all", "empty", "failed")>>)

scenario(k, n) ==
    IF n = "ready-abort"
    THEN <<setup_success("remote", "url"),
           Command("install-abort-ready", "app", "aborted", "failed"),
           Command("list-refs", "all", "empty", "failed"),
           Command("install", "app", "accepted", "failed")>>
           \o assert_installed_version("A")
    ELSE IF n = "missing-install"
    THEN <<setup_success("remote", "url"),
           expect_error("install", "missing", "REF_NOT_FOUND"),
           Command("list-refs", "all", "empty", "failed")>>
    ELSE <<setup_success("remote", "url"), setup_success("install", "app")>>
           \o assert_installed_version("A") \o AfterInstall(k, n)

Step == scenario(kind, name)[pc]
Over == pc > Len(scenario(kind, name))

-----------------------------------------------------------------------------
\* The repository and its handler threads.

Summary == <<"summary", 0>>
Filez(v) == {<<v, i>> : i \in 1..Payloads}
Paths == {Summary} \union Filez("A") \union Filez("B")
IsPayload(path) == path # Summary

Idle == [running |-> FALSE, sent |-> {}, got |-> {}, denied |-> {}, seen |-> "none"]
Running == cmd.running

\* A thread begins do_GET: it chooses the directory by the published version.
ReadDirectory ==
    \E f \in flight :
        /\ f.at = "accepted"
        /\ flight' = (flight \ {f}) \union {[f EXCEPT !.at = "directory", !.dir = version]}
        /\ UNCHANGED <<kind, name, deviation, late, pc, cmd, result, app, runtime, repository,
                       requests, retryStart, verdict, breached>>

\* It decides whether to inject the failure.
ReadFailure ==
    \E f \in flight :
        /\ f.at = "directory"
        /\ flight' = (flight \ {f}) \union
              {[f EXCEPT !.at = IF failPayloads /\ IsPayload(f.path) THEN "blocked" ELSE "open"]}
        /\ UNCHANGED <<kind, name, deviation, late, pc, cmd, result, app, runtime, repository,
                       requests, retryStart, verdict, breached>>

\* It appends the evidence, reading the version a second time, and answers:
\* 503, the file, or 404 when the directory does not hold it.  The answer
\* reaches the command only while that command runs.
RecordAndReply ==
    \E f \in flight :
        /\ f.at \in {"blocked", "open"}
        /\ requests' = Append(requests, [path |-> f.path, version |-> version,
                                         blocked |-> (f.at = "blocked"), step |-> f.step])
        /\ flight' = flight \ {f}
        /\ IF Running /\ f.step = pc
           THEN cmd' = IF f.at = "open" /\ f.path \in {Summary} \union Filez(f.dir)
                       THEN [cmd EXCEPT !.got = @ \union {f.path},
                                        !.seen = IF f.path = Summary THEN f.dir ELSE @]
                       ELSE [cmd EXCEPT !.denied = @ \union {f.path}]
           ELSE UNCHANGED cmd
        /\ UNCHANGED <<kind, name, deviation, late, pc, result, app, runtime, repository,
                       retryStart, verdict, breached>>

do_GET == ReadDirectory \/ ReadFailure \/ RecordAndReply

-----------------------------------------------------------------------------
\* The target (external): what a command may ask of the repository, and the
\* outcomes it may end with.

NoResult == [status |-> "none", out |-> "", ready |-> 0, began |-> FALSE,
             app |-> "none", runtime |-> "none"]

Outcome(status, out, ready, began, a, r) ==
    [status |-> status, out |-> out, ready |-> ready, began |-> began, app |-> a, runtime |-> r]
Same(status, out) == Outcome(status, out, 0, FALSE, app, runtime)

Fetched == Filez(cmd.seen) \subseteq cmd.got
Known == cmd.seen # "none"

\* Outcomes the contract allows now; none while the command needs more.
Conforming ==
    CASE Step.op = "remote" -> {Same("ok", "")}
      [] Step.op = "install" /\ Step.ref = "missing" ->
            IF Known THEN {Same("REF_NOT_FOUND", "")} ELSE {}
      [] Step.op = "install" /\ Step.ref = "app" /\ app # "none" ->
            IF ~Known THEN {}
            ELSE IF kind = "cli" THEN {Same("ok", "already installed")}
            ELSE {Same("ALREADY_INSTALLED", "")}
      [] Step.op = "install" /\ Step.ref = "app" /\ app = "none" ->
            IF Known /\ Fetched THEN {Outcome("ok", "", 1, TRUE, cmd.seen, "R")} ELSE {}
      [] Step.op = "install-abort-ready" ->
            IF Known THEN {Outcome("error", "", 1, FALSE, app, runtime)} ELSE {}
      [] Step.op = "update" ->
            IF ~Known THEN {}
            ELSE IF cmd.seen = app THEN {Same("ok", "")}
            ELSE IF Fetched THEN {Outcome("ok", "", 1, TRUE, cmd.seen, runtime)}
            ELSE IF cmd.denied # {} THEN {Same("error", "")}
            ELSE {}
      [] Step.op = "uninstall" ->
            IF Step.ref = "missing" \/ app = "none" THEN {Same("NOT_INSTALLED", "")}
            ELSE {Outcome("ok", "", 1, TRUE, "none", runtime)}
      [] Step.op = "query" ->
            IF Step.ref = "missing" THEN {Same("NOT_INSTALLED", "")}
            ELSE LET v == IF Step.ref = "app" THEN app ELSE runtime
                 IN IF v # "none" THEN {Same("ok", v)}
                    ELSE {Same("NOT_INSTALLED", "")} \union
                         (IF kind = "cli" THEN {Same("error", "")} ELSE {})
      [] Step.op = "run" -> IF app = "none" THEN {Same("error", "")} ELSE {Same("ok", app)}
      [] Step.op = "list-refs" ->
            {Same("ok", IF app = "none" /\ runtime = "none" THEN "" ELSE "refs")}
      [] Step.op = "list-apps" -> {Same("ok", IF app = "none" THEN "" ELSE "refs")}

\* Outcomes of the named deviation.
Deviant ==
    CASE deviation = "fails" /\ ~\E f \in flight : f.step = pc -> {Same("error", "")}
      [] deviation = "partial update" /\ Step.op = "update" /\ cmd.denied # {} ->
            {Outcome("error", "", 1, TRUE, cmd.seen, runtime)}
      [] deviation = "silent failure" /\ Step.op = "update" /\ cmd.denied # {} ->
            {Same("ok", "")}
      [] deviation = "eager install" /\ Step.op = "install" /\ Step.ref = "app"
            /\ app # "none" /\ Known -> {[o EXCEPT !.app = cmd.seen] : o \in Conforming}
      [] deviation = "over-removal" /\ Step.op = "uninstall" /\ app # "none" ->
            {Outcome("ok", "", 1, TRUE, "none", "none")}
      [] deviation = "kept" /\ Step.op = "uninstall" /\ app # "none" -> {Same("ok", "")}
      [] deviation = "ready ignored" /\ Step.op = "install-abort-ready" /\ Known ->
            {Outcome("error", "", 1, TRUE, app, runtime), Outcome("error", "", 2, FALSE, app, runtime),
             Outcome("error", "", 0, FALSE, app, runtime), Outcome("ok", "", 1, FALSE, app, runtime),
             Outcome("error", "", 1, FALSE, cmd.seen, "R")}
      [] deviation = "wrong error" /\ Step.ref = "missing" -> {Same("error", ""), Same("ok", "")}
      [] deviation = "stray ref" /\ Step.op = "install" /\ Step.ref = "missing" ->
            {Outcome("REF_NOT_FOUND", "", 0, FALSE, "none", "R")}
      [] deviation = "no fetch" /\ Step.op = "update" /\ Known /\ cmd.seen # app
            /\ cmd.sent = {Summary} /\ name \in Failing /\ ~failPayloads ->
            {Outcome("ok", "", 1, TRUE, cmd.seen, runtime)}
      [] OTHER -> {}

\* The command asks for the summary, then for the objects it lacks, in parallel.
Ask ==
    \E p \in Paths :
        /\ Running /\ p \notin cmd.sent
        /\ \/ p = Summary /\ Step.op \in {"install", "install-abort-ready", "update"}
           \/ /\ Known /\ p \in Filez(cmd.seen)
              /\ Step.op \in {"install", "update"} /\ Step.ref = "app"
              /\ IF Step.op = "install" THEN app = "none" ELSE app # cmd.seen
        /\ cmd' = [cmd EXCEPT !.sent = @ \union {p}]
        /\ flight' = flight \union {[path |-> p, step |-> pc, at |-> "accepted", dir |-> "A"]}
        /\ UNCHANGED <<kind, name, deviation, late, pc, result, app, runtime, repository,
                       requests, retryStart, verdict, breached>>

\* The command ends; unless `late', only once the server answered it.
Finish ==
    /\ Running
    /\ \E o \in Conforming \union Deviant :
        /\ late \/ flight = {}
        /\ result' = o /\ app' = o.app /\ runtime' = o.runtime
        /\ breached' = (breached \/ o \notin Conforming)
        /\ cmd' = Idle
        /\ UNCHANGED <<kind, name, deviation, late, pc, repository, requests, retryStart,
                       flight, verdict>>

-----------------------------------------------------------------------------
\* The driver and the scenario.

\* Driver.call -> execute: the process is started.
Call ==
    /\ verdict = "none" /\ ~Over /\ Step.ref # "repository"
    /\ ~Running /\ result = NoResult
    /\ cmd' = [Idle EXCEPT !.running = TRUE]
    /\ UNCHANGED <<kind, name, deviation, late, pc, result, app, runtime, repository, requests,
                   retryStart, flight, verdict, breached>>

\* Mutant: the mark skips the next request.
MarkPast == Len(requests) + 1

\* Requests recorded before the retry.
RetryMark == Len(requests)

\* The assignments of the main thread to the repository.
Set ==
    /\ verdict = "none" /\ ~Over /\ Step.ref = "repository"
    /\ pc' = pc + 1
    /\ version' = IF Step.op = "publish B" THEN "B" ELSE version
    /\ failPayloads' = CASE Step.op = "block" -> TRUE
                         [] Step.op = "unblock" -> FALSE
                         [] OTHER -> failPayloads
    /\ retryStart' = IF Step.op = "mark" THEN RetryMark ELSE retryStart
    /\ UNCHANGED <<kind, name, deviation, late, cmd, result, app, runtime, requests, flight,
                   verdict, breached>>

\* Mutant: the aborted transaction is judged by its status alone.
StatusOnly(o) ==
    CASE Step.need \in {"success", "accepted", "warned", "restored download"} -> o.status = "ok"
      [] Step.need \in {"failure", "aborted", "blocked download"} -> o.status # "ok"
      [] Step.need = "empty" -> o.status = "ok" /\ o.out = ""
      [] Step.need \in {"A", "B", "R"} -> o.status = "ok" /\ o.out = Step.need
      [] OTHER -> o.status # "ok"

\* Mutant: the summary of B shows that the retry downloaded.
AnyRequest(o) ==
    CASE Step.need = "success" -> o.status = "ok"
      [] Step.need = "failure" -> o.status # "ok"
      [] Step.need = "empty" -> o.status = "ok" /\ o.out = ""
      [] Step.need = "warned" -> o.status = "ok" /\ o.out = "already installed"
      [] Step.need = "aborted" -> o.status # "ok" /\ o.ready = 1 /\ ~o.began
      [] Step.need = "accepted" -> o.status = "ok" /\ o.ready = 1
      [] Step.need = "blocked download" ->
            o.status # "ok" /\ \E i \in 1..Len(requests) : requests[i].blocked
      [] Step.need = "restored download" -> o.status = "ok" /\ Len(requests) > retryStart
      [] Step.need \in {"A", "B", "R"} -> o.status = "ok" /\ o.out = Step.need
      [] OTHER -> o.status = Step.need

\* What the scenario requires of an outcome, with the evidence of the repository.
Required(o) ==
    CASE Step.need = "success" -> o.status = "ok"
      [] Step.need = "failure" -> o.status # "ok"
      [] Step.need = "empty" -> o.status = "ok" /\ o.out = ""
      [] Step.need = "warned" -> o.status = "ok" /\ o.out = "already installed"
      [] Step.need = "aborted" -> o.status # "ok" /\ o.ready = 1 /\ ~o.began
      [] Step.need = "accepted" -> o.status = "ok" /\ o.ready = 1
      [] Step.need = "blocked download" ->
            o.status # "ok" /\ \E i \in 1..Len(requests) : requests[i].blocked
      [] Step.need = "restored download" ->
            /\ o.status = "ok"
            /\ \E i \in (retryStart + 1)..Len(requests) :
                  requests[i].version = "B" /\ IsPayload(requests[i].path) /\ ~requests[i].blocked
      [] Step.need \in {"A", "B", "R"} -> o.status = "ok" /\ o.out = Step.need
      [] OTHER -> o.status = Step.need

\* The process has been waited for: the outcome is judged.
Judge ==
    /\ result # NoResult
    /\ result' = NoResult
    /\ IF Required(result) THEN pc' = pc + 1 /\ UNCHANGED verdict
                           ELSE verdict' = Step.raises /\ UNCHANGED pc
    /\ UNCHANGED <<kind, name, deviation, late, cmd, app, runtime, repository, requests,
                   retryStart, flight, breached>>

\* Mutant: only the library client is given a timeout.
TimeOutLibrary ==
    /\ Running /\ kind = "library"
    /\ cmd' = Idle /\ verdict' = "setup-error"
    /\ UNCHANGED <<kind, name, deviation, late, pc, result, app, runtime, repository, requests,
                   retryStart, flight, breached>>

\* execute(): the command timed out and its process group was killed.
TimeOut ==
    /\ Running
    /\ cmd' = Idle /\ verdict' = "setup-error"
    /\ UNCHANGED <<kind, name, deviation, late, pc, result, app, runtime, repository, requests,
                   retryStart, flight, breached>>

Pass ==
    /\ verdict = "none" /\ Over
    /\ verdict' = "passed"
    /\ UNCHANGED <<kind, name, deviation, late, pc, cmd, result, app, runtime, repository,
                   requests, retryStart, flight, breached>>

\* The case is over.
Done ==
    /\ verdict # "none" /\ flight = {}
    /\ UNCHANGED vars

Init ==
    /\ kind \in Kinds /\ name \in Names /\ deviation \in Deviations /\ late \in Late
    /\ name = "ready-abort" => kind = "library"
    /\ pc = 1 /\ cmd = Idle /\ result = NoResult
    /\ app = "none" /\ runtime = "none"
    /\ version = "A" /\ failPayloads = FALSE /\ requests = <<>> /\ retryStart = 0
    /\ flight = {} /\ verdict = "none" /\ breached = FALSE

Driver == Call \/ Set \/ Judge \/ TimeOut \/ Pass

Next == Driver \/ Ask \/ Finish \/ do_GET \/ Done

Spec == Init /\ [][Next]_vars

\* The main thread goes on and its timeout fires; nothing is assumed of the
\* target or of the server's threads.
FairSpec ==
    /\ Spec
    /\ WF_vars(Call) /\ WF_vars(Set) /\ WF_vars(Judge) /\ WF_vars(TimeOut) /\ WF_vars(Pass)

-----------------------------------------------------------------------------
\* Properties.

\* The types, and: the mark of the retry lies within the recorded requests (run.py:455),
\* and every request in flight belongs to a command that was started.
TypeOK ==
    /\ kind \in Kinds /\ name \in Names
    /\ pc \in 1..(Len(scenario(kind, name)) + 1)
    /\ cmd.sent \subseteq Paths /\ cmd.got \subseteq cmd.sent /\ cmd.denied \subseteq cmd.sent
    /\ app \in {"none"} \union Versions /\ runtime \in {"none", "R"}
    /\ version \in Versions /\ failPayloads \in BOOLEAN
    /\ retryStart \in 0..Len(requests)
    /\ \A f \in flight : f.path \in Paths /\ f.step \in 1..pc
    /\ verdict \in {"none", "passed", "failed", "setup-error"}

\* run.py:381-471: a scenario passes only if the target kept its contract: every
\* deviation, whatever the interleaving with the server's threads, is caught by
\* one of the requirements of the scenario that exercises it.  The one exception is
\* the retry that downloads nothing while a request of the failed update is answered
\* late: the late answer is taken for the retry's (RetryFetched).
PassSound == verdict = "passed" => ~breached \/ (deviation = "no fetch" /\ late)

\* run.py:106-108, 332-339: a target is reported "failed" only if it broke its
\* contract: setup that fails and commands that hang are not blamed on it, and no
\* late request makes a requirement on the repository's evidence fail.
FailSound == verdict = "failed" => breached

\* run.py:453-459: when the retry scenario passes, the retry itself asked for a
\* payload of B and the repository did not refuse it, as long as no request of the
\* failed update is still in flight when that command ends.
RetryFetched ==
    verdict = "passed" /\ name = "retry-update" /\ ~late =>
        \E i \in 1..Len(requests) :
            /\ IsPayload(requests[i].path) /\ ~requests[i].blocked
            /\ scenario(kind, name)[requests[i].step].need = "restored download"

\* run.py:118-150: a scenario always ends, even if the target hangs.
Decided == <>(verdict # "none")
=============================================================================
