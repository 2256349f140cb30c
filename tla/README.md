# Verification of flatpak-blackbox-tests

TLA+ models of the programs in this repository, model-checked with TLC and, for
the results listed under *Proofs*, proved with TLAPS for every value of the
constants. Paths are relative to the repository root.

The repository is a black-box compatibility suite for Flatpak implementations.
What has to be right in it is not Flatpak (which is external here) but the
judgement: a case is reported *passed* only if the target kept its contract and
everything the case used was released; a target is blamed only for what it did;
coverage is credited only for complete, current, attributable runs; a machine
that was provisioned is restored; and the published history keeps the best run
of each day. Almost all of this is decided on paths a test hardly reaches: an
exception in a cleanup, a kill between two writes, a late request, a publication
that overtakes another.

## Inventory

| Component | State it keeps | Operations | Interacts with | What makes it correct |
|---|---|---|---|---|
| Run driver, `run.py: main` | results, saved report, resources of the case, exit status | preflight, case loop, cleanup, final accounting, summary | coverage accounting, scenario handlers, `ci/compatibility.sh` | credit, exit status, isolation, results never rewritten |
| Coverage accounting, `coverage_report.py` | none (function of a report) | `summarize`, `subject_problem`, `invoked_option` | run driver, dashboard | only current, complete, clean, attributed results earn credit |
| Lifecycle scenarios, `run.py: scenario`, `Driver`, `RepositoryServer` | published version, injected failure, recorded requests | commands with requirements; handler threads | target (external), session bus | verdicts are right under every interleaving; scenarios end |
| System helper, `ci/system_helper.py` | files, users, policy, installation, state directory, case lock | `start`, `probe`, `run_case`, `stop` | run driver through `sudo`, polkit, system bus | cleanup restores the machine wherever a run is cut short, bar a few named places; the original policy survives; cases do not meet |
| Coverage history, `compatibility.yml`, `web/scripts`, `web/src/history.ts` | artifacts, `history.json` on the branch and on the site | record, restore, merge, push, deploy | GitHub Actions (external) | best snapshot per day kept, nothing lost, the site shows a state of the branch |
| OCI registry, `oci_registry.py` | images, blobs, serial | `publish`, `response` | OCI clients | what a client was told of is served |
| Parent lifetime, `parent_lifetime_scenarios.py` | process tree below the supervisor | launch, observe, kill, reap | kernel, sandbox (external) | nothing left behind, observation right, supervisor ends |
| Scenario groups, `*_scenarios.py` | fixtures, remotes, installed refs, restrictions, services of the case | one handler per behavior: commands, queries, assignments | driver, servers, target | a breach of the contract is noticed, and only a breach is blamed |
| Private journald, `maintenance_scenarios.py: _journal` | daemon, socket, stored records | start, poll, call, sync, query, terminate | target, kernel | verdict right however late, dead or hung the daemon is; it is always reaped |
| Command execution, `run.py: execute`, `stdin_tty_scenarios.py` | process groups, terminal session | run, time out, kill the group | every scenario | no process outlives its case |
| Catalogue, manifest, schemas | none | parse and cross-check definitions | run driver, accounting | definitions agree with each other |
| Dashboard, `web/src` | none (derived data) | comparison, gaps, budgets, rendering | history | missing evidence is never shown as a result |

`PROJECT.json` lists every component with its status, and under `hazards` the
places in the code where something can go wrong that tests hardly reach, each
with the properties that cover it or the reason none does.

## Modules

| Module | Models | State and actions |
|---|---|---|
| `Coverage` | the reporting policy of `coverage_report.py` | no state: `Verification` is the ladder unversioned / stale / incomplete / invalid / current, `SubjectProblem` the attribution and evidence checks, `Credit` what a current report earns. An option is exercised by itself or as `option=value` |
| `Runner` (extends `Coverage`) | `main()` of `run.py`, and the always-run summary step of `ci/compatibility.sh` | `pc` is the place in `main()`; one action per step, and per step the exception classes it can raise (`MayRaise`). `disk` is `report.json` as last saved, so a kill at any point leaves exactly what is there. `todo` is what one pass over the inventory has still to visit. A context that fails in its `__enter__` rolls itself back, and the rollback may fail too (`RollbackFails`): what it leaves running is a stray that no `ExitStack` owns |
| `Lifecycle` | `scenario()`, `Driver`, `RepositoryServer` | a scenario is a program (`scenario(k, n)`): commands, each with what is required of its outcome and the exception otherwise. `do_GET` is three steps because the handler thread reads `version`, `fail_payloads` and `version` again while the main thread assigns them. The target conforms except for one named deviation |
| `SystemHelper` | `ci/system_helper.py` | `start()` and `stop()` are programs of operations on one machine record; each can fail, or be killed or meet an `OSError` before, in and after it. `CutShort` lists the machines this may leave (a truncated copy, an empty pid file, a directory partly removed), and `cut` records which of the operations `stop()` cannot make up for were cut short (`Exposed`). Cases run in processes of their own, serialised by `case.lock`; an abandoned case goes on (the runner cannot signal the root process behind `sudo`) |
| `Publication` | the compatibility and publication jobs, `daily()` | jobs per run and target, the artifacts, the publication's working copy, branch and site; `Begin`, `Enqueue` and `StartJob` are the two concurrency groups |
| `OciRegistry` | `Registry.publish` and `Registry.response` | `publish()` is three steps; readers fetch index, manifest, blob |
| `ParentLifetime` | `_supervise`, `_cleanup_children`, `_descendants`, `_launch` | the process table; the walk, each kill and each reap are steps, so the list of descendants is stale when used. A walk that reaches `Limit` processes raises, as the assertion of line 39 does at 100, in the observation and in the cleanup. The order within one walk and one round of kills is left open, which includes the order of the code |
| `Target` | what the scenario files require of a target, and the vocabulary of their programs (`require_setup`, `cli_success`, refusals, queries) | external: a map from facts (deployed and cached version of a ref, where a remote points, masks, pins, filters, verification, opt-outs, what the harness controls) to values; `Contract` is the set of outcomes a command may have, `Observe` what a query answers. `Guarded` and `Namespace` put steps in the private namespace, `Finally` is a `try` block with its clean-up |
| `CliManagement`, `Transactions`, `Selectors`, `Maintenance`, `LifecycleExtra`, `Contracts`, `Repairs`, `Options`, `Distribution`, `Services` | the scenario files, one definition per handler | no state: a program is the sequence of the handler's commands, queries, assignments to the servers, branches and prerequisites, in the handler's order, each with the exception it raises |
| `Scenarios`, given the programs of the ten by `MCScenarios` | how a handler's steps become the verdict of a case | one action per kind of step; the target breaks its contract in at most one command, in one of the ways listed at the head of the module; `breached` records whether it really did. An exception unwinds through the clean-ups of the blocks it leaves (`Unwind`), and one of theirs replaces it |
| `History` | the journald-backed history case, `_journal` and `_history` | the script, the daemon (binds late, stores late, dies, hangs) and the target as three actors; a command or query may exceed the script's own 60 seconds, which end the case as *failed*; `queue` is what was logged and not stored |
| `DurableHistory` | the abstract history: batches of snapshots are accepted at once, the best of each key is kept, the dashboard shows a kept history whole | `Accept`, `Show` |
| `MC*` | instances for TLC | |
| `RunnerProofs`, `LifecycleProofs`, `ScenariosProofs`, `SystemHelperProofs`, `PublicationProofs`, `OciRegistryProofs`, `ParentLifetimeProofs`, `HistoryProofs` | | the theorems and their proofs; each extends the module it is about |

Definitions whose comment begins with *Mutant* are plausible mistakes in the
definition that follows them; they are not used by the specifications and serve
to confirm that each property would notice.

Abstractions common to all modules: names, payloads, digests and messages are
members of small sets; wording, logging and layout are left out; time appears
only as the order of events and as timeouts that may fire.

## Runs

| Run | Bounds | Shows |
|---|---|---|
| `runner` | two cases (a CLI one and a security-sensitive library one), every selection, both CI flags; every step may raise, and a rollback inside `__enter__` too | credit is sound at any instant, also after a kill (`CreditSound`); a zero exit status means what it says, the fingerprint of the suite at the accounting included (`ExitZeroSound`); a handler never meets another case's leftovers unless that case is reported as a set-up error (`Isolated`); saved decisions are final (`DecidedIsFinal`); the job always shows a summary (`SummaryShown`) |
| `runner_interrupted` | two cases | **violated**: an interrupted run can earn credit |
| `helper` | two interchangeable case processes (symmetry), two provisionings; commands fail; with and without kills and `OSError`s before, in and after every operation, and with abandoned cases | `StopRestores`: a cleanup that reports success has restored the machine, unless a case was abandoned or one of the five `Exposed` operations was cut short (without any of the five the property is violated); `PolicyKept`: the original policy is lost only where its copy, or the removal of the copy, is cut short; `CaseClean` |
| `helper_orphan` | one provisioning, abandoned cases | **violated**: a successful cleanup may leave the test users |
| `lifecycle` | all eight scenarios, both drivers, eleven deviations (one is *none*), two payload objects, requests prompt or late | `PassSound`, `FailSound`, `RetryFetched`, `Decided` |
| `publication` | three runs (one publishes, one waits, one displaces), one target, three instants over two days, failures at any step; runs are interchangeable (symmetry) | `BranchIsBest`, `Persists`; no deadlock, so no publication waits for ever (every step moves a run forward); `ImplementsDurable`: every step is a step or a stutter of `DurableHistory`, so that the site shows only histories the branch held, whole |
| `publication_replaced` | three runs, no failures | **violated**: a complete run whose publication was pending is lost |
| `oci` | two readers, three publications | `BlobsServed`, `ReadersServed` |
| `oci_superseded` | one reader, one publication | **violated**: a reader in flight is refused the manifest |
| `parent_lifetime` | launcher, target, payload and two processes forked at any moment; five behaviours of the target; prompt or slow; a walk stops at four processes, so that it can and need not reach its limit | `NothingLeft`, `StatusKnown`, `ObservationSound`, `Ends` |
| `scenarios` | 239 scenario programs; in each, every command in turn with each fault (none, seven breaches, a private namespace that cannot do it or is not set up for it, a hang), every query in the namespace and every query that hangs, every prerequisite missing, every clean-up failing or not; three installations | `PassSound`: a breach never ends in *passed* unless the step is marked blind to it; `FailSound`: every verdict but *passed* is a breach of the target or the verdict the code gives to what went wrong; a time limit, a missing tool and the private namespace are reported as a mismatch only at the places named below |
| `history` | three polls for the socket, fourteen commands on three installations, six queries; one fault of the target in any command or query; any of them may exceed the script's limit; the daemon binds, stores, dies or hangs at any moment | `PassSound`, `FailSound`, `NothingLeft`, `Finishes`, and `ContractExact`: the one-pass comparison accepts exactly the histories in which the required steps can be embedded in order |

Two cases are enough for `runner` because the properties relate a case to at most
one other and the loop treats cases alike; two payloads are enough for a
download to be partly done; two case processes for one to be abandoned while the
next runs. `scenarios` lets a target break its contract in one command of a case:
every breach is then met on its own, and two breaches that hide each other are
outside the bound. Three polls let the
socket appear before, between and after them.

### What a scenario does not notice

A step of a scenario program may be marked `Unseen` with the faults after which
the handler still passes. The marks are part of the result: they say where a
scenario exercises an option without observing its effect (a final
removal that nothing looks at any more, `--no-deps` where the dependency is
already there, a configuration that is written and never read, a command whose
effect the next one has too). They come to 133 pairs of a step and a fault over all
programs; the rest of the pairs that can occur end in another verdict than *passed*,
and `PassSound` fails if a check is dropped. Programs that share a prefix share its
marks, so a few marks are wider than one program needs.

### Where a case fails without the target

`FailSound` of `Scenarios` names the places where a case is *failed* although the
target did nothing wrong, and `Excused` is what each may report:

- `Blamed` steps: a handler passes the failure of its own tool or service to
  `Driver.check` (`oci_signature_scenarios.py:42-45`, `permission_scenarios.py:33`),
  or the payload that `_inspect_location` runs exceeds its ten seconds or cannot run
  (`system_selector_scenarios.py:70-73`, `:323-329`);
- a private namespace that is not set up for a command: the exit status of the
  bootstrap is judged as the command's (`system_selector_scenarios.py:78-128`);
- the time limits of a script run in the namespace, of which only the exit status is
  looked at (`maintenance_scenarios.py:228`, `:284`);
- a clean-up in a `finally` block whose exception replaces a block or a time limit
  (`document_scenarios.py:64-65`, `oci_signature_scenarios.py:144`).

In the history case it is the script's own limits: 60 seconds for a command or a
query, below the 120 of `run.py`, and 15 for `journalctl --sync`
(`maintenance_scenarios.py:422-423`, `:449-459`). In the parent-lifetime case it is a
target that starts so many processes that the walk reaches its limit (line 39), and
one whose killed processes stay for five seconds (line 73).

### Violations

Each is a place where a document or comment of the repository says more than the
code does; `findings` quotes the lines.

- `runner_interrupted`: an uncaught exception leaves the last pending case, the
  cleanup of that case raises `OSError`, the cleanup handler (`run.py:848`) turns
  *pending* into *setup-error*, and the run that was cut short is complete.
- `helper_orphan`: `stop()` takes no case lock and ignores `userdel`'s status.
- `publication_replaced`: GitHub keeps one pending job per concurrency group, and
  each publication merges its own run's snapshots only.
- `oci_superseded`: manifests are served by digest only while current, although
  their bytes are retained for readers in flight.

Further gaps are named by the properties that hold:

- `PassSound` of `Lifecycle`: a request of the failed update that is answered after
  `retry_start` is taken for the retry's download (`run.py:457`).
- `PolicyKept`: `shutil.copy2` cut short while it saves the original policy
  (`ci/system_helper.py:105`) leaves a truncated copy, which `stop()` puts over the
  intact original (lines 204-205). `shutil.rmtree` cut short (line 215) may have
  removed the copy but not the directory; `stop()` run again then removes the policy
  as a file of its own.
- `StopRestores`: a file is created before it is recorded (lines 82-86), and so are the
  installation (98-99) and the helper (119-122); what is cut short in between is on no
  record.
  The parent directories `create()` makes (line 81) are never removed, and the
  service account may outlive a failed `systemd-sysusers`.

### Fairness

- `Lifecycle`: the main thread goes on and the timeout of a command fires.
  Nothing is assumed of the target or of the server's threads, so `Decided`
  holds for a target that hangs.
- `OciRegistry`: handler threads answer, readers go on, a publication that began
  goes on. There are finitely many publications in a scenario; with unboundedly
  many a reader could be overtaken for ever.
- `ParentLifetime`: the supervisor goes on; its deadline passes if the cleanup
  keeps coming to the point where it is tested (strong fairness of
  `CleanupTimesOut`, since other steps intervene); the sandbox starts. Nothing is
  assumed of killed processes, so `Ends` holds if one never goes away.
- `History`: the script goes on, and a journald that neither dies nor hangs
  stores what it was sent. Nothing is assumed of its start: the polling is
  bounded, so `Finishes` holds if the socket never appears.

`Scenarios`, `Runner`, `SystemHelper` and `Publication` are checked for safety and deadlock.

## Proofs

Every theorem holds for all values of the constants that satisfy the assumption
named with it; TLC evaluates the assumptions on the instances it checks. Each
invariant below is a conjunction of named parts, and its proof has one step per
action.

`RunnerProofs` (for every set of cases, drivers, mapping and evidence, from
`CatalogueAssumption` and `RunnerAssumption`):

- `TypeCorrect`: `Spec => []TypeOK`.
- `CreditIsSound`: `Spec => []CreditSound`. `CreditSound` speaks of the saved
  report only and is not inductive. `CreditInv` adds: a case still to run is
  untouched and the case in hand is undecided until its handler ends (`LoopInv`);
  a cleanup that has raised nothing has released what it has passed
  (`ClosingInv`); a confirmed cleanup has no resources and a passed case returned
  (`ResultInv`); a saved passing result is the one in memory (`DiskInv`). The
  last part needs that a passed, cleaned-up case is never touched again
  (`PassedIsFinal`).
- `CasesAreIsolated`: `Spec => []Isolated`. `IsoInv` extends the claim to every
  place of the loop: whatever holds a resource, other than the case in hand, is
  reported as a set-up error, of its cleanup or of a context whose rollback failed.
  The steps that matter are the verdict of the cleanup, where `ClosingInv` excludes
  a resource left by a cleanup that raised nothing, and `RollbackFails`.

The parts of `ExitInv` are preserved together with `CreditInv`; from both follow:

- `DecidedStaysDecided`: `Spec => DecidedIsFinal`. `OnlyUndecided` says that a
  step revises a decision only if it was pending or belongs to the case in hand,
  and `DecidedInv` that such a decision was never saved.
- `ExitZeroIsSound`: `Spec => []ExitZeroSound`. `FailInv` says what the decisions
  mean (without a setup error a failed case was failed by an assertion; a local
  status of 0 means nothing went wrong), `EndInv` that what was accounted is what
  is saved and returned, and `CurrentResults` that a report that verifies as
  current has no undecided or unclean case; `CurrentMeansUnchanged` adds that its
  fingerprint is that of the suite as it was at the accounting.
- `SummaryIsShown`: `Spec => []SummaryShown`, from `JobInv`: the marker follows the
  report, and the always-run step follows the marker or writes its fallback.

`LifecycleProofs` (for any number of payloads, any set of deviations and any
choice of the drivers, scenarios and latenesses, from `LifecycleAssumption`). A
program is related to the situations a target that keeps its contract goes
through: `Fine` says that one step leads from a situation to the next and
requires nothing but what the contract gives, `Leads` that a program does, and
`LeadsJoin` puts programs together. `ScenarioLeads` shows it of every scenario;
`Trace` is the sequence of situations of the scenario that runs.

- `LifecycleTypes`: `Spec => []TypeOK`.
- `FailedIsDeserved`: `Spec => []FailSound`. The invariant has to follow the
  handler threads: a request of the running command was read from the published
  version with the failure flag as it is (`FlightInv`), so that a refusal the
  command was told of is on record, and a payload it got as well (`EvidenceInv`).
  `ContractIsRequired` is the heart of it: in the situation the scenario expects
  (`ExpectInv`), every outcome the contract allows is one the scenario accepts,
  evidence of the repository included, and leads to the next situation. A late
  request cannot spoil that, because evidence is only ever added (`RequiredStays`).
- `RetryIsFetched`: `Spec => []RetryFetched`. `RetryInv` says that without late
  answers nothing is in flight between commands, so that the requests after the
  mark belong to steps after it; of these only the retry fetches payloads
  (`Marks`).
- `BreachIsCaught`: `Spec => []PassSound`. That nothing passes after a breach is not
  inductive; what is, is that the breach is about to be noticed (`DoomInv`). An
  outcome that is waiting to be judged is `Lost` (its own step rejects it, whatever
  is recorded later), or the next step but one at most looks at what the breach left
  (`Dooms`). For that the programs need a shape, `Watched`: a step after which a
  breach could stay in the installation is followed by one that looks at it.
  `ScenarioGuarded` shows it of every scenario. `BreachEnds` then goes
  through the deviations, one lemma each. Two of them turn on the evidence of the
  repository. A failed update that never ran into the injected failure is noticed
  because no request was refused on its behalf (`CleanInv`, with `AskInv` and
  `UniqueInv` on what the command in hand has in flight); a retry that fetched
  nothing, because nobody else asked for a payload after the mark (`MarkedInv`,
  without late answers only). `Situations` records for this purpose whether the
  update that is to fail was run (`refused`) and whether the retry was (`retried`).

`ScenariosProofs` (for any suite of handlers and any deviations, from
`ProgramsAssumption` and `FaultsAssumption`: the command of a step has a contract,
what a step raises is a failure the driver knows, a branch stays within the
handler):

- `ScenarioTypes`: `Spec => []TypeOK`. Every operation of `Target` has only
  outcomes, in any state of the target (`ContractGives`, operation by operation),
  and so has every deviation (`DeviantGives`): a command given other options or
  another installation is still a command with a contract (`SameOperation`).

`SystemHelperProofs` (for any case processes and any number of provisioning
rounds, with crashes, `OSError`s and abandoned cases, from `HelperAssumption`).
`StartEffect` and `StopEffect` say what each operation of the two programs does to
the machine, `StartCut` and `StopCut` what it may leave when it is cut short, and
`StopCanRaise` when it raises.

- `HelperTypes`: `Spec => []TypeOK`.
- `PolicyIsKept`: `Spec => []PolicyKept`. `PolicyInv` places the original policy
  for every operation, unless its copy or the removal of the copy was cut short
  (`CopyWhole`): in place until it is saved, saved until it is back.
- `CasesAreClean`: `Spec => []CaseClean`. `LockInv` gives each lock one holder
  (`HoldersAreAlone`); since `stop()` removes the lock file, two rounds have two
  locks, and only what holds within one round, or without abandoned cases, is claimed.
- `StopHasRestored`: `Spec => []StopRestores`. `RestoreInv` says that, as long as no
  case may be abandoned and none of the exposed operations was cut short
  (`Sheltered`), whatever `start()` did is on record except for the operation it is
  at, and that what `stop()` has passed is undone, however often either was killed.

`PublicationProofs` (for any runs, targets, clock bound and day length, from
`PublicationAssumption`):

- `PublicationTypes`: `Spec => []TypeOK`. `ShownInv` says that working copy, branch
  and site hold recorded snapshots, each under its own key.
- `BranchHoldsTheBest`: `Spec => []BranchIsBest`. The inductive invariant says
  that the working copy of the publication that runs is what the branch holds
  merged with the snapshots it has taken so far; `DailyBest` says that one merge
  keeps the best of both. That at most one publication runs is part of it.
- `SnapshotsPersist`: `Spec => Persists`, from the same invariant.
- `PublicationImplements`: `Spec => ImplementsDurable`. The mapping takes the
  snapshots pushed for `log`, the branch for `durable` and the site for
  `dashboard`. A push is an `Accept` because `BranchIsBest` holds after it. A
  deployment shows the working copy as its publication pushed it; it is a `Show`
  because the branch still holds that copy: only one publication runs at a time.

`OciRegistryProofs` (for any readers and any number of publications, from
`RegistryAssumption`):

- `RegistryTypes`: `Spec => []TypeOK`: only blobs of published images are held, and
  the serial is the number of the current image, or one behind while `publish()` runs.
- `BlobsAreServed`: `Spec => []BlobsServed`. `publish()` adds the blobs of an image
  before it makes the image current (`BlobsInv`), and a reader knows only of
  images that were current (`ReaderInv`).

`ParentLifetimeProofs` (for any finite set of processes the sandbox forks and any
limit of the walk, from `LifetimeAssumption`):

- `LifetimeTypes`: `Spec => []TypeOK`.
- `NothingIsLeft`: `Spec => []NothingLeft`. `waitpid` reports that there is no
  child left only if the supervisor has none; that then nobody at all is left is
  `NobodyLeft`, and needs that the process table has no loop (`NoLoop`): every
  living process descends from the supervisor, whatever the order of forks and
  adoptions.
- `StatusIsKnown`: `Spec => []StatusKnown`, from `CleanupInv`: a target that is
  gone was reaped by the supervisor, which kept its status.
- `ObservationIsSound`: `Spec => []ObservationSound`. `ReadyInv` and `SeenInv`
  relate, for each place of the observation, what has been seen to what the
  target did; other processes may fork and die at any time (`External`). `CrowdInv`
  says that whatever a walk has found was started, so that a walk that reached its
  limit means a crowd (`ManyCrowd`).

`HistoryProofs` (for every number of polls and every set of faults, from
`PollsAssumption`):

- `HistoryTypes`: `Spec => []TypeOK`. That includes the bound on what is logged:
  `CountInv` counts the records sent, stored and held back against the commands
  run, with one to spare for the command that logs too much.
- `DaemonIsReaped`: `Spec => []NothingLeft`.
- `ContractIsExact`: `Spec => []ContractExact`. `ScanOf` follows the one pass over
  the events; what it has consumed can be embedded (soundness), and nothing that
  can be embedded in the same events is longer (maximality). Both are inductions
  over the number of events, done with the least number for which the claim fails
  (`Least`, from the well-foundedness of `<` on the naturals), which needs no
  operator as a parameter. The recursive functions of `History` (`Select`,
  `Matches`, `Reverse`) are unfolded the same way.
- `PassIsSound`: `Spec => []PassSound`, and `FailIsSound`: `Spec => []FailSound`,
  from `CaseInv`, which is about the log, the records stored followed by those
  queued. In the log the required steps made so far are reached in their order,
  except the one held back (`InOrder`); a record a command lost is nowhere, since
  each lifecycle row is logged by one command only, and a record it sent late is
  behind its successor (`LogInv`). journald only moves records from the queue to
  the store, so that the sync finds all of the log stored, or the case ends
  blocked or failed. A kept order then means that every query shows the steps
  required of it (`AllConfirmed`); a lost or overtaken record means that one does
  not, by maximality of the comparison (`NothingMissed`). The reversed query needs
  that the user's history is not its own reverse (`NotReversed`). `FailIsSound` excepts
  a command, query or sync that exceeded the script's own limit (`hung`).

Only model-checked:

- liveness (`Decided`, `ReadersServed`, `Ends`, `Finishes`): liveness under
  fairness is out of the prover's reach;
- `PassSound` and `FailSound` of `Scenarios`: they are facts about the 239 programs
  TLC is given, not about programs in general: a handler that looks at nothing
  passes whatever the target did, and `Excused` is read off the steps of a program.

## Plan

Modelled so far: the run driver and its accounting, the lifecycle scenarios with
their server, provisioning, publication, the OCI registry, the parent-lifetime
supervisor, the scenario groups, and the history case. What is left, in this
order:

1. `Execute`: process groups, timeouts and the terminal session, with
   descendants that fork or leave the group.
2. `Dashboard`: comparison of runs, daily gaps and the diagnostic budget as
   operators checked against reference definitions.
3. The OCI scenarios of `Distribution` composed with `OciRegistry`, and the
   authentication service as an actor, so that a request can overtake a
   publication or a cancellation.

## Not modelled, and why

- Sandbox, bus and extension scenarios: each step compares what a sandboxed probe
  sees with one expected string; the state is the sandbox's own.
- Build scenarios: build directories and metadata compared byte by byte;
  formatting is their subject, and the models abstract it.
- Surface and diagnostic scenarios, `maintenance-global` and the `library-*`
  selectors: single calls without state of their own.
- The C clients and the authentication service behind their commands: a
  scenario program sees a client's exit status and report.
- The signal canary and the terminal session: they depend on the kernel's session,
  group and signal tables, which no module has yet. A process group is one atom.

- Rendering of the dashboard and wording of console output and summaries: no
  property beyond layout.
- Parsing of C headers and JSON definitions, and the preparation of fixtures:
  stateless text processing and straight-line calls of external tools.
- Accessor checks of the library clients: no state of their own.
- Flatpak, polkit, D-Bus, GitHub Actions and the kernel are external: modelled by
  what the code relies on, and marked so in `PROJECT.json`.
- Reuse of process identifiers: identities are not reused in the models.
