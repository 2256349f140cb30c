---------------------------- MODULE RunnerProofs ----------------------------
(***************************************************************************)
(* Runner.tla, for every suite of cases: its report never overclaims, the  *)
(* decisions it saved are never revised, a zero exit status means what it  *)
(* says, and the job shows a summary.                                      *)
(***************************************************************************)
EXTENDS Runner, TLAPS

\* The verification ladder ends in one of its five verdicts.
LEMMA VerificationType ==
    ASSUME NEW report, NEW current, NEW now
    PROVE  Verification(report, current, now)
              \in {"unversioned", "stale", "incomplete", "invalid", "current"}
  BY DEF Verification

\* failure_status never yields "passed" or "pending".
LEMMA FailureStatusType ==
    ASSUME NEW e
    PROVE  FailureStatus(e) \in Statuses \ {"passed", "not-selected"}
  BY DEF FailureStatus, Statuses

USE DEF caseVars, reportVars, loopVars, endVars, history

LEMMA TypeInit == Init => TypeOK
  <1> SUFFICES ASSUME Init PROVE TypeOK
    OBVIOUS
  <1>1. args \in [driver : {"all", "cli", "library"}, allow : BOOLEAN, actions : BOOLEAN,
                 scenario : {"all"} \union {ScenarioOf[c] : c \in Cases}]
    BY DEF Init
  <1>2. final \in [complete : BOOLEAN, integrity : {"unchecked", "verified", "changed"},
                  verification : {"none", "unversioned", "stale", "incomplete", "invalid",
                                  "current"}]
    BY DEF Init, Unfinished
  <1> QED
    BY <1>1, <1>2 DEF Init, TypeOK, Statuses, Attribution, Raisable, Caught

LEMMA TypePreflight == TypeOK /\ PreflightStep => TypeOK'
  <1> SUFFICES ASSUME TypeOK, PreflightStep PROVE TypeOK'
    OBVIOUS
  <1> USE DEF TypeOK, Statuses, Attribution, Raisable, Caught
  <1>1. CASE Open
    BY <1>1 DEF Open
  <1>2. ASSUME NEW e \in Raisable, PreflightRaises(e) PROVE TypeOK'
    BY <1>2 DEF PreflightRaises, Escape
  <1>3. ASSUME NEW declared \in SUBSET Cases, LoadTarget(declared) PROVE TypeOK'
    BY <1>3 DEF LoadTarget
  <1>4. CASE ProbeTarget
    BY <1>4 DEF ProbeTarget
  <1>5. ASSUME NEW k \in {"cli", "library"}, NextDriver(k) PROVE TypeOK'
    BY <1>5 DEF NextDriver
  <1>6. CASE NoMoreDrivers
    BY <1>6 DEF NoMoreDrivers
  <1>7. CASE BuildClient
    BY <1>7 DEF BuildClient
  <1>8. ASSUME NEW e \in {"prerequisite", "other"}, BuildClientFails(e) PROVE TypeOK'
    BY <1>8 DEF BuildClientFails
  <1> QED
    BY <1>1, <1>2, <1>3, <1>4, <1>5, <1>6, <1>7, <1>8 DEF PreflightStep

LEMMA TypeCaseSetup == TypeOK /\ LoopInv /\ CaseSetup => TypeOK'
  <1> SUFFICES ASSUME TypeOK, LoopInv, CaseSetup PROVE TypeOK'
    OBVIOUS
  <1> USE DEF TypeOK, Statuses, Raisable, Caught
  <1>0. pc \in SetupPcs => cur \in Cases
    BY DEF LoopInv
  <1>1. ASSUME NEW c \in Cases, CaseWithoutClient(c) PROVE TypeOK'
    BY <1>1, FailureStatusType DEF CaseWithoutClient, Visit
  <1>2. ASSUME NEW c \in Cases, CaseWithoutApis(c) PROVE TypeOK'
    BY <1>2 DEF CaseWithoutApis, Visit
  <1>3. ASSUME NEW c \in Cases, StartCase(c) PROVE TypeOK'
    BY <1>3 DEF StartCase, Visit
  <1>4. CASE CasesDone
    BY <1>4 DEF CasesDone
  <1>5. CASE MakeRoot
    BY <1>5, <1>0 DEF MakeRoot, CaseStep, SetupPcs
  <1>6. CASE RunAdapter
    BY <1>6 DEF RunAdapter, CaseStep
  <1>7. CASE EnterBus
    BY <1>7, <1>0 DEF EnterBus, CaseStep, SetupPcs
  <1>8. CASE EnterServing
    BY <1>8, <1>0 DEF EnterServing, CaseStep, SetupPcs
  <1>9. ASSUME NEW ev \in HandlerEvidence, HandlerReturns(ev) PROVE TypeOK'
    BY <1>9, <1>0 DEF HandlerReturns, CaseStep, SetupPcs, EvidenceRecords
  <1>10. ASSUME NEW e \in Raisable, CaseRaises(e) PROVE TypeOK'
    BY <1>10, <1>0, FailureStatusType DEF CaseRaises, Handled, SetupPcs
  <1>11. ASSUME NEW e \in Raisable, RollbackFails(e) PROVE TypeOK'
    BY <1>11, <1>0, FailureStatusType DEF RollbackFails, Handled, SetupPcs
  <1> QED
    BY <1>1, <1>2, <1>3, <1>4, <1>5, <1>6, <1>7, <1>8, <1>9, <1>10, <1>11 DEF CaseSetup
LEMMA TypeCaseCleanup == TypeOK /\ LoopInv /\ CaseCleanup => TypeOK'
  <1> SUFFICES ASSUME TypeOK, LoopInv, CaseCleanup PROVE TypeOK'
    OBVIOUS
  <1> USE DEF TypeOK, Statuses, Raisable, Caught
  <1>1. ASSUME NEW r \in {"ok", "error", "uncaught"}, CloseServer(r) PROVE TypeOK'
    BY <1>1 DEF CloseServer, CaseStep, Outcome
  <1>2. ASSUME NEW r \in {"ok", "error", "uncaught"}, CloseBus(r) PROVE TypeOK'
    BY <1>2 DEF CloseBus, CaseStep, Outcome
  <1>3. ASSUME NEW r \in {"ok", "error", "uncaught"}, RemoveRoot(r) PROVE TypeOK'
    BY <1>3 DEF RemoveRoot, CaseStep, Outcome
  <1>4. CASE CleanupVerdict
    <2>0. cur \in Cases
      BY <1>4 DEF CleanupVerdict, LoopInv, CleanupPcs
    <2>1. CASE closing = "none"
      BY <1>4, <2>0, <2>1 DEF CleanupVerdict
    <2>2. CASE closing = "error"
      BY <1>4, <2>0, <2>2 DEF CleanupVerdict
    <2>3. CASE closing = "uncaught"
      BY <1>4, <2>0, <2>3 DEF CleanupVerdict
    <2> QED
      BY <2>1, <2>2, <2>3
  <1>5. CASE SaveCase
    BY <1>5 DEF SaveCase
  <1>6. CASE Announce
    BY <1>6 DEF Announce
  <1>7. ASSUME NEW e \in {"other", "uncaught"}, ReportingRaises(e) PROVE TypeOK'
    BY <1>7 DEF ReportingRaises, Escape
  <1> QED
    BY <1>1, <1>2, <1>3, <1>4, <1>5, <1>6, <1>7 DEF CaseCleanup

LEMMA TypeFinalise == TypeOK /\ Finalise => TypeOK'
  <1> SUFFICES ASSUME TypeOK, Finalise PROVE TypeOK'
    OBVIOUS
  <1> USE DEF TypeOK, Statuses, Raisable, Caught
  <1>1. ASSUME NEW decided \in SUBSET Cases, OuterExcept(decided) PROVE TypeOK'
    BY <1>1, FailureStatusType DEF OuterExcept
  <1>2. ASSUME NEW i \in {"verified", "changed"}, NEW now \in {Definition, Drift},
               Finish(i, now)
        PROVE  TypeOK'
    <2> DEFINE f == [complete |-> Pending = {}, integrity |-> i, verification |-> "none"]
               v == Verification(Report(f), Definition, now)
    <2>1. v \in {"unversioned", "stale", "incomplete", "invalid", "current"}
      BY VerificationType
    <2>2. final' = [f EXCEPT !.verification = v]
      BY <1>2 DEF Finish
    <2>3. (Pending = {}) \in BOOLEAN
      OBVIOUS
    <2> HIDE DEF v
    <2>4. final' \in [complete : BOOLEAN, integrity : {"unchecked", "verified", "changed"},
                     verification : {"none", "unversioned", "stale", "incomplete", "invalid",
                                     "current"}]
      BY <2>1, <2>2, <2>3
    <2>5. code' \in {0, 1}
      BY <1>2 DEF Finish
    <2> QED
      BY <1>2, <2>4, <2>5 DEF Finish
  <1>3. CASE WriteReport
    BY <1>3 DEF WriteReport
  <1>4. CASE FinishRaises
    BY <1>4 DEF FinishRaises
  <1>5. CASE Deliver
    <2>1. job' \subseteq {"report", "marker", "fallback", "done"}
      BY <1>5 DEF Deliver
    <2> QED
      BY <1>5, <2>1 DEF Deliver
  <1>6. ASSUME NEW appended \in {{}, {"report"}}, DeliverFails(appended) PROVE TypeOK'
    <2>1. job' \subseteq {"report", "marker", "fallback", "done"}
      BY <1>6 DEF DeliverFails
    <2> QED
      BY <1>6, <2>1 DEF DeliverFails
  <1>7. CASE NothingToDeliver
    BY <1>7 DEF NothingToDeliver
  <1>8. CASE Return
    BY <1>8 DEF Return
  <1> QED
    BY <1>1, <1>2, <1>3, <1>4, <1>5, <1>6, <1>7, <1>8 DEF Finalise

LEMMA TypeStep == TypeOK /\ LoopInv /\ [Next]_vars => TypeOK'
  <1> SUFFICES ASSUME TypeOK, LoopInv, [Next]_vars PROVE TypeOK'
    OBVIOUS
  <1>1. CASE RunnerStep
    BY <1>1, TypePreflight, TypeCaseSetup, TypeCaseCleanup, TypeFinalise DEF RunnerStep
  <1>2. CASE Kill
    BY <1>2 DEF Kill, TypeOK
  <1>3. CASE SummaryFallback
    BY <1>3 DEF SummaryFallback, TypeOK
  <1>4. CASE Done
    BY <1>4 DEF Done, vars, TypeOK
  <1>5. CASE UNCHANGED vars
    BY <1>5 DEF vars, TypeOK
  <1> QED
    BY <1>1, <1>2, <1>3, <1>4, <1>5 DEF Next
-----------------------------------------------------------------------------
\* Steps outside a case: none of them touches a case's resources, cleanup
\* record or history, and a status only leaves "pending" for a verdict other
\* than "passed".
OutsideCase ==
    /\ UNCHANGED <<cleanup, dirs, buses, servers, strays, returned, cut>>
    /\ \A c \in Cases :
          status'[c] # status[c] =>
              status[c] = "pending" /\ status'[c] \notin {"pending", "passed"}

Inv == LoopInv /\ ClosingInv /\ ResultInv

\* Such a step that stays in the loop, or leaves it for good, keeps the
\* invariants on cases.
LEMMA OutsideKeeps ==
    /\ TypeOK /\ Inv /\ OutsideCase
    /\ \/ pc \in LoopPcs /\ pc' \in LoopPcs
       \/ pc' \in {"outer", "final", "write", "summary", "gate"}
    => Inv'
  <1> SUFFICES ASSUME TypeOK, Inv, OutsideCase,
                      \/ pc \in LoopPcs /\ pc' \in LoopPcs
                      \/ pc' \in {"outer", "final", "write", "summary", "gate"}
               PROVE  Inv'
    OBVIOUS
  <1> USE DEF Inv, OutsideCase, Resources, Owned
  <1>1. LoopInv'
    BY DEF LoopInv, LoopPcs, SetupPcs, CleanupPcs, Untouched
  <1>2. ClosingInv'
    BY DEF ClosingInv, LoopPcs
  <1>3. ResultInv'
    BY DEF ResultInv
  <1> QED
    BY <1>1, <1>2, <1>3

LEMMA InvPreflight == TypeOK /\ Inv /\ PreflightStep => Inv'
  <1> SUFFICES ASSUME TypeOK, Inv, PreflightStep PROVE Inv'
    OBVIOUS
  <1>1. CASE Open
    <2>1. OutsideCase
      BY <1>1 DEF Open, OutsideCase
    <2>2. pc \in LoopPcs /\ (pc' \in LoopPcs \/ pc' \in {"outer", "final"})
      BY <1>1 DEF Open, LoopPcs
    <2> QED
      BY <2>1, <2>2, OutsideKeeps
  <1>2. ASSUME NEW e \in Raisable, PreflightRaises(e) PROVE Inv'
    <2>1. OutsideCase
      BY <1>2 DEF PreflightRaises, Escape, OutsideCase
    <2>2. pc \in LoopPcs /\ (pc' \in LoopPcs \/ pc' \in {"outer", "final"})
      BY <1>2 DEF PreflightRaises, Escape, LoopPcs
    <2> QED
      BY <2>1, <2>2, OutsideKeeps
  <1>3. ASSUME NEW declared \in SUBSET Cases, LoadTarget(declared) PROVE Inv'
    <2>1. OutsideCase
      BY <1>3 DEF LoadTarget, Pending, OutsideCase
    <2>2. pc \in LoopPcs /\ (pc' \in LoopPcs \/ pc' \in {"outer", "final"})
      BY <1>3 DEF LoadTarget, Pending, LoopPcs
    <2> QED
      BY <2>1, <2>2, OutsideKeeps
  <1>4. CASE ProbeTarget
    <2>1. OutsideCase
      BY <1>4 DEF ProbeTarget, OutsideCase
    <2>2. pc \in LoopPcs /\ (pc' \in LoopPcs \/ pc' \in {"outer", "final"})
      BY <1>4 DEF ProbeTarget, LoopPcs
    <2> QED
      BY <2>1, <2>2, OutsideKeeps
  <1>5. ASSUME NEW k \in {"cli", "library"}, NextDriver(k) PROVE Inv'
    <2>1. OutsideCase
      BY <1>5 DEF NextDriver, OutsideCase
    <2>2. pc \in LoopPcs /\ (pc' \in LoopPcs \/ pc' \in {"outer", "final"})
      BY <1>5 DEF NextDriver, LoopPcs
    <2> QED
      BY <2>1, <2>2, OutsideKeeps
  <1>6. CASE NoMoreDrivers
    <2>1. OutsideCase
      BY <1>6 DEF NoMoreDrivers, OutsideCase
    <2>2. pc \in LoopPcs /\ (pc' \in LoopPcs \/ pc' \in {"outer", "final"})
      BY <1>6 DEF NoMoreDrivers, LoopPcs
    <2> QED
      BY <2>1, <2>2, OutsideKeeps
  <1>7. CASE BuildClient
    <2>1. OutsideCase
      BY <1>7 DEF BuildClient, OutsideCase
    <2>2. pc \in LoopPcs /\ (pc' \in LoopPcs \/ pc' \in {"outer", "final"})
      BY <1>7 DEF BuildClient, LoopPcs
    <2> QED
      BY <2>1, <2>2, OutsideKeeps
  <1>8. ASSUME NEW e \in {"prerequisite", "other"}, BuildClientFails(e) PROVE Inv'
    <2>1. OutsideCase
      BY <1>8 DEF BuildClientFails, OutsideCase
    <2>2. pc \in LoopPcs /\ (pc' \in LoopPcs \/ pc' \in {"outer", "final"})
      BY <1>8 DEF BuildClientFails, LoopPcs
    <2> QED
      BY <2>1, <2>2, OutsideKeeps
  <1> QED
    BY <1>1, <1>2, <1>3, <1>4, <1>5, <1>6, <1>7, <1>8 DEF PreflightStep
LEMMA InvCaseSetup == TypeOK /\ Inv /\ CaseSetup => Inv'
  <1> SUFFICES ASSUME TypeOK, Inv, CaseSetup PROVE Inv'
    OBVIOUS
  <1>1. ASSUME NEW c \in Cases, CaseWithoutClient(c) PROVE Inv'
    <2>0. FailureStatus(clientError) \notin {"pending", "passed"}
      BY FailureStatusType DEF Statuses
    <2>1. OutsideCase
      BY <1>1, <2>0 DEF CaseWithoutClient, Visit, OutsideCase, PendingOf, Pending, TypeOK
    <2>2. pc \in LoopPcs /\ pc' \in LoopPcs
      BY <1>1 DEF CaseWithoutClient, Visit, LoopPcs
    <2> QED
      BY <2>1, <2>2, OutsideKeeps
  <1>2. ASSUME NEW c \in Cases, CaseWithoutApis(c) PROVE Inv'
    <2>1. OutsideCase
      BY <1>2 DEF CaseWithoutApis, Visit, OutsideCase, PendingOf, Pending, TypeOK
    <2>2. pc \in LoopPcs /\ pc' \in LoopPcs
      BY <1>2 DEF CaseWithoutApis, Visit, LoopPcs
    <2> QED
      BY <2>1, <2>2, OutsideKeeps
  <1>4. CASE CasesDone
    <2>1. OutsideCase
      BY <1>4 DEF CasesDone, OutsideCase
    <2>2. pc \in LoopPcs /\ pc' \in LoopPcs
      BY <1>4 DEF CasesDone, LoopPcs
    <2> QED
      BY <2>1, <2>2, OutsideKeeps
  <1> USE DEF Inv, LoopInv, ClosingInv, ResultInv, Untouched, Resources, Owned, SetupPcs, CleanupPcs,
              LoopPcs
  <1>3. ASSUME NEW c \in Cases, StartCase(c) PROVE Inv'
    BY <1>3 DEF StartCase, Visit, Pending
  <1>5. CASE MakeRoot
    BY <1>5 DEF MakeRoot, CaseStep
  <1>6. CASE RunAdapter
    BY <1>6 DEF RunAdapter, CaseStep
  <1>7. CASE EnterBus
    BY <1>7 DEF EnterBus, CaseStep
  <1>8. CASE EnterServing
    BY <1>8 DEF EnterServing, CaseStep
  <1>9. ASSUME NEW ev \in HandlerEvidence, HandlerReturns(ev) PROVE Inv'
    BY <1>9 DEF HandlerReturns, CaseStep, TypeOK
  <1>10. ASSUME NEW e \in Raisable, CaseRaises(e) PROVE Inv'
    <2>1. CASE e = "uncaught"
      BY <1>10, <2>1 DEF CaseRaises, Handled, TypeOK
    <2>2. CASE e # "uncaught"
      <3>1. FailureStatus(e) \notin {"pending", "passed"}
        BY FailureStatusType DEF Statuses
      <3> QED
        BY <1>10, <2>2, <3>1 DEF CaseRaises, Handled, TypeOK
    <2> QED
      BY <2>1, <2>2
  <1>11. ASSUME NEW e \in Raisable, RollbackFails(e) PROVE Inv'
    <2>1. CASE e = "uncaught"
      BY <1>11, <2>1 DEF RollbackFails, Handled, TypeOK
    <2>2. CASE e # "uncaught"
      <3>1. FailureStatus(e) \notin {"pending", "passed"}
        BY FailureStatusType DEF Statuses
      <3> QED
        BY <1>11, <2>2, <3>1 DEF RollbackFails, Handled, TypeOK
    <2> QED
      BY <2>1, <2>2
  <1> QED
    BY <1>1, <1>2, <1>3, <1>4, <1>5, <1>6, <1>7, <1>8, <1>9, <1>10, <1>11 DEF CaseSetup

LEMMA InvCaseCleanup == TypeOK /\ Inv /\ CaseCleanup => Inv'
  <1> SUFFICES ASSUME TypeOK, Inv, CaseCleanup PROVE Inv'
    OBVIOUS
  <1> USE DEF Inv, LoopInv, ClosingInv, ResultInv, Untouched, Resources, Owned, SetupPcs, CleanupPcs,
              LoopPcs
  <1>1. ASSUME NEW r \in {"ok", "error", "uncaught"}, CloseServer(r) PROVE Inv'
    BY <1>1 DEF CloseServer, CaseStep, Outcome
  <1>2. ASSUME NEW r \in {"ok", "error", "uncaught"}, CloseBus(r) PROVE Inv'
    BY <1>2 DEF CloseBus, CaseStep, Outcome
  <1>3. ASSUME NEW r \in {"ok", "error", "uncaught"}, RemoveRoot(r) PROVE Inv'
    BY <1>3 DEF RemoveRoot, CaseStep, Outcome
  <1>4. CASE CleanupVerdict
    <2>1. CASE closing = "none"
      BY <1>4, <2>1 DEF CleanupVerdict, TypeOK
    <2>2. CASE closing = "error"
      BY <1>4, <2>2 DEF CleanupVerdict, TypeOK
    <2>3. CASE closing = "uncaught"
      BY <1>4, <2>3 DEF CleanupVerdict, TypeOK
    <2> QED
      BY <2>1, <2>2, <2>3 DEF TypeOK
  <1>5. CASE SaveCase
    BY <1>5 DEF SaveCase
  <1>6. CASE Announce
    BY <1>6 DEF Announce
  <1>7. ASSUME NEW e \in {"other", "uncaught"}, ReportingRaises(e) PROVE Inv'
    BY <1>7 DEF ReportingRaises, Escape
  <1> QED
    BY <1>1, <1>2, <1>3, <1>4, <1>5, <1>6, <1>7 DEF CaseCleanup

LEMMA InvFinalise == TypeOK /\ Inv /\ Finalise => Inv'
  <1> SUFFICES ASSUME TypeOK, Inv, Finalise PROVE Inv'
    OBVIOUS
  <1>1. OutsideCase
    <2> USE DEF OutsideCase
    <2>1. ASSUME NEW decided \in SUBSET Cases, OuterExcept(decided) PROVE OutsideCase
      <3>1. FailureStatus(raised) \notin {"pending", "passed"}
        BY FailureStatusType DEF Statuses
      <3> QED
        BY <2>1, <3>1 DEF OuterExcept, Pending
    <2>2. ASSUME NEW i, NEW now, Finish(i, now) PROVE OutsideCase
      BY <2>2 DEF Finish
    <2>3. ASSUME NEW appended, DeliverFails(appended) PROVE OutsideCase
      BY <2>3 DEF DeliverFails
    <2>4. CASE WriteReport \/ FinishRaises \/ Deliver \/ NothingToDeliver \/ Return
      BY <2>4 DEF WriteReport, FinishRaises, Deliver, NothingToDeliver, Return
    <2> QED
      BY <2>1, <2>2, <2>3, <2>4 DEF Finalise
  <1>2. \/ pc \in LoopPcs /\ pc' \in LoopPcs
        \/ pc' \in {"outer", "final", "write", "summary", "gate"}
    BY DEF Finalise, OuterExcept, Finish, WriteReport, FinishRaises, Deliver, DeliverFails,
           NothingToDeliver, Return, LoopPcs
  <1> QED
    BY <1>1, <1>2, OutsideKeeps
-----------------------------------------------------------------------------
\* A passed and cleaned-up case is never decided again.
PassedStays ==
    \A c \in Cases :
        status[c] = "passed" /\ cleanup[c] = {"complete"} =>
            status'[c] = "passed" /\ cleanup'[c] = {"complete"}

LEMMA PassedIsFinal == TypeOK /\ LoopInv /\ RunnerStep => PassedStays
  <1> SUFFICES ASSUME TypeOK, LoopInv, RunnerStep PROVE PassedStays
    OBVIOUS
  <1> USE DEF PassedStays, TypeOK
  <1>1. CASE PreflightStep
    BY <1>1 DEF PreflightStep, Open, PreflightRaises, LoadTarget, Pending, ProbeTarget,
                NextDriver, NoMoreDrivers, BuildClient, BuildClientFails
  <1>2. CASE CaseSetup
    <2>1. ASSUME NEW c \in Cases, CaseWithoutClient(c) \/ CaseWithoutApis(c) \/ StartCase(c)
          PROVE  PassedStays
      BY <2>1 DEF CaseWithoutClient, CaseWithoutApis, StartCase, Visit, Pending
    <2>2. ASSUME NEW ev, HandlerReturns(ev) PROVE PassedStays
      BY <2>2 DEF HandlerReturns, CaseStep, LoopInv, SetupPcs
    <2>3. ASSUME NEW e, CaseRaises(e) \/ RollbackFails(e) PROVE PassedStays
      BY <2>3 DEF CaseRaises, RollbackFails, Handled, LoopInv, SetupPcs
    <2>4. CASE CasesDone \/ MakeRoot \/ RunAdapter \/ EnterBus \/ EnterServing
      BY <2>4 DEF CasesDone, MakeRoot, RunAdapter, EnterBus, EnterServing
    <2> QED
      BY <1>2, <2>1, <2>2, <2>3, <2>4 DEF CaseSetup
  <1>3. CASE CaseCleanup
    <2>1. CASE CleanupVerdict
      <3>1. cur \in Cases /\ cleanup[cur] = {}
        BY <2>1 DEF CleanupVerdict, LoopInv, CleanupPcs
      <3>2. CASE closing = "none"
        BY <2>1, <3>1, <3>2 DEF CleanupVerdict
      <3>3. CASE closing = "error"
        BY <2>1, <3>1, <3>3 DEF CleanupVerdict
      <3>4. CASE closing = "uncaught"
        BY <2>1, <3>1, <3>4 DEF CleanupVerdict
      <3> QED
        BY <3>2, <3>3, <3>4
    <2>2. CASE ~ CleanupVerdict
      BY <1>3, <2>2 DEF CaseCleanup, CloseServer, CloseBus, RemoveRoot, SaveCase, Announce,
                        ReportingRaises
    <2> QED
      BY <2>1, <2>2
  <1>4. CASE Finalise
    BY <1>4 DEF Finalise, OuterExcept, Pending, Finish, WriteReport, FinishRaises, Deliver,
                DeliverFails, NothingToDeliver, Return
  <1> QED
    BY <1>1, <1>2, <1>3, <1>4 DEF RunnerStep

\* The only values report.json takes are snapshots of the report in memory.
LEMMA DiskSteps ==
    RunnerStep => \/ UNCHANGED disk
                  \/ /\ UNCHANGED <<status, cleanup>>
                     /\ \E f : disk' = Report(f)
  <1> SUFFICES ASSUME RunnerStep
               PROVE  \/ UNCHANGED disk
                      \/ UNCHANGED <<status, cleanup>> /\ \E f : disk' = Report(f)
    OBVIOUS
  <1>1. CASE Open \/ SaveCase \/ WriteReport
    BY <1>1 DEF Open, SaveCase, WriteReport
  <1>2. CASE ~ (Open \/ SaveCase \/ WriteReport)
    BY <1>2 DEF RunnerStep, PreflightStep, CaseSetup, CaseCleanup, Finalise,
                PreflightRaises, LoadTarget, ProbeTarget, NextDriver, NoMoreDrivers, BuildClient,
                BuildClientFails, CaseWithoutClient, CaseWithoutApis, StartCase, Visit, CasesDone,
                MakeRoot, RunAdapter, EnterBus, EnterServing, HandlerReturns, CaseRaises, RollbackFails,
                Handled, CloseServer, CloseBus, RemoveRoot, CleanupVerdict, Announce, ReportingRaises,
                OuterExcept, Finish, FinishRaises, Deliver, DeliverFails, NothingToDeliver,
                Return
  <1> QED
    BY <1>1, <1>2

LEMMA DiskStep == TypeOK /\ LoopInv /\ DiskInv /\ RunnerStep => DiskInv'
  <1> SUFFICES ASSUME TypeOK, LoopInv, DiskInv, RunnerStep PROVE DiskInv'
    OBVIOUS
  <1>1. CASE UNCHANGED disk
    BY <1>1, PassedIsFinal DEF DiskInv, PassedStays
  <1>2. CASE UNCHANGED <<status, cleanup>> /\ \E f : disk' = Report(f)
    BY <1>2 DEF DiskInv, Report, Result
  <1> QED
    BY <1>1, <1>2, DiskSteps

-----------------------------------------------------------------------------
LEMMA CreditInvInit == Init => CreditInv
  <1> SUFFICES ASSUME Init PROVE CreditInv
    OBVIOUS
  <1>1. TypeOK
    BY TypeInit
  <1>2. LoopInv /\ ClosingInv /\ ResultInv /\ DiskInv
    BY DEF Init, LoopInv, ClosingInv, ResultInv, DiskInv, LoopPcs, SetupPcs, CleanupPcs,
           Untouched, Resources, Owned, NoReport
  <1> QED
    BY <1>1, <1>2 DEF CreditInv

LEMMA CreditInvStep == CreditInv /\ [Next]_vars => CreditInv'
  <1> SUFFICES ASSUME CreditInv, [Next]_vars PROVE CreditInv'
    OBVIOUS
  <1>0. TypeOK /\ Inv /\ DiskInv /\ LoopInv
    BY DEF CreditInv, Inv
  <1>1. TypeOK'
    BY <1>0, TypeStep
  <1>2. CASE RunnerStep
    <2>1. Inv'
      BY <1>0, <1>2, InvPreflight, InvCaseSetup, InvCaseCleanup, InvFinalise DEF RunnerStep
    <2>2. DiskInv'
      BY <1>0, <1>2, DiskStep
    <2> QED
      BY <1>1, <2>1, <2>2 DEF CreditInv, Inv
  <1>3. CASE Kill \/ SummaryFallback \/ Done \/ UNCHANGED vars
    <2>1. UNCHANGED <<pc, cur, raised, closing, dirs, buses, servers, strays, status, cleanup,
                      disk, returned, cut>>
      BY <1>3 DEF Kill, SummaryFallback, Done, vars
    <2> QED
      BY <1>0, <1>1, <2>1 DEF CreditInv, Inv, LoopInv, ClosingInv, ResultInv, DiskInv,
                               Untouched, Resources, Owned
  <1> QED
    BY <1>2, <1>3 DEF Next

\* Report integrity follows from the invariant: the verification ladder lets
\* through only passing results with a confirmed cleanup and own evidence.
LEMMA CreditInvSound == CreditInv => CreditSound
  <1> SUFFICES ASSUME CreditInv, Credited(disk), NEW c \in Cases,
                      disk.results[c].status = "passed"
               PROVE  /\ c \in returned \ cut
                      /\ c \notin Resources
                      /\ \E e \in disk.results[c].evidence : e.interface = DriverOf[c]
    BY DEF CreditSound
  <1>1. /\ disk.state = "saved"
        /\ ~ UnfinishedOrUnclean(disk)
        /\ ~ SubjectProblem(disk)
    BY DEF Credited, Verification
  <1>2. DOMAIN disk.results = Cases /\ disk.results[c].case = c
    BY <1>1 DEF CreditInv, DiskInv
  <1>3. disk.results[c].cleanup = {"complete"}
    BY <1>1, <1>2 DEF UnfinishedOrUnclean
  <1>4. status[c] = "passed" /\ cleanup[c] = {"complete"}
    BY <1>1, <1>3 DEF CreditInv, DiskInv
  <1>5. c \in returned \ cut /\ c \notin Resources
    BY <1>4 DEF CreditInv, ResultInv, Resources
  <1>6. c \in Passing(disk)
    BY <1>2 DEF Passing
  <1>7. ~ EvidenceProblem(disk.results[c])
    BY <1>1, <1>6 DEF SubjectProblem
  <1> QED
    BY <1>2, <1>5, <1>7 DEF EvidenceProblem

\* main() keeps its state well typed.
THEOREM TypeCorrect == Spec => []TypeOK
  <1>1. CreditInv => TypeOK
    BY DEF CreditInv
  <1> QED
    BY CreditInvInit, CreditInvStep, <1>1, PTL DEF Spec

\* COVERAGE.md's meaning of passing evidence: whatever happens to the run,
\* report.json is never credited with a case whose handler did not return, whose
\* cleanup was not confirmed or that left nothing at its own interface.
THEOREM CreditIsSound == Spec => []CreditSound
  BY CreditInvInit, CreditInvStep, CreditInvSound, PTL DEF Spec

-----------------------------------------------------------------------------
\* Reported as a set-up error, of its cleanup or of a context's rollback.
Marked(c) == status[c] = "setup-error" /\ (cleanup[c] = {"error"} \/ c \in strays)

\* What makes Isolated inductive: outside the case in hand, and between cases,
\* whatever still holds a resource is reported; a stray of the case in hand has
\* made it a set-up error, unless the run is on its way out.
IsoInv ==
    /\ pc \in LoopPcs => \A c \in Cases : c \in Resources => Marked(c)
    /\ pc \in SetupPcs \union CleanupPcs =>
          \A c \in Cases \ {cur} : c \in Resources => Marked(c)
    /\ pc \in CleanupPcs \union {"save"} =>
          raised = "uncaught" \/ cur \notin strays \/ status[cur] = "setup-error"
    /\ pc = "save" => \A c \in Cases :
          c \in Resources => Marked(c) \/ (c = cur /\ raised = "uncaught")

LEMMA IsoPreflight == CreditInv /\ IsoInv /\ PreflightStep => IsoInv'
  <1> SUFFICES ASSUME CreditInv, IsoInv, PreflightStep PROVE IsoInv'
    OBVIOUS
  <1> USE DEF CreditInv, LoopInv, IsoInv, Marked, Untouched, Resources, Owned, LoopPcs, SetupPcs, CleanupPcs
  <1>1. CASE Open
    BY <1>1 DEF Open
  <1>2. ASSUME NEW e \in Raisable, PreflightRaises(e) PROVE IsoInv'
    BY <1>2 DEF PreflightRaises, Escape
  <1>3. ASSUME NEW declared \in SUBSET Cases, LoadTarget(declared) PROVE IsoInv'
    BY <1>3 DEF LoadTarget, Pending, TypeOK
  <1>4. CASE ProbeTarget
    BY <1>4 DEF ProbeTarget
  <1>5. ASSUME NEW k \in {"cli", "library"}, NextDriver(k) PROVE IsoInv'
    BY <1>5 DEF NextDriver
  <1>6. CASE NoMoreDrivers \/ BuildClient
    BY <1>6 DEF NoMoreDrivers, BuildClient
  <1>7. ASSUME NEW e, BuildClientFails(e) PROVE IsoInv'
    BY <1>7 DEF BuildClientFails
  <1> QED
    BY <1>1, <1>2, <1>3, <1>4, <1>5, <1>6, <1>7 DEF PreflightStep

LEMMA IsoCaseSetup == CreditInv /\ IsoInv /\ CaseSetup => IsoInv'
  <1> SUFFICES ASSUME CreditInv, IsoInv, CaseSetup PROVE IsoInv'
    OBVIOUS
  <1> USE DEF CreditInv, LoopInv, IsoInv, Marked, Untouched, Resources, Owned, LoopPcs, SetupPcs, CleanupPcs
  <1>1. ASSUME NEW c \in Cases, CaseWithoutClient(c) PROVE IsoInv'
    BY <1>1 DEF CaseWithoutClient, Visit, Pending, TypeOK
  <1>2. ASSUME NEW c \in Cases, CaseWithoutApis(c) PROVE IsoInv'
    BY <1>2 DEF CaseWithoutApis, Visit, Pending, TypeOK
  <1>3. ASSUME NEW c \in Cases, StartCase(c) PROVE IsoInv'
    BY <1>3 DEF StartCase, Visit
  <1>4. CASE CasesDone
    BY <1>4 DEF CasesDone
  <1>5. CASE MakeRoot
    BY <1>5 DEF MakeRoot, CaseStep
  <1>6. CASE RunAdapter
    BY <1>6 DEF RunAdapter, CaseStep
  <1>7. CASE EnterBus
    BY <1>7 DEF EnterBus, CaseStep
  <1>8. CASE EnterServing
    BY <1>8 DEF EnterServing, CaseStep
  <1>9. ASSUME NEW ev \in HandlerEvidence, HandlerReturns(ev) PROVE IsoInv'
    BY <1>9 DEF HandlerReturns, CaseStep, TypeOK
  <1>10. ASSUME NEW e \in Raisable, CaseRaises(e) PROVE IsoInv'
    <2>1. /\ pc \in SetupPcs /\ pc' = "close-server" /\ cur \notin strays
          /\ UNCHANGED <<cur, cleanup, dirs, buses, servers, strays>>
      BY <1>10 DEF CaseRaises, Handled
    <2>2. \A c \in Cases \ {cur} : status'[c] = status[c]
      BY <1>10 DEF CaseRaises, Handled, TypeOK
    <2> QED
      BY <2>1, <2>2
  <1>11. ASSUME NEW e \in Raisable, RollbackFails(e) PROVE IsoInv'
    <2>1. /\ pc \in SetupPcs /\ pc' = "close-server" /\ strays' = strays \union {cur}
          /\ UNCHANGED <<cur, cleanup, dirs, buses, servers>>
      BY <1>11 DEF RollbackFails, Handled
    <2>2. \A c \in Cases \ {cur} : status'[c] = status[c]
      BY <1>11 DEF RollbackFails, Handled, TypeOK
    <2>3. raised' = "uncaught" \/ status'[cur] = "setup-error"
      <3>1. e = "uncaught" \/ FailureStatus(e) = "setup-error"
        BY <1>11 DEF RollbackFails, MayRaise, FailureStatus
      <3>2. cur \in Cases
        BY <2>1
      <3> QED
        BY <1>11, <3>1, <3>2 DEF RollbackFails, Handled, TypeOK
    <2> QED
      BY <2>1, <2>2, <2>3
  <1> QED
    BY <1>1, <1>2, <1>3, <1>4, <1>5, <1>6, <1>7, <1>8, <1>9, <1>10, <1>11 DEF CaseSetup

LEMMA IsoCaseCleanup == CreditInv /\ IsoInv /\ CaseCleanup => IsoInv'
  <1> SUFFICES ASSUME CreditInv, IsoInv, CaseCleanup PROVE IsoInv'
    OBVIOUS
  <1> USE DEF IsoInv, Marked, Resources, Owned, LoopPcs, SetupPcs, CleanupPcs
  <1>1. ASSUME NEW r \in {"ok", "error", "uncaught"}, CloseServer(r) PROVE IsoInv'
    BY <1>1 DEF CloseServer, CaseStep, Outcome
  <1>2. ASSUME NEW r \in {"ok", "error", "uncaught"}, CloseBus(r) PROVE IsoInv'
    BY <1>2 DEF CloseBus, CaseStep, Outcome
  <1>3. ASSUME NEW r \in {"ok", "error", "uncaught"}, RemoveRoot(r) PROVE IsoInv'
    BY <1>3 DEF RemoveRoot, CaseStep, Outcome
  <1>4. CASE CleanupVerdict
    <2> USE DEF CreditInv, TypeOK
    <2>1. CASE closing = "none"
      BY <1>4, <2>1 DEF CleanupVerdict, ClosingInv
    <2>2. CASE closing = "error"
      BY <1>4, <2>2 DEF CleanupVerdict
    <2>3. CASE closing = "uncaught"
      BY <1>4, <2>3 DEF CleanupVerdict
    <2> QED
      BY <2>1, <2>2, <2>3
  <1>5. CASE SaveCase
    BY <1>5 DEF SaveCase
  <1>6. CASE Announce
    BY <1>6 DEF Announce
  <1>7. ASSUME NEW e \in {"other", "uncaught"}, ReportingRaises(e) PROVE IsoInv'
    BY <1>7 DEF ReportingRaises, Escape
  <1> QED
    BY <1>1, <1>2, <1>3, <1>4, <1>5, <1>6, <1>7 DEF CaseCleanup

LEMMA IsoStep == CreditInv /\ IsoInv /\ [Next]_vars => IsoInv'
  <1> SUFFICES ASSUME CreditInv, IsoInv, [Next]_vars PROVE IsoInv'
    OBVIOUS
  <1> USE DEF IsoInv, Marked, Resources, Owned, LoopPcs, SetupPcs, CleanupPcs
  <1>1. CASE Finalise
    <2>1. ASSUME NEW decided, OuterExcept(decided) PROVE IsoInv'
      BY <2>1 DEF OuterExcept
    <2>2. ASSUME NEW i, NEW now, Finish(i, now) PROVE IsoInv'
      BY <2>2 DEF Finish
    <2>3. CASE WriteReport \/ FinishRaises
      BY <2>3 DEF WriteReport, FinishRaises
    <2>4. ASSUME NEW appended, DeliverFails(appended) PROVE IsoInv'
      BY <2>4 DEF DeliverFails
    <2>5. CASE Deliver \/ NothingToDeliver \/ Return
      BY <2>5 DEF Deliver, NothingToDeliver, Return
    <2> QED
      BY <1>1, <2>1, <2>2, <2>3, <2>4, <2>5 DEF Finalise
  <1>2. CASE Kill \/ SummaryFallback \/ Done \/ UNCHANGED vars
    BY <1>2 DEF Kill, SummaryFallback, Done, vars
  <1> QED
    BY <1>1, <1>2, IsoPreflight, IsoCaseSetup, IsoCaseCleanup DEF Next, RunnerStep

\* run.py:833-851: cases are isolated, for every suite: while a handler runs, a
\* state directory, bus or server of another case is left only if that case is
\* reported as a set-up error, of its cleanup or of a context's rollback.
THEOREM CasesAreIsolated == Spec => []Isolated
  <1>1. Init => IsoInv
    BY DEF Init, IsoInv, Resources, Owned
  <1>2. IsoInv => Isolated
    BY DEF IsoInv, Isolated, Marked, SetupPcs
  <1> QED
    BY CreditInvInit, CreditInvStep, IsoStep, <1>1, <1>2, PTL DEF Spec

-----------------------------------------------------------------------------
\* What is final, and what the end of a run promises.

InHand == SetupPcs \union CleanupPcs

\* A decision that was saved is the one in memory, and the case in hand has none.
DecidedInv ==
    disk.state = "saved" => \A c \in Cases :
        disk.results[c].status # "pending" =>
            /\ status[c] = disk.results[c].status
            /\ ~ (c = cur /\ pc \in InHand)

\* What the decisions say: selected cases stay selected; without a setup error a failed
\* case was failed by an assertion; a local status of 0 means that nothing went wrong,
\* unless the outer except clause was itself interrupted.
FailInv ==
    /\ \A c \in Cases : Selected(args, c) => status[c] # "not-selected"
    /\ ~ setupError => \A c \in Cases : status[c] = "failed" => c \in asserted
    /\ code = 0 /\ ~ (raised = "uncaught" /\ pc \in {"final", "write"}) =>
          \A c \in Cases : status[c] \in {"pending", "passed", "not-selected"}

\* The summary of the job: the marker follows the report, the summary step the marker.
JobInv ==
    /\ "marker" \in job => "report" \in job
    /\ "done" \in job => "marker" \in job \/ "fallback" \in job

\* The end of main(): what has been accounted is what is saved and returned.
EndInv ==
    /\ pc \in {"write", "summary", "gate"} =>
          /\ code = 0 => final.verification = "current"
          /\ final.verification = "current" =>
                /\ Verification(Report(final), Definition, Definition) = "current"
                /\ accounted = Definition
    /\ pc \in {"summary", "gate"} => disk = Report(final)
    /\ pc = "gate" /\ code = 0 /\ args.actions => "marker" \in job
    /\ exit = "zero" => pc = "gate" /\ (code = 0 \/ (args.allow /\ ExpectedFailuresOnly))

ExitInv == DecidedInv /\ FailInv /\ JobInv /\ EndInv

-----------------------------------------------------------------------------
\* Which decisions a step may change.
Revises ==
    /\ \A c \in Cases : status'[c] # status[c] =>
          status[c] = "pending" \/ (c = cur /\ pc \in InHand)
    /\ pc' \in InHand => (cur' = cur /\ pc \in InHand) \/ status[cur'] = "pending"

\* No step revises a decision, except that of the case in hand.
LEMMA OnlyUndecided == TypeOK /\ LoopInv /\ RunnerStep => Revises
  <1> SUFFICES ASSUME TypeOK, LoopInv, RunnerStep PROVE Revises
    OBVIOUS
  <1> USE DEF Revises, InHand, SetupPcs, CleanupPcs
  <1>1. CASE PreflightStep
    BY <1>1 DEF PreflightStep, Open, PreflightRaises, Escape, LoadTarget, Pending, ProbeTarget,
                NextDriver, NoMoreDrivers, BuildClient, BuildClientFails
  <1>2. CASE CaseSetup
    <2>1. ASSUME NEW c \in Cases, CaseWithoutClient(c) \/ CaseWithoutApis(c) \/ StartCase(c)
          PROVE  Revises
      BY <2>1 DEF CaseWithoutClient, CaseWithoutApis, StartCase, Visit, Pending, TypeOK
    <2>2. ASSUME NEW ev, HandlerReturns(ev) PROVE Revises
      BY <2>2 DEF HandlerReturns, CaseStep, TypeOK
    <2>3. ASSUME NEW e, CaseRaises(e) \/ RollbackFails(e) PROVE Revises
      BY <2>3 DEF CaseRaises, RollbackFails, Handled, TypeOK
    <2>4. CASE CasesDone \/ MakeRoot \/ RunAdapter \/ EnterBus \/ EnterServing
      BY <2>4 DEF CasesDone, MakeRoot, RunAdapter, EnterBus, EnterServing, CaseStep
    <2> QED
      BY <1>2, <2>1, <2>2, <2>3, <2>4 DEF CaseSetup
  <1>3. CASE CaseCleanup
    <2>1. CASE CleanupVerdict
      BY <2>1 DEF CleanupVerdict, TypeOK
    <2>2. CASE ~ CleanupVerdict
      BY <1>3, <2>2 DEF CaseCleanup, CloseServer, CloseBus, RemoveRoot, SaveCase, Announce,
                        ReportingRaises, Escape, CaseStep
    <2> QED
      BY <2>1, <2>2
  <1>4. CASE Finalise
    BY <1>4 DEF Finalise, OuterExcept, Pending, Finish, WriteReport, FinishRaises, Deliver,
                DeliverFails, NothingToDeliver, Return
  <1> QED
    BY <1>1, <1>2, <1>3, <1>4 DEF RunnerStep

\* The steps that write report.json are outside every case.
LEMMA SavesOutside ==
    RunnerStep => \/ UNCHANGED disk
                  \/ UNCHANGED status /\ pc' \notin InHand /\ \E f : disk' = Report(f)
  <1> SUFFICES ASSUME RunnerStep, ~ UNCHANGED disk
               PROVE  UNCHANGED status /\ pc' \notin InHand /\ \E f : disk' = Report(f)
    OBVIOUS
  <1>1. Open \/ SaveCase \/ WriteReport
    BY DEF RunnerStep, PreflightStep, CaseSetup, CaseCleanup, Finalise,
           PreflightRaises, LoadTarget, ProbeTarget, NextDriver, NoMoreDrivers, BuildClient,
           BuildClientFails, CaseWithoutClient, CaseWithoutApis, StartCase, Visit, CasesDone,
           MakeRoot, RunAdapter, EnterBus, EnterServing, HandlerReturns, CaseRaises, RollbackFails,
                Handled, CloseServer, CloseBus, RemoveRoot, CleanupVerdict, Announce, ReportingRaises,
           OuterExcept, Finish, FinishRaises, Deliver, DeliverFails, NothingToDeliver, Return
  <1> QED
    BY <1>1 DEF Open, SaveCase, WriteReport, InHand, SetupPcs, CleanupPcs

LEMMA DecidedStep ==
    TypeOK /\ LoopInv /\ DecidedInv /\ RunnerStep =>
        /\ DecidedInv'
        /\ disk.state = "saved" => \A c \in Cases :
              disk.results[c].status # "pending" =>
                  disk'.results[c].status = disk.results[c].status
  <1> SUFFICES ASSUME TypeOK, LoopInv, DecidedInv, RunnerStep
               PROVE  /\ DecidedInv'
                      /\ disk.state = "saved" => \A c \in Cases :
                            disk.results[c].status # "pending" =>
                                disk'.results[c].status = disk.results[c].status
    OBVIOUS
  <1>0. Revises
    BY OnlyUndecided
  <1>1. CASE UNCHANGED disk
    BY <1>0, <1>1 DEF DecidedInv, Revises
  <1>2. CASE UNCHANGED status /\ pc' \notin InHand /\ \E f : disk' = Report(f)
    <2>1. \A c \in Cases : disk'.results[c].status = status[c]
      BY <1>2 DEF Report, Result
    <2> QED
      BY <1>2, <2>1 DEF DecidedInv
  <1> QED
    BY <1>1, <1>2, SavesOutside

-----------------------------------------------------------------------------
\* failure_status blames the target for assertions only.
LEMMA OnlyContractsFail ==
    ASSUME NEW e, FailureStatus(e) = "failed"
    PROVE  e = "contract"
  BY DEF FailureStatus

LEMMA FailPreflight == TypeOK /\ FailInv /\ PreflightStep => FailInv'
  <1> SUFFICES ASSUME TypeOK, FailInv, PreflightStep PROVE FailInv'
    OBVIOUS
  <1> USE DEF FailInv, Selected
  <1>1. CASE Open
    BY <1>1 DEF Open
  <1>2. ASSUME NEW e \in Raisable, PreflightRaises(e) PROVE FailInv'
    BY <1>2 DEF PreflightRaises, Escape
  <1>3. ASSUME NEW declared \in SUBSET Cases, LoadTarget(declared) PROVE FailInv'
    BY <1>3 DEF LoadTarget, Pending, TypeOK
  <1>4. CASE ProbeTarget
    BY <1>4 DEF ProbeTarget
  <1>5. ASSUME NEW k \in {"cli", "library"}, NextDriver(k) PROVE FailInv'
    BY <1>5 DEF NextDriver
  <1>6. CASE NoMoreDrivers \/ BuildClient
    BY <1>6 DEF NoMoreDrivers, BuildClient
  <1>7. ASSUME NEW e \in {"prerequisite", "other"}, BuildClientFails(e) PROVE FailInv'
    BY <1>7 DEF BuildClientFails
  <1> QED
    BY <1>1, <1>2, <1>3, <1>4, <1>5, <1>6, <1>7 DEF PreflightStep

LEMMA FailCaseSetup == TypeOK /\ LoopInv /\ FailInv /\ CaseSetup => FailInv'
  <1> SUFFICES ASSUME TypeOK, LoopInv, FailInv, CaseSetup PROVE FailInv'
    OBVIOUS
  <1> USE DEF FailInv, Selected
  <1>0. pc \in SetupPcs => cur \in Cases
    BY DEF LoopInv
  <1>1. ASSUME NEW c \in Cases, CaseWithoutClient(c) PROVE FailInv'
    <2>1. FailureStatus(clientError) \notin {"not-selected", "failed"}
      BY FailureStatusType, OnlyContractsFail DEF TypeOK
    <2> QED
      BY <1>1, <2>1 DEF CaseWithoutClient, Visit, TypeOK
  <1>2. ASSUME NEW c \in Cases, CaseWithoutApis(c) PROVE FailInv'
    BY <1>2 DEF CaseWithoutApis, Visit, TypeOK
  <1>3. ASSUME NEW c \in Cases, StartCase(c) PROVE FailInv'
    BY <1>3 DEF StartCase, Visit
  <1>4. CASE CasesDone \/ MakeRoot \/ RunAdapter \/ EnterBus \/ EnterServing
    BY <1>4 DEF CasesDone, MakeRoot, RunAdapter, EnterBus, EnterServing, CaseStep
  <1>5. ASSUME NEW ev, HandlerReturns(ev) PROVE FailInv'
    BY <1>0, <1>5 DEF HandlerReturns, CaseStep, TypeOK, SetupPcs
  <1>6. ASSUME NEW e \in Raisable, CaseRaises(e) \/ RollbackFails(e) PROVE FailInv'
    <2>1. cur \in Cases /\ pc \notin {"final", "write"}
      BY <1>0, <1>6 DEF CaseRaises, RollbackFails, SetupPcs
    <2>2. /\ Handled(e) /\ UNCHANGED args
          /\ asserted \subseteq asserted' /\ (e = "contract" => cur \in asserted')
      <3>1. ~ (e = "contract" /\ RollbackFails(e))
        BY DEF RollbackFails, MayRaise
      <3>2. CASE CaseRaises(e)
        BY <3>2 DEF CaseRaises
      <3>3. CASE RollbackFails(e)
        BY <3>1, <3>3 DEF RollbackFails
      <3> QED
        BY <1>6, <3>2, <3>3
    <2>3. CASE e = "uncaught"
      BY <2>1, <2>2, <2>3 DEF Handled
    <2>4. CASE e # "uncaught"
      <3>1. FailureStatus(e) # "not-selected" /\ (FailureStatus(e) = "failed" => e = "contract")
        BY FailureStatusType, OnlyContractsFail
      <3>2. /\ code' = 1 /\ status' = [status EXCEPT ![cur] = FailureStatus(e)]
            /\ UNCHANGED setupError
        BY <2>2, <2>4 DEF Handled
      <3> QED
        BY <2>1, <2>2, <3>1, <3>2 DEF TypeOK
    <2> QED
      BY <2>3, <2>4
  <1> QED
    BY <1>1, <1>2, <1>3, <1>4, <1>5, <1>6 DEF CaseSetup

LEMMA FailCaseCleanup == TypeOK /\ LoopInv /\ FailInv /\ CaseCleanup => FailInv'
  <1> SUFFICES ASSUME TypeOK, LoopInv, FailInv, CaseCleanup PROVE FailInv'
    OBVIOUS
  <1> USE DEF FailInv, Selected
  <1>1. CASE CleanupVerdict
    <2>1. cur \in Cases
      BY <1>1 DEF CleanupVerdict, LoopInv, CleanupPcs
    <2>2. CASE closing = "none"
      BY <1>1, <2>2 DEF CleanupVerdict
    <2>3. CASE closing = "error"
      BY <1>1, <2>1, <2>3 DEF CleanupVerdict, TypeOK
    <2>4. CASE closing = "uncaught"
      BY <1>1, <2>4 DEF CleanupVerdict
    <2> QED
      BY <2>2, <2>3, <2>4 DEF TypeOK
  <1>2. ASSUME NEW e, ReportingRaises(e) PROVE FailInv'
    BY <1>2 DEF ReportingRaises, Escape
  <1>3. ASSUME NEW r, CloseServer(r) \/ CloseBus(r) \/ RemoveRoot(r) PROVE FailInv'
    BY <1>3 DEF CloseServer, CloseBus, RemoveRoot, CaseStep
  <1>4. CASE SaveCase \/ Announce
    BY <1>4 DEF SaveCase, Announce
  <1> QED
    BY <1>1, <1>2, <1>3, <1>4 DEF CaseCleanup

LEMMA FailFinalise == TypeOK /\ FailInv /\ Finalise => FailInv'
  <1> SUFFICES ASSUME TypeOK, FailInv, Finalise PROVE FailInv'
    OBVIOUS
  <1> USE DEF FailInv, Selected
  <1>1. ASSUME NEW decided \in SUBSET Cases, OuterExcept(decided) PROVE FailInv'
    <2>1. FailureStatus(raised) # "not-selected"
      BY FailureStatusType
    <2>2. setupError' /\ args' = args /\ pc' = "final" /\ (code' = 1 \/ raised' = "uncaught")
          /\ status' = [c \in Cases |-> IF c \in decided THEN FailureStatus(raised) ELSE status[c]]
      BY <1>1 DEF OuterExcept
    <2> QED
      BY <2>1, <2>2
  <1>2. ASSUME NEW i, NEW now, Finish(i, now) PROVE FailInv'
    BY <1>2 DEF Finish
  <1>3. CASE WriteReport \/ FinishRaises \/ NothingToDeliver \/ Return
    BY <1>3 DEF WriteReport, FinishRaises, NothingToDeliver, Return
  <1>4. CASE Deliver
    BY <1>4 DEF Deliver
  <1>5. ASSUME NEW appended, DeliverFails(appended) PROVE FailInv'
    BY <1>5 DEF DeliverFails
  <1> QED
    BY <1>1, <1>2, <1>3, <1>4, <1>5 DEF Finalise

-----------------------------------------------------------------------------
\* Accounting does not look at the verification block it is about to fill in.
LEMMA VerificationIgnored ==
    ASSUME NEW f, NEW g, f.complete = g.complete, f.integrity = g.integrity,
           NEW current, NEW now
    PROVE  Verification(Report(f), current, now) = Verification(Report(g), current, now)
  <1>1. /\ Report(f).definition = Report(g).definition /\ Report(f).complete = Report(g).complete
        /\ Report(f).provenance = Report(g).provenance /\ Report(f).integrity = Report(g).integrity
        /\ Report(f).results = Report(g).results
    BY DEF Report
  <1>2. OneResultPerCase(Report(f)) <=> OneResultPerCase(Report(g))
    BY <1>1 DEF OneResultPerCase
  <1>3. UnfinishedOrUnclean(Report(f)) <=> UnfinishedOrUnclean(Report(g))
    BY <1>1 DEF UnfinishedOrUnclean
  <1>4. Passing(Report(f)) = Passing(Report(g))
    BY <1>1 DEF Passing
  <1>5. SubjectProblem(Report(f)) <=> SubjectProblem(Report(g))
    BY <1>1, <1>4 DEF SubjectProblem
  <1> QED
    BY <1>1, <1>2, <1>3, <1>5 DEF Verification

\* A report is current only for the suite as it was loaded.
LEMMA CurrentMeansUnchanged ==
    ASSUME NEW report, NEW now, Verification(report, Definition, now) = "current"
    PROVE  now = Definition /\ Verification(report, Definition, Definition) = "current"
  BY DEF Verification

\* What a current report says of the results in memory.
LEMMA CurrentResults ==
    ASSUME NEW f, Verification(Report(f), Definition, Definition) = "current"
    PROVE  \A c \in Cases : /\ status[c] # "pending"
                            /\ status[c] = "passed" => cleanup[c] = {"complete"}
  <1> DEFINE R == Report(f)
  <1>1. ~ UnfinishedOrUnclean(R)
    BY DEF Verification
  <1>2. /\ DOMAIN R.results = Cases
        /\ \A c \in Cases : R.results[c].status = status[c] /\ R.results[c].cleanup = cleanup[c]
    BY DEF Report, Result
  <1> HIDE DEF R
  <1> QED
    BY <1>1, <1>2 DEF UnfinishedOrUnclean, Statuses

LEMMA JobStep == JobInv /\ [Next]_vars => JobInv'
  <1> SUFFICES ASSUME JobInv, [Next]_vars PROVE JobInv'
    OBVIOUS
  <1> USE DEF JobInv
  <1>1. CASE Deliver
    BY <1>1 DEF Deliver
  <1>2. ASSUME NEW appended \in {{}, {"report"}}, DeliverFails(appended) PROVE JobInv'
    BY <1>2 DEF DeliverFails
  <1>3. CASE SummaryFallback
    BY <1>3 DEF SummaryFallback
  <1>4. CASE UNCHANGED job
    BY <1>4
  <1>5. Deliver \/ (\E appended \in {{}, {"report"}} : DeliverFails(appended))
        \/ SummaryFallback \/ UNCHANGED job
    BY DEF Next, RunnerStep, PreflightStep, CaseSetup, CaseCleanup, Finalise, Open,
           PreflightRaises, LoadTarget, ProbeTarget, NextDriver, NoMoreDrivers, BuildClient,
           BuildClientFails, CaseWithoutClient, CaseWithoutApis, StartCase, Visit, CasesDone,
           MakeRoot, RunAdapter, EnterBus, EnterServing, HandlerReturns, CaseRaises, RollbackFails,
                Handled, CloseServer, CloseBus, RemoveRoot, CleanupVerdict, SaveCase, Announce,
           ReportingRaises, OuterExcept, Finish, WriteReport, FinishRaises,
           NothingToDeliver, Return, Kill, Done, vars
  <1> QED
    BY <1>1, <1>2, <1>3, <1>4, <1>5

\* Nothing before the final accounting comes near the end of main().
LEMMA EarlySteps ==
    TypeOK /\ (PreflightStep \/ CaseSetup \/ CaseCleanup) =>
        pc' \notin {"write", "summary", "gate"} /\ exit = "running" /\ exit' = "running"
  <1> DEFINE Early == pc' \notin {"write", "summary", "gate"} /\ exit = "running" /\ exit' = exit
  <1>1. PreflightStep => Early
    BY DEF PreflightStep, Open, PreflightRaises, Escape, LoadTarget, ProbeTarget, NextDriver,
           NoMoreDrivers, BuildClient, BuildClientFails
  <1>2. CaseSetup => Early
    <2>1. ASSUME NEW c \in Cases, CaseWithoutClient(c) \/ CaseWithoutApis(c) \/ StartCase(c)
          PROVE  Early
      BY <2>1 DEF CaseWithoutClient, CaseWithoutApis, StartCase, Visit
    <2>2. CASE CasesDone \/ MakeRoot \/ RunAdapter \/ EnterBus \/ EnterServing
      BY <2>2 DEF CasesDone, MakeRoot, RunAdapter, EnterBus, EnterServing, CaseStep
    <2>3. ASSUME NEW ev, HandlerReturns(ev) PROVE Early
      BY <2>3 DEF HandlerReturns, CaseStep
    <2>4. ASSUME NEW e, CaseRaises(e) \/ RollbackFails(e) PROVE Early
      BY <2>4 DEF CaseRaises, RollbackFails, Handled
    <2> QED
      BY <2>1, <2>2, <2>3, <2>4 DEF CaseSetup
  <1>3. TypeOK /\ CaseCleanup => Early
    <2>1. TypeOK /\ CleanupVerdict => Early
      <3>1. CleanupVerdict /\ closing = "none" => Early
        BY DEF CleanupVerdict
      <3>2. CleanupVerdict /\ closing = "error" => Early
        BY DEF CleanupVerdict
      <3>3. CleanupVerdict /\ closing = "uncaught" => Early
        BY DEF CleanupVerdict
      <3> QED
        BY <3>1, <3>2, <3>3 DEF TypeOK
    <2>2. ASSUME NEW r, CloseServer(r) \/ CloseBus(r) \/ RemoveRoot(r) PROVE Early
      BY <2>2 DEF CaseStep, CloseServer, CloseBus, RemoveRoot
    <2>3. CASE SaveCase \/ Announce
      BY <2>3 DEF SaveCase, Announce
    <2>4. ASSUME NEW e, ReportingRaises(e) PROVE Early
      BY <2>4 DEF ReportingRaises, Escape
    <2> QED
      BY <2>1, <2>2, <2>3, <2>4 DEF CaseCleanup
  <1> QED
    BY <1>1, <1>2, <1>3

LEMMA EndFinalise == TypeOK /\ EndInv /\ Finalise => EndInv'
  <1> SUFFICES ASSUME TypeOK, EndInv, Finalise PROVE EndInv'
    OBVIOUS
  <1> USE DEF EndInv
  <1>1. ASSUME NEW decided, OuterExcept(decided) PROVE EndInv'
    BY <1>1 DEF OuterExcept
  <1>2. ASSUME NEW i \in {"verified", "changed"}, NEW now, Finish(i, now) PROVE EndInv'
    <2> DEFINE f == [complete |-> Pending = {}, integrity |-> i, verification |-> "none"]
               v == Verification(Report(f), Definition, now)
               g == [f EXCEPT !.verification = v]
    <2>1. /\ pc' = "write" /\ final' = g /\ exit' = exit /\ exit = "running"
          /\ code' = IF i # "verified" \/ v # "current" THEN 1 ELSE code
          /\ accounted' = now
          /\ UNCHANGED <<status, cleanup, evidence, provenance, setupError>>
      BY <1>2 DEF Finish
    <2>2. g.complete = f.complete /\ g.integrity = f.integrity /\ g.verification = v
      OBVIOUS
    <2>3. v = "current" =>
            now = Definition /\ Verification(Report(g), Definition, Definition) = "current"
      <3> HIDE DEF f, g
      <3>1. v = Verification(Report(g), Definition, now)
        BY <2>2, VerificationIgnored
      <3> QED
        BY <3>1, CurrentMeansUnchanged
    <2>4. Report(final)' = Report(g)
      <3> HIDE DEF g
      <3> QED
        BY <2>1 DEF Report, Result
    <2>5. Verification(Report(final), Definition, Definition)' =
            Verification(Report(g), Definition, Definition)
      <3> HIDE DEF g
      <3> QED
        BY <2>4
    <2>6. final'.verification = v
      BY <2>1, <2>2
    <2>7. code' = 0 => v = "current"
      BY <2>1
    <2> HIDE DEF f, g, v
    <2> QED
      BY <2>1, <2>3, <2>5, <2>6, <2>7
  <1>3. CASE UNCHANGED <<status, cleanup, evidence, provenance, setupError, final, accounted>>
    <2>1. Report(final)' = Report(final)
      BY <1>3 DEF Report, Result
    <2>2. Verification(Report(final), Definition, Definition)' =
            Verification(Report(final), Definition, Definition)
      BY <2>1
    <2>3. CASE WriteReport
      BY <2>1, <2>2, <2>3, <1>3 DEF WriteReport
    <2>4. CASE FinishRaises
      BY <2>1, <2>2, <2>4, <1>3 DEF FinishRaises
    <2>5. CASE Deliver
      BY <2>1, <2>2, <2>5, <1>3 DEF Deliver
    <2>6. ASSUME NEW appended, DeliverFails(appended) PROVE EndInv'
      BY <2>1, <2>2, <2>6, <1>3 DEF DeliverFails
    <2>7. CASE NothingToDeliver
      BY <2>1, <2>2, <2>7, <1>3 DEF NothingToDeliver
    <2>8. CASE Return
      <3>1. ExpectedFailuresOnly' <=> ExpectedFailuresOnly
        BY <2>8 DEF Return, ExpectedFailuresOnly
      <3> QED
        BY <2>1, <2>2, <2>8, <3>1, <1>3 DEF Return
    <2> QED
      BY <1>1, <1>2, <2>3, <2>4, <2>5, <2>6, <2>7, <2>8 DEF Finalise
  <1>4. WriteReport \/ FinishRaises \/ Deliver \/ (\E appended : DeliverFails(appended))
        \/ NothingToDeliver \/ Return
        => UNCHANGED <<status, cleanup, evidence, provenance, setupError, final, accounted>>
    BY DEF WriteReport, FinishRaises, Deliver, DeliverFails, NothingToDeliver, Return
  <1> QED
    BY <1>1, <1>2, <1>3, <1>4 DEF Finalise

\* After main() only the summary of the job changes.
LEMMA EndAfter == EndInv /\ (Kill \/ SummaryFallback \/ UNCHANGED vars) => EndInv'
  <1> SUFFICES ASSUME EndInv, Kill \/ SummaryFallback \/ UNCHANGED vars PROVE EndInv'
    OBVIOUS
  <1>1. /\ UNCHANGED <<pc, args, code, disk>>
        /\ UNCHANGED <<status, cleanup, evidence, provenance, setupError, final, accounted>>
        /\ job \subseteq job' /\ (exit' = exit \/ exit' = "killed")
    BY DEF Kill, SummaryFallback, vars
  <1>2. Report(final)' = Report(final)
    BY <1>1 DEF Report, Result
  <1>3. Verification(Report(final), Definition, Definition)' =
          Verification(Report(final), Definition, Definition)
    BY <1>2
  <1>4. ExpectedFailuresOnly => ExpectedFailuresOnly'
    BY <1>1 DEF ExpectedFailuresOnly
  <1> QED
    BY <1>1, <1>2, <1>3, <1>4 DEF EndInv

-----------------------------------------------------------------------------
LEMMA ExitInvInit == Init => ExitInv
  BY DEF Init, ExitInv, DecidedInv, FailInv, JobInv, EndInv, NoReport

LEMMA ExitInvStep == CreditInv /\ ExitInv /\ [Next]_vars => ExitInv'
  <1> SUFFICES ASSUME CreditInv, ExitInv, [Next]_vars PROVE ExitInv'
    OBVIOUS
  <1>0. TypeOK /\ LoopInv /\ DecidedInv /\ FailInv /\ JobInv /\ EndInv
    BY DEF CreditInv, ExitInv
  <1>1. JobInv'
    BY <1>0, JobStep
  <1>2. CASE RunnerStep
    <2>1. DecidedInv'
      BY <1>0, <1>2, DecidedStep
    <2>2. FailInv'
      BY <1>0, <1>2, FailPreflight, FailCaseSetup, FailCaseCleanup, FailFinalise DEF RunnerStep
    <2>3. CASE Finalise
      <3>1. EndInv'
        BY <1>0, <2>3, EndFinalise
      <3> QED
        BY <1>1, <2>1, <2>2, <3>1 DEF ExitInv
    <2>4. CASE PreflightStep \/ CaseSetup \/ CaseCleanup
      <3>1. EndInv'
        BY <1>0, <2>4, EarlySteps DEF EndInv
      <3> QED
        BY <1>1, <2>1, <2>2, <3>1 DEF ExitInv
    <2> QED
      BY <1>2, <2>3, <2>4 DEF RunnerStep
  <1>3. CASE Kill \/ SummaryFallback \/ UNCHANGED vars
    <2>1. EndInv'
      BY <1>0, <1>3, EndAfter
    <2>2. UNCHANGED <<pc, disk, status, cur, args, setupError, asserted, code, raised>>
      BY <1>3 DEF Kill, SummaryFallback, vars
    <2>3. DecidedInv'
      BY <1>0, <2>2 DEF DecidedInv
    <2>4. FailInv'
      BY <1>0, <2>2 DEF FailInv, Selected
    <2> QED
      BY <1>1, <2>1, <2>3, <2>4 DEF ExitInv
  <1> QED
    BY <1>2, <1>3 DEF Next, Done

\* A zero status promises what ExitZeroSound says of it.
LEMMA ZeroMeansSound == CreditInv /\ ExitInv => ExitZeroSound
  <1> SUFFICES ASSUME CreditInv, ExitInv, exit = "zero"
               PROVE  /\ \A c \in Cases :
                            Selected(args, c) =>
                               \/ status[c] = "passed" /\ c \in returned /\ cleanup[c] = {"complete"}
                               \/ args.allow /\ c \in asserted \ Sensitive /\ status[c] = "failed"
                      /\ accounted = Definition
                      /\ Credited(disk) /\ disk.verification = "current"
                      /\ args.actions => {"report", "marker"} \subseteq job
    BY DEF ExitZeroSound
  <1>1. pc = "gate" /\ disk = Report(final)
        /\ (code = 0 \/ (args.allow /\ ExpectedFailuresOnly))
    BY DEF ExitInv, EndInv
  <1>2. final.verification = "current"
    BY <1>1 DEF ExitInv, EndInv, ExpectedFailuresOnly
  <1>3. Verification(Report(final), Definition, Definition) = "current" /\ accounted = Definition
    BY <1>1, <1>2 DEF ExitInv, EndInv
  <1>4. \A c \in Cases : /\ status[c] # "pending"
                         /\ status[c] = "passed" => cleanup[c] = {"complete"} /\ c \in returned
    BY <1>3, CurrentResults DEF CreditInv, ResultInv
  <1>5. ASSUME NEW c \in Cases, Selected(args, c)
        PROVE  \/ status[c] = "passed" /\ c \in returned /\ cleanup[c] = {"complete"}
               \/ args.allow /\ c \in asserted \ Sensitive /\ status[c] = "failed"
    <2>1. status[c] # "not-selected"
      BY <1>5 DEF ExitInv, FailInv
    <2>2. CASE code = 0
      <3>1. status[c] \in {"pending", "passed", "not-selected"}
        BY <1>1, <2>2 DEF ExitInv, FailInv
      <3> QED
        BY <1>4, <2>1, <3>1
    <2>3. CASE args.allow /\ ExpectedFailuresOnly
      <3>1. status[c] \in {"passed", "failed", "not-selected"} /\ ~ setupError
            /\ (c \in Sensitive => status[c] # "failed")
        BY <2>3 DEF ExpectedFailuresOnly
      <3>2. status[c] = "failed" => c \in asserted
        BY <3>1 DEF ExitInv, FailInv
      <3> QED
        BY <1>4, <2>1, <2>3, <3>1, <3>2
    <2> QED
      BY <1>1, <2>2, <2>3
  <1>6. Credited(disk) /\ disk.verification = "current"
    <2>1. disk.state = "saved" /\ disk.verification = final.verification
      BY <1>1 DEF Report
    <2> QED
      BY <1>1, <1>2, <1>3, <2>1 DEF Credited
  <1>7. args.actions => {"report", "marker"} \subseteq job
    BY <1>1 DEF ExitInv, EndInv, JobInv, ExpectedFailuresOnly
  <1> QED
    BY <1>3, <1>5, <1>6, <1>7

\* run.py:79-104, 899-903: for every suite, a zero exit status means that
\* each selected case passed with its cleanup confirmed or, where expected failures are
\* allowed, was failed by an assertion and is not security sensitive; that the suite had
\* not changed when the run was accounted; that the report on disk would be credited; and
\* that a CI job shows it.
THEOREM ExitZeroIsSound == Spec => []ExitZeroSound
  BY CreditInvInit, CreditInvStep, ExitInvInit, ExitInvStep, ZeroMeansSound, PTL DEF Spec

\* run.py:887-898, ci/compatibility.sh: wherever a run is cut off, the summary step leaves
\* a summary: the marker is saved after the report was appended.
THEOREM SummaryIsShown == Spec => []SummaryShown
  <1>1. JobInv => SummaryShown
    BY DEF JobInv, SummaryShown
  <1>2. ExitInv => JobInv
    BY DEF ExitInv
  <1> QED
    BY CreditInvInit, CreditInvStep, ExitInvInit, ExitInvStep, <1>1, <1>2, PTL DEF Spec

\* run.py:751-863: for every suite, no save revises a decision an earlier save recorded:
\* neither the cleanup of a case nor the outer except clause rewrites it.
THEOREM DecidedStaysDecided == Spec => DecidedIsFinal
  <1> DEFINE Kept == disk.state = "saved" => \A c \in Cases :
                        disk.results[c].status # "pending" =>
                            disk'.results[c].status = disk.results[c].status
  <1>1. CreditInv /\ ExitInv /\ [Next]_vars => Kept
    <2> SUFFICES ASSUME CreditInv, ExitInv, [Next]_vars PROVE Kept
      OBVIOUS
    <2>1. CASE RunnerStep
      BY <2>1, DecidedStep DEF CreditInv, ExitInv
    <2>2. CASE Kill \/ SummaryFallback \/ UNCHANGED vars
      BY <2>2 DEF Kill, SummaryFallback, vars
    <2> QED
      BY <2>1, <2>2 DEF Next, Done
  <1>2. CreditInv /\ ExitInv /\ [Next]_vars => [Kept]_vars
    BY <1>1
  <1> HIDE DEF Kept
  <1>3. Spec => [][Kept]_vars
    BY CreditInvInit, CreditInvStep, ExitInvInit, ExitInvStep, <1>2, PTL DEF Spec
  <1> QED
    BY <1>3 DEF DecidedIsFinal, Kept
=============================================================================
