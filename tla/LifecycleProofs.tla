-------------------------- MODULE LifecycleProofs --------------------------
(***************************************************************************)
(* Proofs about the lifecycle scenarios, for every number of payloads,     *)
(* every set of deviations and requests that are answered at any time.     *)
(*                                                                         *)
(* A program is related to the situations a target that keeps its contract *)
(* goes through: Fine says that a step leads from one to the next and      *)
(* requires nothing but what the contract gives.                           *)
(*                                                                         *)
(* That a breach is caught rests on what follows the steps that can pass   *)
(* one: Watched says which steps look at the installation, Dooms that one  *)
(* of them is about to, and Lost that an outcome fails its own step.       *)
(***************************************************************************)
EXTENDS Lifecycle, SequenceTheorems, TLAPS

\* What a step may be.
StepOps == {"remote", "install", "install-abort-ready", "update", "uninstall", "query", "run",
            "list-refs", "list-apps", "publish B", "block", "unblock", "mark"}
StepRefs == {"url", "app", "runtime", "missing", "all", "repository"}
StepNeeds == {"success", "failure", "empty", "warned", "aborted", "accepted", "blocked download",
              "restored download", "A", "B", "R", "NOT_INSTALLED", "ALREADY_INSTALLED",
              "REF_NOT_FOUND", "nothing"}
Steps == [op : StepOps, ref : StepRefs, need : StepNeeds, raises : {"setup-error", "failed"}]

-----------------------------------------------------------------------------
\* Situations, and what a step does to them.

\* What is installed and published, whether downloads fail, whether the retry's mark was
\* set and the retry made, and whether the update whose downloads fail was run.
Situations == [app : {"none"} \union Versions, runtime : {"none", "R"}, version : Versions,
               blocked : BOOLEAN, marked : BOOLEAN, retried : BOOLEAN, refused : BOOLEAN]
Situation(a, r, v, blocked, marked, retried, refused) ==
    [app |-> a, runtime |-> r, version |-> v, blocked |-> blocked, marked |-> marked,
     retried |-> retried, refused |-> refused]
Fresh == Situation("none", "none", "A", FALSE, FALSE, FALSE, FALSE)

\* The commands that fetch payloads.
Fetching == {"install", "update"}

\* An assignment to the repository.
Assigns(c, s, t) ==
    /\ t.app = s.app /\ t.runtime = s.runtime
    /\ t.version = IF c.op = "publish B" THEN "B" ELSE s.version
    /\ t.blocked = CASE c.op = "block" -> TRUE [] c.op = "unblock" -> FALSE [] OTHER -> s.blocked

\* A command that leaves the installation as it is.
Quiet(k, c, s) ==
    \/ c.op = "remote" /\ c.need = "success"
    \/ c.op = "install" /\ c.ref = "missing" /\ c.need = "REF_NOT_FOUND"
    \/ /\ c.op = "install" /\ c.ref = "app" /\ s.app # "none"
       /\ c.need = IF k = "cli" THEN "warned" ELSE "ALREADY_INSTALLED"
    \/ c.op = "install-abort-ready" /\ c.need = "aborted"
    \/ c.op = "update" /\ c.ref = "app" /\ s.app = s.version /\ c.need = "success"
    \/ c.op = "update" /\ c.ref = "app" /\ s.app # s.version /\ s.blocked /\ c.need = "blocked download"
    \/ c.op = "uninstall" /\ c.ref = "missing" /\ c.need = "NOT_INSTALLED"
    \/ c.op = "query" /\ c.ref = "missing" /\ c.need = "NOT_INSTALLED"
    \/ c.op = "query" /\ c.ref = "app" /\ s.app # "none" /\ c.need = s.app
    \/ c.op = "query" /\ c.ref = "app" /\ s.app = "none"
       /\ c.need = IF k = "cli" THEN "failure" ELSE "NOT_INSTALLED"
    \/ c.op = "query" /\ c.ref = "runtime" /\ s.runtime # "none" /\ c.need = s.runtime
    \/ c.op = "run" /\ s.app # "none" /\ c.need = s.app
    \/ c.op = "list-refs" /\ s.app = "none" /\ s.runtime = "none" /\ c.need = "empty"
    \/ c.op = "list-apps" /\ s.app = "none" /\ c.need = "empty"

\* A command that changes it.
Changing(c, s, t) ==
    \/ /\ c.op = "install" /\ c.ref = "app" /\ s.app = "none" /\ ~s.blocked
       /\ c.need \in {"success", "accepted"}
       /\ t.app = s.version /\ t.runtime = "R"
    \/ /\ c.op = "update" /\ c.ref = "app" /\ s.app # s.version /\ ~s.blocked
       /\ c.need = "success" \/ (c.need = "restored download" /\ s.version = "B")
       /\ t.app = s.version /\ t.runtime = s.runtime
    \/ /\ c.op = "uninstall" /\ c.ref = "app" /\ s.app # "none" /\ c.need = "success"
       /\ t.app = "none" /\ t.runtime = s.runtime

Obeys(k, c, s, t) ==
    /\ t.version = s.version /\ t.blocked = s.blocked
    /\ \/ Quiet(k, c, s) /\ t.app = s.app /\ t.runtime = s.runtime
       \/ Changing(c, s, t)

\* The mark is set once, and only the retry, made once, fetches after it; the update whose
\* downloads fail is run once.
Marks(c, s, t) ==
    /\ t.marked = (s.marked \/ c.op = "mark")
    /\ t.retried = (s.retried \/ c.need = "restored download")
    /\ t.refused = (s.refused \/ c.need = "blocked download")
    /\ c.op = "mark" => ~s.marked /\ c.ref = "repository"
    /\ c.need = "restored download" => s.marked /\ ~s.retried /\ c.ref # "repository"
    /\ c.need = "blocked download" => ~s.refused /\ c.ref # "repository"
    /\ s.retried => s.marked
    /\ s.marked /\ c.op \in Fetching => c.need = "restored download"

Fine(k, c, s, t) ==
    /\ Marks(c, s, t)
    /\ IF c.ref = "repository" THEN Assigns(c, s, t) ELSE Obeys(k, c, s, t)

\* The situations tr before each step of P, and after the last.
Along(k, P, tr) ==
    /\ tr \in [1..(Len(P) + 1) -> Situations]
    /\ \A i \in 1..Len(P) : Fine(k, P[i], tr[i], tr[i + 1])
Leads(k, P, s, t) ==
    /\ P \in Seq(Steps)
    /\ \E tr : Along(k, P, tr) /\ tr[1] = s /\ tr[Len(P) + 1] = t

-----------------------------------------------------------------------------
\* Programs are put together from parts.

LEMMA LeadsJoin ==
    ASSUME NEW k, NEW P, NEW Q, NEW s, NEW t, NEW u, Leads(k, P, s, t), Leads(k, Q, t, u)
    PROVE  Leads(k, P \o Q, s, u)
<1>1. PICK a : Along(k, P, a) /\ a[1] = s /\ a[Len(P) + 1] = t
  BY DEF Leads
<1>2. PICK b : Along(k, Q, b) /\ b[1] = t /\ b[Len(Q) + 1] = u
  BY DEF Leads
<1>3. P \in Seq(Steps) /\ Q \in Seq(Steps) /\ Len(P) \in Nat /\ Len(Q) \in Nat
  BY DEF Leads
<1> DEFINE R == P \o Q
           p == Len(P)
           q == Len(Q)
           c == [i \in 1..(p + q + 1) |-> IF i <= p THEN a[i] ELSE b[i - p]]
<1>4. /\ R \in Seq(Steps) /\ Len(R) = p + q
      /\ \A i \in 1..(p + q) : R[i] = IF i <= p THEN P[i] ELSE Q[i - p]
  BY <1>3, ConcatProperties
<1>5. a \in [1..(p + 1) -> Situations] /\ b \in [1..(q + 1) -> Situations]
  BY <1>1, <1>2 DEF Along
<1>6. c \in [1..(p + q + 1) -> Situations]
  BY <1>3, <1>5
<1>7. \A i \in 1..p : Fine(k, P[i], a[i], a[i + 1])
  BY <1>1 DEF Along
<1>8. \A i \in 1..q : Fine(k, Q[i], b[i], b[i + 1])
  BY <1>2 DEF Along
<1>9. a[p + 1] = b[1]
  BY <1>1, <1>2
<1>10. c[1] = s /\ c[p + q + 1] = u
  <2>1. c[1] = IF 1 <= p THEN a[1] ELSE b[1 - p]
    BY <1>3
  <2>2. c[p + q + 1] = b[q + 1]
    BY <1>3
  <2>3. p = 0 => 1 - p = 1 /\ p + 1 = 1
    BY <1>3
  <2> QED
    BY <1>1, <1>2, <1>3, <2>1, <2>2, <2>3
<1> HIDE DEF R, p, q
<1>11. ASSUME NEW i \in 1..(p + q) PROVE Fine(k, R[i], c[i], c[i + 1])
  <2>0. p \in Nat /\ q \in Nat
    BY <1>3 DEF p, q
  <2>1. CASE i < p
    <3>1. i \in 1..p /\ R[i] = P[i] /\ c[i] = a[i] /\ c[i + 1] = a[i + 1]
      BY <1>4, <2>0, <2>1
    <3> QED
      BY <1>7, <3>1
  <2>2. CASE i = p
    <3>1. i \in 1..p /\ R[i] = P[i] /\ c[i] = a[i] /\ c[i + 1] = b[1]
      BY <1>4, <2>0, <2>2
    <3>2. c[i + 1] = a[i + 1]
      BY <1>9, <2>2, <3>1
    <3> QED
      BY <1>7, <3>1, <3>2
  <2>3. CASE i > p
    <3>1. i - p \in 1..q /\ R[i] = Q[i - p] /\ c[i] = b[i - p] /\ c[i + 1] = b[(i - p) + 1]
      BY <1>4, <2>0, <2>3
    <3> QED
      BY <1>8, <3>1
  <2> QED
    BY <2>0, <2>1, <2>2, <2>3
<1>12. Len(R) = p + q /\ R \in Seq(Steps)
  BY <1>4
<1> HIDE DEF c
<1>13. Along(k, R, c)
  BY <1>6, <1>11, <1>12 DEF Along
<1>14. Leads(k, R, s, u)
  BY <1>10, <1>12, <1>13 DEF Leads
<1> QED
  BY <1>14 DEF R

LEMMA LeadsOne ==
    ASSUME NEW k, NEW c \in Steps, NEW s \in Situations, NEW t \in Situations, Fine(k, c, s, t)
    PROVE  Leads(k, <<c>>, s, t)
<1> DEFINE tr == [i \in 1..2 |-> IF i = 1 THEN s ELSE t]
           P == <<c>>
<1>1. P \in Seq(Steps) /\ Len(P) = 1 /\ P[1] = c
  OBVIOUS
<1>2. tr \in [1..2 -> Situations] /\ tr[1] = s /\ tr[2] = t
  OBVIOUS
<1> HIDE DEF tr, P
<1>3. Along(k, P, tr)
  BY <1>1, <1>2 DEF Along
<1>4. Leads(k, P, s, t)
  BY <1>1, <1>2, <1>3 DEF Leads
<1> QED
  BY <1>4 DEF P

LEMMA LeadsTwo ==
    ASSUME NEW k, NEW c \in Steps, NEW d \in Steps,
           NEW s \in Situations, NEW t \in Situations, NEW u \in Situations,
           Fine(k, c, s, t), Fine(k, d, t, u)
    PROVE  Leads(k, <<c, d>>, s, u)
<1> DEFINE tr == [i \in 1..3 |-> IF i = 1 THEN s ELSE IF i = 2 THEN t ELSE u]
           P == <<c, d>>
<1>1. P \in Seq(Steps) /\ Len(P) = 2 /\ P[1] = c /\ P[2] = d
  OBVIOUS
<1>2. tr \in [1..3 -> Situations] /\ tr[1] = s /\ tr[2] = t /\ tr[3] = u
  OBVIOUS
<1> HIDE DEF tr, P
<1>3. Along(k, P, tr)
  BY <1>1, <1>2 DEF Along
<1>4. Leads(k, P, s, u)
  BY <1>1, <1>2, <1>3 DEF Leads
<1> QED
  BY <1>4 DEF P

LEMMA LeadsThree ==
    ASSUME NEW k, NEW c \in Steps, NEW d \in Steps, NEW e \in Steps,
           NEW s \in Situations, NEW t \in Situations, NEW u \in Situations, NEW v \in Situations,
           Fine(k, c, s, t), Fine(k, d, t, u), Fine(k, e, u, v)
    PROVE  Leads(k, <<c, d, e>>, s, v)
<1> DEFINE tr == [i \in 1..4 |-> IF i = 1 THEN s ELSE IF i = 2 THEN t ELSE IF i = 3 THEN u ELSE v]
           P == <<c, d, e>>
<1>1. P \in Seq(Steps) /\ Len(P) = 3 /\ P[1] = c /\ P[2] = d /\ P[3] = e
  OBVIOUS
<1>2. tr \in [1..4 -> Situations] /\ tr[1] = s /\ tr[2] = t /\ tr[3] = u /\ tr[4] = v
  OBVIOUS
<1> HIDE DEF tr, P
<1>3. Along(k, P, tr)
  BY <1>1, <1>2 DEF Along
<1>4. Leads(k, P, s, v)
  BY <1>1, <1>2, <1>3 DEF Leads
<1> QED
  BY <1>4 DEF P

LEMMA LeadsFour ==
    ASSUME NEW k, NEW c \in Steps, NEW d \in Steps, NEW e \in Steps, NEW f \in Steps,
           NEW s \in Situations, NEW t \in Situations,
           Fine(k, c, s, s), Fine(k, d, s, s), Fine(k, e, s, s), Fine(k, f, s, t)
    PROVE  Leads(k, <<c, d, e, f>>, s, t)
<1> DEFINE tr == [i \in 1..5 |-> IF i = 5 THEN t ELSE s]
           P == <<c, d, e, f>>
<1>1. P \in Seq(Steps) /\ Len(P) = 4 /\ P[1] = c /\ P[2] = d /\ P[3] = e /\ P[4] = f
  OBVIOUS
<1>2. tr \in [1..5 -> Situations] /\ tr[1] = s /\ tr[2] = s /\ tr[3] = s /\ tr[4] = s /\ tr[5] = t
  OBVIOUS
<1> HIDE DEF tr, P
<1>3. Along(k, P, tr)
  BY <1>1, <1>2 DEF Along
<1>4. Leads(k, P, s, t)
  BY <1>1, <1>2, <1>3 DEF Leads
<1> QED
  BY <1>4 DEF P

-----------------------------------------------------------------------------
\* The scenarios.

\* The situations the scenarios go through.
AtA == Situation("A", "R", "A", FALSE, FALSE, FALSE, FALSE)
BPublished == Situation("A", "R", "B", FALSE, FALSE, FALSE, FALSE)
AtB == Situation("B", "R", "B", FALSE, FALSE, FALSE, FALSE)
Removed == Situation("none", "R", "B", FALSE, FALSE, FALSE, FALSE)
Blocking == Situation("A", "R", "B", TRUE, FALSE, FALSE, FALSE)
Denied == Situation("A", "R", "B", TRUE, FALSE, FALSE, TRUE)
Restored == Situation("A", "R", "B", FALSE, FALSE, FALSE, TRUE)
Retrying == Situation("A", "R", "B", FALSE, TRUE, FALSE, TRUE)
Retried == Situation("B", "R", "B", FALSE, TRUE, TRUE, TRUE)

LEMMA SituationsShape ==
    /\ Fresh \in Situations /\ AtA \in Situations /\ BPublished \in Situations /\ AtB \in Situations
    /\ Removed \in Situations /\ Blocking \in Situations /\ Denied \in Situations
    /\ Restored \in Situations /\ Retrying \in Situations /\ Retried \in Situations
<1>1. \A a \in {"none"} \union Versions, r \in {"none", "R"}, v \in Versions, x, y, z, w \in BOOLEAN :
        Situation(a, r, v, x, y, z, w) \in Situations
  BY DEF Situation, Situations
<1>2. "A" \in Versions /\ "B" \in Versions
  BY DEF Versions
<1> QED
  BY <1>1, <1>2 DEF Fresh, AtA, BPublished, AtB, Removed, Blocking, Denied, Restored, Retrying, Retried

LEMMA StepsShape ==
    ASSUME NEW op \in StepOps, NEW ref \in StepRefs, NEW need \in StepNeeds,
           NEW raises \in {"setup-error", "failed"}
    PROVE  Command(op, ref, need, raises) \in Steps
BY DEF Command, Steps

\* What is installed is shown and runs.
LEMMA AssertsLead ==
    ASSUME NEW k, NEW s \in Situations, NEW v \in {"A", "B"}, s.app = v, s.runtime = "R",
           s.retried => s.marked
    PROVE  Leads(k, assert_installed_version(v), s, s)
<1>1. query("app", v) \in Steps /\ query("runtime", "R") \in Steps /\ Command("run", "app", v, "failed") \in Steps
  BY DEF query, Command, Steps, StepOps, StepRefs, StepNeeds
<1>2. Fine(k, query("app", v), s, s)
  BY DEF query, Command, Fine, Marks, Obeys, Quiet, Situations, Fetching
<1>3. Fine(k, query("runtime", "R"), s, s)
  BY DEF query, Command, Fine, Marks, Obeys, Quiet, Situations, Fetching
<1>4. Fine(k, Command("run", "app", v, "failed"), s, s)
  BY DEF Command, Fine, Marks, Obeys, Quiet, Situations, Fetching
<1> QED
  BY <1>1, <1>2, <1>3, <1>4, LeadsThree DEF assert_installed_version

\* The single steps of the scenarios.
SetupRemote == setup_success("remote", "url")
SetupInstall == setup_success("install", "app")

LEMMA SetupLeads ==
    ASSUME NEW k
    PROVE  Leads(k, <<SetupRemote, SetupInstall>> \o assert_installed_version("A"), Fresh, AtA)
<1>1. SetupRemote \in Steps /\ SetupInstall \in Steps
  BY DEF SetupRemote, SetupInstall, setup_success, Command, Steps, StepOps, StepRefs, StepNeeds
<1>2. Fine(k, SetupRemote, Fresh, Fresh)
  BY DEF SetupRemote, setup_success, Command, Fine, Marks, Obeys, Quiet, Fetching, Fresh, Situation
<1>3. Fine(k, SetupInstall, Fresh, AtA)
  BY DEF SetupInstall, setup_success, Command, Fine, Marks, Obeys, Changing, Fetching, Fresh, AtA, Situation
<1>4. Leads(k, <<SetupRemote, SetupInstall>>, Fresh, AtA)
  BY <1>1, <1>2, <1>3, SituationsShape, LeadsTwo
<1>5. Leads(k, assert_installed_version("A"), AtA, AtA)
  BY SituationsShape, AssertsLead DEF AtA, Situation
<1> QED
  BY <1>4, <1>5, LeadsJoin

LEMMA AbsentRefLeads == ASSUME NEW k PROVE Leads(k, AfterInstall(k, "absent-ref"), AtA, AtA)
<1> DEFINE c == expect_error("query", "missing", "NOT_INSTALLED")
           d == expect_error("uninstall", "missing", "NOT_INSTALLED")
<1>1. c \in Steps /\ d \in Steps
  BY DEF expect_error, Command, Steps, StepOps, StepRefs, StepNeeds
<1>2. Fine(k, c, AtA, AtA) /\ Fine(k, d, AtA, AtA)
  BY DEF expect_error, Command, Fine, Marks, Obeys, Quiet, Fetching, AtA, Situation
<1>3. Leads(k, <<c>>, AtA, AtA) /\ Leads(k, <<d>>, AtA, AtA)
  BY <1>1, <1>2, SituationsShape, LeadsOne
<1>4. Leads(k, assert_installed_version("A"), AtA, AtA)
  BY SituationsShape, AssertsLead DEF AtA, Situation
<1>5. Leads(k, <<c>> \o assert_installed_version("A"), AtA, AtA)
  BY <1>3, <1>4, LeadsJoin
<1>6. Leads(k, <<c>> \o assert_installed_version("A") \o <<d>>, AtA, AtA)
  BY <1>3, <1>5, LeadsJoin
<1>7. Leads(k, <<c>> \o assert_installed_version("A") \o <<d>> \o assert_installed_version("A"), AtA, AtA)
  BY <1>4, <1>6, LeadsJoin
<1> QED
  BY <1>7 DEF AfterInstall, Failing

LEMMA NoopLeads == ASSUME NEW k PROVE Leads(k, AfterInstall(k, "noop-update"), AtA, AtA)
<1> DEFINE c == success("update", "app")
<1>1. c \in Steps
  BY DEF success, Command, Steps, StepOps, StepRefs, StepNeeds
<1>2. Fine(k, c, AtA, AtA)
  BY DEF success, Command, Fine, Marks, Obeys, Quiet, Fetching, AtA, Situation
<1>3. Leads(k, <<c>>, AtA, AtA)
  BY <1>1, <1>2, SituationsShape, LeadsOne
<1>4. Leads(k, assert_installed_version("A"), AtA, AtA)
  BY SituationsShape, AssertsLead DEF AtA, Situation
<1>5. Leads(k, <<c>> \o assert_installed_version("A"), AtA, AtA)
  BY <1>3, <1>4, LeadsJoin
<1> QED
  BY <1>5 DEF AfterInstall, Failing

\* B is published.
LEMMA PublishFine ==
    ASSUME NEW k
    PROVE  Assign("publish B") \in Steps /\ Fine(k, Assign("publish B"), AtA, BPublished)
<1>1. Assign("publish B") \in Steps
  BY DEF Assign, Command, Steps, StepOps, StepRefs, StepNeeds
<1>2. Fine(k, Assign("publish B"), AtA, BPublished)
  BY DEF Assign, Command, Fine, Marks, Assigns, Fetching, AtA, BPublished, Situation
<1> QED
  BY <1>1, <1>2

LEMMA RepeatedLeads ==
    ASSUME NEW k \in {"cli", "library"}
    PROVE  Leads(k, AfterInstall(k, "repeated-install"), AtA, BPublished)
<1> DEFINE c == IF k = "library" THEN expect_error("install", "app", "ALREADY_INSTALLED")
                ELSE Command("install", "app", "warned", "failed")
<1>1. c \in Steps
  BY DEF expect_error, Command, Steps, StepOps, StepRefs, StepNeeds
<1>2. Fine(k, c, BPublished, BPublished)
  BY DEF expect_error, Command, Fine, Marks, Obeys, Quiet, Fetching, BPublished, Situation
<1> HIDE DEF c
<1>3. Leads(k, <<Assign("publish B"), c>>, AtA, BPublished)
  BY <1>1, <1>2, PublishFine, SituationsShape, LeadsTwo
<1>4. Leads(k, assert_installed_version("A"), BPublished, BPublished)
  BY SituationsShape, AssertsLead DEF BPublished, Situation
<1>5. Leads(k, <<Assign("publish B"), c>> \o assert_installed_version("A"), AtA, BPublished)
  BY <1>3, <1>4, LeadsJoin
<1> QED
  BY <1>5 DEF AfterInstall, Failing, c

\* The update whose downloads are blocked, common to the two failing scenarios.
BlockedUpdate == <<Assign("publish B"), Assign("block"), Command("update", "app", "blocked download", "failed")>>

LEMMA BlockedLeads ==
    ASSUME NEW k
    PROVE  Leads(k, BlockedUpdate \o assert_installed_version("A"), AtA, Denied)
<1> DEFINE c == Assign("block")
           d == Command("update", "app", "blocked download", "failed")
<1>1. c \in Steps /\ d \in Steps
  BY DEF Assign, Command, Steps, StepOps, StepRefs, StepNeeds
<1>2. Fine(k, c, BPublished, Blocking)
  BY DEF Assign, Command, Fine, Marks, Assigns, Fetching, BPublished, Blocking, Situation
<1>3. Fine(k, d, Blocking, Denied)
  BY DEF Command, Fine, Marks, Obeys, Quiet, Fetching, Blocking, Denied, Situation
<1> HIDE DEF c, d
<1>4. Leads(k, <<Assign("publish B"), c, d>>, AtA, Denied)
  BY <1>1, <1>2, <1>3, PublishFine, SituationsShape, LeadsThree
<1>5. Leads(k, assert_installed_version("A"), Denied, Denied)
  BY SituationsShape, AssertsLead DEF Denied, Situation
<1>6. Leads(k, <<Assign("publish B"), c, d>> \o assert_installed_version("A"), AtA, Denied)
  BY <1>4, <1>5, LeadsJoin
<1> QED
  BY <1>6 DEF BlockedUpdate, c, d

LEMMA EmptyLeads == ASSUME NEW k, NEW s \in Situations PROVE Leads(k, <<>>, s, s)
<1> DEFINE tr == [i \in 1..1 |-> s]
           P == <<>>
<1>1. P \in Seq(Steps) /\ Len(P) = 0
  OBVIOUS
<1>2. tr \in [1..1 -> Situations] /\ tr[1] = s
  OBVIOUS
<1> HIDE DEF tr, P
<1>3. Along(k, P, tr)
  BY <1>1, <1>2 DEF Along
<1>4. Leads(k, P, s, s)
  BY <1>1, <1>2, <1>3 DEF Leads
<1> QED
  BY <1>4 DEF P

LEMMA FailedUpdateLeads == ASSUME NEW k PROVE Leads(k, AfterInstall(k, "failed-update"), AtA, Denied)
<1>1. Leads(k, BlockedUpdate \o assert_installed_version("A") \o <<>>, AtA, Denied)
  BY BlockedLeads, EmptyLeads, SituationsShape, LeadsJoin
<1> QED
  BY <1>1 DEF AfterInstall, Failing, BlockedUpdate

LEMMA RetryLeads == ASSUME NEW k PROVE Leads(k, AfterInstall(k, "retry-update"), AtA, Retried)
<1> DEFINE c == Assign("unblock")
           d == Assign("mark")
           e == Command("update", "app", "restored download", "failed")
<1>1. c \in Steps /\ d \in Steps /\ e \in Steps
  BY DEF Assign, Command, Steps, StepOps, StepRefs, StepNeeds
<1>2. Fine(k, c, Denied, Restored)
  BY DEF Assign, Command, Fine, Marks, Assigns, Fetching, Restored, Denied, Situation
<1>3. Fine(k, d, Restored, Retrying)
  BY DEF Assign, Command, Fine, Marks, Assigns, Fetching, Restored, Retrying, Situation
<1>4. Fine(k, e, Retrying, Retried)
  BY DEF Command, Fine, Marks, Obeys, Changing, Fetching, Retrying, Retried, Situation
<1> HIDE DEF c, d, e
<1>5. Leads(k, <<c, d, e>>, Denied, Retried)
  BY <1>1, <1>2, <1>3, <1>4, SituationsShape, LeadsThree
<1>6. Leads(k, assert_installed_version("B"), Retried, Retried)
  BY SituationsShape, AssertsLead DEF Retried, Situation
<1>7. Leads(k, <<c, d, e>> \o assert_installed_version("B"), Denied, Retried)
  BY <1>5, <1>6, LeadsJoin
<1>8. Leads(k, BlockedUpdate \o assert_installed_version("A")
               \o (<<c, d, e>> \o assert_installed_version("B")), AtA, Retried)
  BY <1>7, BlockedLeads, LeadsJoin
<1> QED
  BY <1>8 DEF AfterInstall, Failing, BlockedUpdate, c, d, e

LEMMA LifecycleLeads ==
    ASSUME NEW k \in {"cli", "library"}
    PROVE  Leads(k, AfterInstall(k, "lifecycle"), AtA, Removed)
<1> DEFINE c == success("update", "app")
           d == success("uninstall", "app")
           e == query("runtime", "R")
           f == expect_error("query", "app", "NOT_INSTALLED")
           g == Command("query", "app", "failure", "failed")
           h == Command("list-apps", "all", "empty", "failed")
           end == IF k = "library" THEN <<f>> ELSE <<g, h>>
<1>1. c \in Steps /\ d \in Steps /\ e \in Steps /\ f \in Steps /\ g \in Steps /\ h \in Steps
  BY DEF success, query, expect_error, Command, Steps, StepOps, StepRefs, StepNeeds
<1>2. Fine(k, c, BPublished, AtB)
  BY DEF success, Command, Fine, Marks, Obeys, Changing, Fetching, BPublished, AtB, Situation
<1>3. Fine(k, d, AtB, Removed)
  BY DEF success, Command, Fine, Marks, Obeys, Changing, Fetching, Removed, AtB, Situation
<1>4. Fine(k, e, Removed, Removed)
  BY DEF query, Command, Fine, Marks, Obeys, Quiet, Fetching, Removed, Situation
<1>5. k = "library" => Fine(k, f, Removed, Removed)
  BY DEF expect_error, Command, Fine, Marks, Obeys, Quiet, Fetching, Removed, Situation
<1>6. k = "cli" => Fine(k, g, Removed, Removed)
  BY DEF Command, Fine, Marks, Obeys, Quiet, Fetching, Removed, Situation
<1>7. Fine(k, h, Removed, Removed)
  BY DEF Command, Fine, Marks, Obeys, Quiet, Fetching, Removed, Situation
<1> HIDE DEF c, d, e, f, g, h
<1>8. Leads(k, <<Assign("publish B"), c>>, AtA, AtB)
  BY <1>1, <1>2, PublishFine, SituationsShape, LeadsTwo
<1>9. Leads(k, assert_installed_version("B"), AtB, AtB)
  BY SituationsShape, AssertsLead DEF AtB, Situation
<1>10. Leads(k, <<d, e>>, AtB, Removed)
  BY <1>1, <1>3, <1>4, SituationsShape, LeadsTwo
<1>11. Leads(k, end, Removed, Removed)
  <2>1. CASE k = "library"
    <3>1. Leads(k, <<f>>, Removed, Removed)
      BY <1>1, <1>5, <2>1, SituationsShape, LeadsOne
    <3> QED
      BY <2>1, <3>1
  <2>2. CASE k = "cli"
    <3>1. Leads(k, <<g, h>>, Removed, Removed)
      BY <1>1, <1>6, <1>7, <2>2, SituationsShape, LeadsTwo
    <3> QED
      BY <2>2, <3>1
  <2> QED
    BY <2>1, <2>2
<1> HIDE DEF end
<1>12. Leads(k, <<Assign("publish B"), c>> \o assert_installed_version("B"), AtA, AtB)
  BY <1>8, <1>9, LeadsJoin
<1>13. Leads(k, <<Assign("publish B"), c>> \o assert_installed_version("B") \o <<d, e>>, AtA, Removed)
  BY <1>10, <1>12, LeadsJoin
<1>14. Leads(k, <<Assign("publish B"), c>> \o assert_installed_version("B") \o <<d, e>> \o end, AtA, Removed)
  BY <1>11, <1>13, LeadsJoin
<1> QED
  BY <1>14 DEF AfterInstall, Failing, c, d, e, f, g, h, end

\* Every scenario leads from an empty installation to its end; the retry's has made the retry.
AllNames == {"ready-abort", "missing-install", "absent-ref", "noop-update", "repeated-install",
             "lifecycle"} \union Failing

LEMMA ReadyAbortLeads == ASSUME NEW k PROVE Leads(k, scenario(k, "ready-abort"), Fresh, AtA)
<1> DEFINE c == Command("install-abort-ready", "app", "aborted", "failed")
           d == Command("list-refs", "all", "empty", "failed")
           e == Command("install", "app", "accepted", "failed")
<1>1. SetupRemote \in Steps /\ c \in Steps /\ d \in Steps /\ e \in Steps
  BY DEF SetupRemote, setup_success, Command, Steps, StepOps, StepRefs, StepNeeds
<1>2. Fine(k, SetupRemote, Fresh, Fresh)
  BY DEF SetupRemote, setup_success, Command, Fine, Marks, Obeys, Quiet, Fetching, Fresh, Situation
<1>3. Fine(k, c, Fresh, Fresh) /\ Fine(k, d, Fresh, Fresh)
  BY DEF Command, Fine, Marks, Obeys, Quiet, Fetching, Fresh, Situation
<1>4. Fine(k, e, Fresh, AtA)
  BY DEF Command, Fine, Marks, Obeys, Changing, Fetching, Fresh, AtA, Situation
<1> HIDE DEF c, d, e
<1>5. Leads(k, <<SetupRemote, c, d, e>>, Fresh, AtA)
  BY <1>1, <1>2, <1>3, <1>4, SituationsShape, LeadsFour
<1>6. Leads(k, assert_installed_version("A"), AtA, AtA)
  BY SituationsShape, AssertsLead DEF AtA, Situation
<1>7. Leads(k, <<SetupRemote, c, d, e>> \o assert_installed_version("A"), Fresh, AtA)
  BY <1>5, <1>6, LeadsJoin
<1> QED
  BY <1>7 DEF scenario, SetupRemote, c, d, e

LEMMA MissingLeads == ASSUME NEW k PROVE Leads(k, scenario(k, "missing-install"), Fresh, Fresh)
<1> DEFINE c == expect_error("install", "missing", "REF_NOT_FOUND")
           d == Command("list-refs", "all", "empty", "failed")
<1>1. SetupRemote \in Steps /\ c \in Steps /\ d \in Steps
  BY DEF SetupRemote, setup_success, expect_error, Command, Steps, StepOps, StepRefs, StepNeeds
<1>2. Fine(k, SetupRemote, Fresh, Fresh)
  BY DEF SetupRemote, setup_success, Command, Fine, Marks, Obeys, Quiet, Fetching, Fresh, Situation
<1>3. Fine(k, c, Fresh, Fresh) /\ Fine(k, d, Fresh, Fresh)
  BY DEF expect_error, Command, Fine, Marks, Obeys, Quiet, Fetching, Fresh, Situation
<1> HIDE DEF c, d
<1>4. Leads(k, <<SetupRemote, c, d>>, Fresh, Fresh)
  BY <1>1, <1>2, <1>3, SituationsShape, LeadsThree
<1> QED
  BY <1>4 DEF scenario, SetupRemote, c, d

LEMMA ScenarioLeads ==
    ASSUME NEW k \in {"cli", "library"}, NEW n \in AllNames
    PROVE  \E t \in Situations : Leads(k, scenario(k, n), Fresh, t) /\ (n = "retry-update" => t.retried)
<1>1. CASE n = "ready-abort"
  BY <1>1, ReadyAbortLeads, SituationsShape
<1>2. CASE n = "missing-install"
  BY <1>2, MissingLeads, SituationsShape
<1>3. CASE n \notin {"ready-abort", "missing-install"}
  <2> DEFINE start == <<SetupRemote, SetupInstall>> \o assert_installed_version("A")
  <2>1. scenario(k, n) = start \o AfterInstall(k, n)
    BY <1>3 DEF scenario, SetupRemote, SetupInstall
  <2>2. Leads(k, start, Fresh, AtA)
    BY SetupLeads
  <2>3. Retried.retried = TRUE
    BY DEF Retried, Situation
  <2> HIDE DEF start
  <2>4. \E t \in Situations : Leads(k, AfterInstall(k, n), AtA, t) /\ (n = "retry-update" => t.retried)
    <3>1. CASE n = "absent-ref"
      BY <3>1, AbsentRefLeads, SituationsShape
    <3>2. CASE n = "noop-update"
      BY <3>2, NoopLeads, SituationsShape
    <3>3. CASE n = "repeated-install"
      BY <3>3, RepeatedLeads, SituationsShape
    <3>4. CASE n = "failed-update"
      BY <3>4, FailedUpdateLeads, SituationsShape
    <3>5. CASE n = "retry-update"
      BY <3>5, RetryLeads, SituationsShape, <2>3
    <3>6. CASE n = "lifecycle"
      BY <3>6, LifecycleLeads, SituationsShape
    <3> QED
      BY <1>3, <3>1, <3>2, <3>3, <3>4, <3>5, <3>6 DEF AllNames, Failing
  <2> QED
    BY <2>1, <2>2, <2>4, LeadsJoin
<1> QED
  BY <1>1, <1>2, <1>3

\* The situations of the running scenario, and its steps.
Follows(k, n, tr) ==
    /\ Along(k, scenario(k, n), tr) /\ tr[1] = Fresh
    /\ n = "retry-update" => tr[Len(scenario(k, n)) + 1].retried
Expected(k, n) == CHOOSE tr : Follows(k, n, tr)
Program == scenario(kind, name)
Trace == Expected(kind, name)

LEMMA TraceShape ==
    ASSUME kind \in {"cli", "library"}, name \in AllNames
    PROVE  /\ Program \in Seq(Steps) /\ Len(Program) \in Nat
           /\ \A i \in 1..Len(Program) : Program[i] \in Steps
           /\ \A i \in 1..(Len(Program) + 1) : Trace[i] \in Situations
           /\ \A i \in 1..Len(Program) : Fine(kind, Program[i], Trace[i], Trace[i + 1])
           /\ Trace[1] = Fresh
           /\ name = "retry-update" => Trace[Len(Program) + 1].retried
<1>1. PICK t \in Situations : Leads(kind, Program, Fresh, t) /\ (name = "retry-update" => t.retried)
  BY ScenarioLeads DEF Program
<1>2. \E tr : Follows(kind, name, tr)
  BY <1>1 DEF Leads, Follows, Program
<1>3. Follows(kind, name, Trace)
  BY <1>2 DEF Expected, Trace
<1>4. Program \in Seq(Steps)
  BY <1>1 DEF Leads
<1>5. Len(Program) \in Nat /\ \A i \in 1..Len(Program) : Program[i] \in Steps
  BY <1>4, ElementOfSeq
<1>6. Along(kind, Program, Trace) /\ Trace[1] = Fresh /\ (name = "retry-update" => Trace[Len(Program) + 1].retried)
  BY <1>3 DEF Follows, Program
<1>7. \A i \in 1..(Len(Program) + 1) : Trace[i] \in Situations
  BY <1>6 DEF Along
<1>8. \A i \in 1..Len(Program) : Fine(kind, Program[i], Trace[i], Trace[i + 1])
  BY <1>6 DEF Along
<1> QED
  BY <1>4, <1>5, <1>6, <1>7, <1>8

-----------------------------------------------------------------------------
\* The inductive invariant.

Records == [path : Paths, version : Versions, blocked : BOOLEAN, step : Nat]
Flights == [path : Paths, step : Nat, at : {"accepted", "directory", "blocked", "open"}, dir : Versions]

ValueInv ==
    /\ kind \in Kinds /\ name \in Names /\ late \in BOOLEAN
    /\ pc \in 1..(Len(Program) + 1)
    /\ app \in {"none"} \union Versions /\ runtime \in {"none", "R"}
    /\ version \in Versions /\ failPayloads \in BOOLEAN /\ breached \in BOOLEAN
    /\ verdict \in {"none", "passed", "failed", "setup-error"}
    /\ requests \in Seq(Records) /\ retryStart \in 0..Len(requests)

\* A command is run and judged at its own step, while the scenario is undecided.
StageInv ==
    /\ Running \/ result # NoResult =>
          verdict = "none" /\ pc <= Len(Program) /\ Step.ref # "repository"
    /\ Running => result = NoResult
    /\ verdict = "passed" => pc = Len(Program) + 1

\* What the command in hand has asked and been told.
Cmds == [running : BOOLEAN, sent : SUBSET Paths, got : SUBSET Paths, denied : SUBSET Paths,
         seen : {"none"} \union Versions]
CmdInv ==
    IF Running
    THEN /\ cmd \in Cmds /\ cmd.got \subseteq cmd.sent /\ cmd.denied \subseteq cmd.sent
         /\ cmd.seen \in {"none", version}
         /\ cmd.denied # {} => failPayloads
    ELSE cmd = Idle

\* A request in flight: of a step that fetches, if it is for a payload; and, while its
\* command runs, read from the published version.
Travels(f) ==
    /\ f.step \in 1..pc /\ f.step <= Len(Program)
    /\ IsPayload(f.path) => Program[f.step].op \in Fetching
    /\ f.step = pc => Running \/ result # NoResult \/ verdict # "none"
    /\ f.step = pc /\ Running =>
          /\ f.path \in cmd.sent /\ f.path \in {Summary} \union Filez(version)
          /\ f.at # "accepted" => f.dir = version
          /\ f.at = "blocked" => failPayloads /\ IsPayload(f.path)
          /\ f.at = "open" => ~failPayloads \/ ~IsPayload(f.path)
FlightInv == flight \subseteq Flights /\ \A f \in flight : Travels(f)

RequestInv == \A i \in 1..Len(requests) :
    /\ requests[i].step \in 1..pc /\ requests[i].step <= Len(Program)
    /\ IsPayload(requests[i].path) => Program[requests[i].step].op \in Fetching

\* The repository's record of what the command in hand was told.
Refused == \E i \in 1..Len(requests) : requests[i].blocked
Served(v) == \E i \in (retryStart + 1)..Len(requests) :
    requests[i].version = v /\ IsPayload(requests[i].path) /\ ~requests[i].blocked
EvidenceInv == Running =>
    /\ cmd.denied # {} => Refused
    /\ \A p \in cmd.got : IsPayload(p) => ~failPayloads /\ Served(version)

\* Without late answers nothing is in flight between commands, and what follows the mark
\* was asked by steps after it.
RetryInv == ~late =>
    /\ verdict = "none" /\ ~Running => flight = {}
    /\ \A f \in flight : f.step = pc
    /\ Trace[pc].marked => \A i \in (retryStart + 1)..Len(requests) : Trace[requests[i].step].marked
    /\ Trace[pc].retried => Served("B")

\* The repository is as the scenario expects; and so is the target while it keeps its contract.
ExpectInv == verdict = "none" =>
    /\ version = Trace[pc].version /\ failPayloads = Trace[pc].blocked
    /\ ~breached /\ result = NoResult => app = Trace[pc].app /\ runtime = Trace[pc].runtime
    /\ ~breached /\ result # NoResult =>
          /\ app = Trace[pc + 1].app /\ runtime = Trace[pc + 1].runtime
          /\ Required(result)
BlameInv == verdict = "failed" => breached

LifecycleInv == /\ ValueInv /\ StageInv /\ CmdInv /\ FlightInv /\ RequestInv
                /\ EvidenceInv /\ RetryInv /\ ExpectInv /\ BlameInv

-----------------------------------------------------------------------------
\* Facts about paths, records and the constants.

LEMMA PathsShape ==
    /\ Summary \in Paths /\ ~IsPayload(Summary)
    /\ \A v \in Versions : Filez(v) \subseteq Paths /\ Filez(v) # {} /\ \A p \in Filez(v) : IsPayload(p)
<1>1. Summary \in Paths /\ ~IsPayload(Summary)
  BY DEF Paths, IsPayload
<1>2. ASSUME NEW v \in Versions PROVE Filez(v) \subseteq Paths
  BY <1>2 DEF Versions, Paths
<1>3. ASSUME NEW v \in Versions PROVE Filez(v) # {}
  <2>1. 1 \in 1..Payloads
    BY LifecycleAssumption
  <2>2. <<v, 1>> \in Filez(v)
    BY <2>1 DEF Filez
  <2> QED
    BY <2>2
<1>4. ASSUME NEW v \in Versions, NEW p \in Filez(v) PROVE IsPayload(p)
  BY <1>4 DEF Filez, Versions, IsPayload, Summary
<1> QED
  BY <1>1, <1>2, <1>3, <1>4

LEMMA Appended ==
    ASSUME NEW S, NEW s \in Seq(S), NEW r \in S
    PROVE  /\ Append(s, r) \in Seq(S) /\ Len(s) \in Nat /\ Len(Append(s, r)) = Len(s) + 1
           /\ \A i \in 1..Len(s) : Append(s, r)[i] = s[i]
           /\ Append(s, r)[Len(s) + 1] = r
BY AppendProperties, LenProperties

\* What every lemma about a step needs of the scenario.
LEMMA Facts ==
    ASSUME ValueInv
    PROVE  /\ kind \in {"cli", "library"} /\ name \in AllNames /\ pc \in Nat /\ Len(Program) \in Nat
           /\ Step = Program[pc] /\ (Over <=> pc = Len(Program) + 1)
           /\ pc <= Len(Program) => /\ Step \in Steps /\ Trace[pc] \in Situations
                                    /\ Trace[pc + 1] \in Situations
                                    /\ Fine(kind, Step, Trace[pc], Trace[pc + 1])
           /\ Trace[pc] \in Situations
<1>1. kind \in {"cli", "library"} /\ name \in AllNames
  BY LifecycleAssumption DEF ValueInv, AllNames
<1>2. pc \in 1..(Len(Program) + 1) /\ Len(Program) \in Nat /\ pc \in Nat
  BY <1>1, TraceShape DEF ValueInv
<1>3. Step = Program[pc] /\ (Over <=> pc = Len(Program) + 1)
  BY <1>2 DEF Step, Over, Program
<1>4. ASSUME pc <= Len(Program)
      PROVE  Step \in Steps /\ Trace[pc + 1] \in Situations /\ Fine(kind, Step, Trace[pc], Trace[pc + 1])
  <2>1. pc \in 1..Len(Program) /\ pc + 1 \in 1..(Len(Program) + 1)
    BY <1>2, <1>4
  <2> QED
    BY <1>1, <1>3, <2>1, TraceShape
<1>5. Trace[pc] \in Situations
  BY <1>1, <1>2, TraceShape
<1> QED
  BY <1>1, <1>2, <1>3, <1>4, <1>5

\* The case, its program and its situations stay.
LEMMA Steady ==
    ASSUME [Next]_vars
    PROVE  kind' = kind /\ name' = name /\ late' = late /\ Program' = Program /\ Trace' = Trace
<1>1. kind' = kind /\ name' = name /\ late' = late
  BY DEF Next, Driver, do_GET, Call, Set, Judge, TimeOut, Pass, Ask, Finish, ReadDirectory,
         ReadFailure, RecordAndReply, Done, vars
<1> QED
  BY <1>1 DEF Program, Trace

LEMMA InitHolds == Init => LifecycleInv
<1> SUFFICES ASSUME Init PROVE LifecycleInv
  OBVIOUS
<1>1. kind \in {"cli", "library"} /\ name \in AllNames
  BY LifecycleAssumption DEF Init, AllNames
<1>2. Len(Program) \in Nat /\ Trace[1] = Fresh
  BY <1>1, TraceShape
<1>3. ValueInv
  <2>1. late \in BOOLEAN /\ pc \in 1..(Len(Program) + 1)
    BY <1>2, LifecycleAssumption DEF Init
  <2>2. requests \in Seq(Records) /\ retryStart \in 0..Len(requests)
    BY DEF Init
  <2>3. failPayloads \in BOOLEAN /\ breached \in BOOLEAN
    BY DEF Init
  <2> QED
    BY <2>1, <2>2, <2>3 DEF Init, ValueInv, Versions
<1>4. StageInv /\ CmdInv /\ FlightInv /\ BlameInv
  BY DEF Init, StageInv, CmdInv, FlightInv, Travels, BlameInv, Idle, Running
<1>5. RequestInv /\ EvidenceInv
  BY DEF Init, RequestInv, EvidenceInv, Idle, Running
<1>6. RetryInv
  BY <1>2 DEF Init, RetryInv, Fresh, Situation
<1>7. ExpectInv
  <2>1. /\ Trace[1].version = "A" /\ Trace[1].blocked = FALSE
        /\ Trace[1].app = "none" /\ Trace[1].runtime = "none"
    BY <1>2 DEF Fresh, Situation
  <2>2. /\ version = "A" /\ failPayloads = FALSE /\ app = "none" /\ runtime = "none"
        /\ pc = 1 /\ result = NoResult
    BY DEF Init
  <2> QED
    BY <2>1, <2>2 DEF ExpectInv
<1> QED
  BY <1>3, <1>4, <1>5, <1>6, <1>7 DEF LifecycleInv

\* Growing records keep what they showed.
Grows == /\ retryStart' = retryStart /\ Len(requests') \in Nat /\ Len(requests) <= Len(requests')
         /\ \A i \in 1..Len(requests) : requests'[i] = requests[i]

LEMMA EvidenceStays ==
    ASSUME ValueInv, Grows
    PROVE  (Refused => Refused') /\ (\A v : Served(v) => Served(v)')
<1>1. Len(requests) \in Nat /\ retryStart \in Nat
  BY DEF ValueInv
<1>2. Refused => Refused'
  BY <1>1 DEF Grows, Refused
<1>3. ASSUME NEW v, Served(v) PROVE Served(v)'
  <2>1. PICK i \in (retryStart + 1)..Len(requests) :
           requests[i].version = v /\ IsPayload(requests[i].path) /\ ~requests[i].blocked
    BY <1>3 DEF Served
  <2>2. i \in (retryStart' + 1)..Len(requests') /\ requests'[i] = requests[i]
    BY <1>1, <2>1 DEF Grows
  <2> QED
    BY <2>1, <2>2 DEF Served
<1> QED
  BY <1>2, <1>3

LEMMA RequiredStays ==
    ASSUME ValueInv, Grows, Step' = Step, result' = result, Required(result)
    PROVE  Required(result)'
<1>1. (Refused => Refused') /\ (Served("B") => Served("B")')
  BY EvidenceStays
<1> QED
  BY <1>1 DEF Required, Refused, Served

-----------------------------------------------------------------------------
\* The target: outcomes of a command.

Outcomes == [status : {"ok", "error", "NOT_INSTALLED", "ALREADY_INSTALLED", "REF_NOT_FOUND"},
             out : {"", "already installed", "refs"} \union Versions \union {"R"},
             ready : {0, 1, 2}, began : BOOLEAN,
             app : {"none"} \union Versions, runtime : {"none", "R"}]

LEMMA OutcomeType ==
    ASSUME NEW status \in {"ok", "error", "NOT_INSTALLED", "ALREADY_INSTALLED", "REF_NOT_FOUND"},
           NEW out \in {"", "already installed", "refs"} \union Versions \union {"R"},
           NEW ready \in {0, 1, 2}, NEW began \in BOOLEAN,
           NEW a \in {"none"} \union Versions, NEW r \in {"none", "R"}
    PROVE  Outcome(status, out, ready, began, a, r) \in Outcomes
BY DEF Outcome, Outcomes

\* An outcome is never mistaken for there being none.
LEMMA OutcomeIsResult == ASSUME NEW o \in Outcomes PROVE o # NoResult
<1>1. o.status # "none" /\ NoResult.status = "none"
  BY DEF Outcomes, NoResult
<1> QED
  BY <1>1

\* The operation of a command that is run is one the contract speaks of.
LEMMA OpsShape ==
    ASSUME ValueInv, pc <= Len(Program), Step.ref # "repository"
    PROVE  /\ Step.op \in {"remote", "install", "install-abort-ready", "update", "uninstall",
                            "query", "run", "list-refs", "list-apps"}
           /\ Step.op = "install" => Step.ref \in {"missing", "app"}
           /\ Step.op = "query" => Step.ref \in {"missing", "app", "runtime"}
<1>1. Obeys(kind, Step, Trace[pc], Trace[pc + 1])
  BY Facts DEF Fine
<1> QED
  BY <1>1 DEF Obeys, Quiet, Changing

LEMMA ConformingShape ==
    ASSUME ValueInv, CmdInv, Running, pc <= Len(Program), Step.ref # "repository", NEW o \in Conforming
    PROVE  o \in Outcomes
<1> DEFINE op == Step.op
<1>1. /\ Step.op \in {"remote", "install", "install-abort-ready", "update", "uninstall",
                       "query", "run", "list-refs", "list-apps"}
      /\ Step.op = "install" => Step.ref \in {"missing", "app"}
  BY OpsShape
<1>2. app \in {"none"} \union Versions /\ runtime \in {"none", "R"} /\ version \in Versions
  BY DEF ValueInv
<1>3. cmd.seen \in {"none"} \union Versions
  BY <1>2 DEF CmdInv
<1>4. \A st \in {"ok", "error", "NOT_INSTALLED", "ALREADY_INSTALLED", "REF_NOT_FOUND"},
        out \in {"", "already installed", "refs"} \union Versions \union {"R"} : Same(st, out) \in Outcomes
  BY <1>2, OutcomeType DEF Same
<1>5. \A st \in {"ok", "error"}, b \in BOOLEAN, a \in {"none"} \union Versions, r \in {"none", "R"} :
        Outcome(st, "", 1, b, a, r) \in Outcomes
  BY OutcomeType
<1>6. CASE op = "remote"
  BY <1>4, <1>6 DEF Conforming
<1>7. CASE op = "install"
  <2>1. CASE Step.ref = "missing"
    BY <1>4, <1>7, <2>1 DEF Conforming
  <2>2. CASE Step.ref = "app" /\ app # "none"
    BY <1>4, <1>7, <2>2 DEF Conforming
  <2>3. CASE Step.ref = "app" /\ app = "none"
    BY <1>3, <1>5, <1>7, <2>3 DEF Conforming
  <2> QED
    BY <1>1, <1>7, <2>1, <2>2, <2>3
<1>8. CASE op = "install-abort-ready"
  BY <1>2, <1>5, <1>8 DEF Conforming
<1>9. CASE op = "update"
  BY <1>2, <1>3, <1>4, <1>5, <1>9 DEF Conforming
<1>10. CASE op = "uninstall"
  BY <1>2, <1>4, <1>5, <1>10 DEF Conforming
<1>11. CASE op = "query"
  BY <1>2, <1>4, <1>11 DEF Conforming
<1>12. CASE op = "run"
  BY <1>2, <1>4, <1>12 DEF Conforming
<1>13. CASE op = "list-refs"
  BY <1>2, <1>4, <1>13 DEF Conforming
<1>14. CASE op = "list-apps"
  BY <1>2, <1>4, <1>14 DEF Conforming
<1> QED
  BY <1>1, <1>6, <1>7, <1>8, <1>9, <1>10, <1>11, <1>12, <1>13, <1>14

LEMMA DeviantShape ==
    ASSUME ValueInv, CmdInv, Running, pc <= Len(Program), Step.ref # "repository", NEW o \in Deviant
    PROVE  o \in Outcomes
<1>1. app \in {"none"} \union Versions /\ runtime \in {"none", "R"} /\ version \in Versions
  BY DEF ValueInv
<1>2. cmd.seen \in {"none"} \union Versions
  BY <1>1 DEF CmdInv
<1>3. \A st \in {"ok", "error"} : Same(st, "") \in Outcomes
  BY <1>1, OutcomeType DEF Same
<1>4. \A st \in {"ok", "error", "REF_NOT_FOUND"}, n \in {0, 1, 2}, b \in BOOLEAN,
         a \in {"none"} \union Versions, r \in {"none", "R"} : Outcome(st, "", n, b, a, r) \in Outcomes
  BY OutcomeType
<1>5. \A x \in Conforming : x \in Outcomes
  BY ConformingShape
<1>6. \A x \in Outcomes : [x EXCEPT !.app = cmd.seen] \in Outcomes
  BY <1>2 DEF Outcomes
<1> QED
  BY <1>1, <1>2, <1>3, <1>4, <1>5, <1>6 DEF Deviant

-----------------------------------------------------------------------------
\* The steps.

\* The record of a request that is answered.
RecordOf(f) == [path |-> f.path, version |-> version, blocked |-> (f.at = "blocked"), step |-> f.step]

LEMMA RecordMoves ==
    ASSUME ValueInv, FlightInv, NEW f \in flight, requests' = Append(requests, RecordOf(f)), retryStart' = retryStart
    PROVE  /\ Grows /\ requests' \in Seq(Records)
           /\ Len(requests) \in Nat /\ Len(requests') = Len(requests) + 1
           /\ requests'[Len(requests) + 1] = RecordOf(f)
           /\ \A i \in 1..Len(requests') : i \in 1..Len(requests) \/ i = Len(requests) + 1
<1>1. f \in Flights
  BY DEF FlightInv, Travels
<1>2. RecordOf(f) \in Records
  BY <1>1 DEF RecordOf, Records, Flights, ValueInv
<1>3. requests \in Seq(Records)
  BY DEF ValueInv
<1> DEFINE r == RecordOf(f)
<1> HIDE DEF r
<1>4. r \in Records /\ requests' = Append(requests, r)
  BY <1>2 DEF r
<1>5. /\ requests' \in Seq(Records) /\ Len(requests) \in Nat /\ Len(requests') = Len(requests) + 1
      /\ \A i \in 1..Len(requests) : requests'[i] = requests[i]
      /\ requests'[Len(requests) + 1] = r
  BY <1>3, <1>4, Appended
<1> QED
  BY <1>5 DEF Grows, r

LEMMA ValueStep == LifecycleInv /\ [Next]_vars => ValueInv'
<1> SUFFICES ASSUME LifecycleInv, [Next]_vars PROVE ValueInv'
  OBVIOUS
<1>0. ValueInv /\ StageInv /\ CmdInv /\ FlightInv
  BY DEF LifecycleInv
<1>1. /\ kind' \in Kinds /\ name' \in Names /\ late' \in BOOLEAN /\ Program' = Program /\ Len(Program) \in Nat
      /\ pc \in Nat
  BY <1>0, Steady, Facts DEF ValueInv
<1>2. CASE Call \/ Ask \/ ReadDirectory \/ ReadFailure \/ UNCHANGED vars
  BY <1>0, <1>1, <1>2 DEF Call, Ask, ReadDirectory, ReadFailure, repository, vars, ValueInv
<1>3. CASE Set
  <2>1. pc' \in 1..(Len(Program') + 1)
    <3>1. ~Over /\ pc' = pc + 1
      BY <1>3 DEF Set
    <3> QED
      BY <1>0, <1>1, <3>1, Facts DEF ValueInv
  <2>2. version' \in Versions /\ failPayloads' \in BOOLEAN
    BY <1>0, <1>3 DEF Set, ValueInv, Versions
  <2>3. requests' = requests /\ retryStart' \in 0..Len(requests)
    <3>1. requests' = requests /\ retryStart' \in {retryStart, Len(requests)}
      BY <1>3 DEF Set, RetryMark
    <3> QED
      BY <1>0, <3>1, LenProperties DEF ValueInv
  <2>4. UNCHANGED <<app, runtime, verdict, breached>>
    BY <1>3 DEF Set
  <2> QED
    BY <1>0, <1>1, <2>1, <2>2, <2>3, <2>4 DEF ValueInv
<1>4. CASE Judge
  <2>1. pc <= Len(Program) /\ Step \in Steps
    BY <1>0, <1>4, Facts DEF Judge, StageInv
  <2>2. pc' \in 1..(Len(Program') + 1) /\ verdict' \in {"none", "passed", "failed", "setup-error"}
    BY <1>0, <1>1, <1>4, <2>1 DEF Judge, ValueInv, Steps
  <2>3. UNCHANGED <<app, runtime, version, failPayloads, requests, retryStart, breached>>
    BY <1>4 DEF Judge, repository
  <2> QED
    BY <1>0, <1>1, <2>2, <2>3 DEF ValueInv
<1>5. CASE TimeOut \/ Pass
  <2>1. verdict' \in {"none", "passed", "failed", "setup-error"}
    BY <1>5 DEF TimeOut, Pass
  <2>2. UNCHANGED <<pc, app, runtime, version, failPayloads, requests, retryStart, breached>>
    BY <1>5 DEF TimeOut, Pass, repository
  <2> QED
    BY <1>0, <1>1, <2>1, <2>2 DEF ValueInv
<1>6. CASE Finish
  <2>1. PICK o \in Conforming \union Deviant :
           app' = o.app /\ runtime' = o.runtime /\ breached' = (breached \/ o \notin Conforming)
    BY <1>6 DEF Finish
  <2>2. Running /\ pc <= Len(Program) /\ Step.ref # "repository"
    BY <1>0, <1>6 DEF Finish, StageInv
  <2>3. o \in Outcomes
    BY <1>0, <2>1, <2>2, ConformingShape, DeviantShape
  <2>4. app' \in {"none"} \union Versions /\ runtime' \in {"none", "R"} /\ breached' \in BOOLEAN
    BY <2>1, <2>3 DEF Outcomes
  <2>5. UNCHANGED <<pc, version, failPayloads, requests, retryStart, verdict>>
    BY <1>6 DEF Finish, repository
  <2> QED
    BY <1>0, <1>1, <2>4, <2>5 DEF ValueInv
<1>7. CASE RecordAndReply
  <2>1. PICK f \in flight : requests' = Append(requests, RecordOf(f))
    BY <1>7 DEF RecordAndReply, RecordOf
  <2>2. UNCHANGED <<pc, app, runtime, version, failPayloads, retryStart, verdict, breached>>
    BY <1>7 DEF RecordAndReply, repository
  <2>3. requests' \in Seq(Records) /\ Len(requests) \in Nat /\ Len(requests') = Len(requests) + 1
    BY <1>0, <2>1, <2>2, RecordMoves
  <2> QED
    BY <1>0, <1>1, <2>2, <2>3 DEF ValueInv
<1> QED
  BY <1>2, <1>3, <1>4, <1>5, <1>6, <1>7 DEF Next, Driver, do_GET, Done

LEMMA StageStep == LifecycleInv /\ [Next]_vars => StageInv'
<1> SUFFICES ASSUME LifecycleInv, [Next]_vars PROVE StageInv'
  OBVIOUS
<1>0. ValueInv /\ StageInv /\ CmdInv
  BY DEF LifecycleInv
<1>1. Program' = Program /\ kind' = kind /\ name' = name
  BY Steady
<1>2. pc' = pc => Step' = Step
  BY <1>1 DEF Step
<1>3. CASE Call
  <2>1. /\ verdict = "none" /\ ~Over /\ Step.ref # "repository" /\ result = NoResult
        /\ UNCHANGED <<pc, verdict, result>>
    BY <1>3 DEF Call
  <2>2. pc <= Len(Program)
    BY <1>0, <2>1, Facts DEF ValueInv
  <2> QED
    BY <1>1, <1>2, <2>1, <2>2 DEF StageInv
<1>4. CASE Set
  <2>1. Step.ref = "repository" /\ verdict = "none" /\ UNCHANGED <<cmd, result, verdict>>
    BY <1>4 DEF Set
  <2> QED
    BY <1>0, <2>1 DEF StageInv, Running
<1>5. CASE Judge
  <2>1. result' = NoResult /\ ~Running /\ cmd' = cmd
    BY <1>0, <1>5 DEF Judge, StageInv
  <2>2. verdict' # "passed"
    <3>1. pc <= Len(Program) /\ verdict = "none"
      BY <1>0, <1>5 DEF Judge, StageInv
    <3>2. Step \in Steps
      BY <1>0, <3>1, Facts
    <3> QED
      BY <1>5, <3>1, <3>2 DEF Judge, Steps
  <2> QED
    BY <2>1, <2>2 DEF StageInv, Running
<1>6. CASE TimeOut
  BY <1>0, <1>6 DEF TimeOut, StageInv, Running, Idle
<1>7. CASE Pass
  <2>1. Over /\ pc' = pc /\ UNCHANGED <<cmd, result>>
    BY <1>7 DEF Pass
  <2>2. pc = Len(Program) + 1 /\ Len(Program) \in Nat
    BY <1>0, <2>1, Facts
  <2> QED
    BY <1>0, <1>1, <2>1, <2>2 DEF StageInv, Running
<1>8. CASE Ask
  <2>1. Running /\ UNCHANGED <<pc, verdict, result>>
    BY <1>8 DEF Ask
  <2> QED
    BY <1>0, <1>1, <1>2, <2>1 DEF StageInv
<1>9. CASE Finish
  <2>1. Running /\ cmd' = Idle /\ UNCHANGED <<pc, verdict>>
    BY <1>9 DEF Finish
  <2>2. ~Running'
    BY <2>1 DEF Running, Idle
  <2> QED
    BY <1>0, <1>1, <1>2, <2>1, <2>2 DEF StageInv
<1>10. CASE ReadDirectory \/ ReadFailure \/ UNCHANGED vars
  <2>1. UNCHANGED <<pc, cmd, result, verdict>>
    BY <1>10 DEF ReadDirectory, ReadFailure, vars
  <2> QED
    BY <1>0, <1>1, <1>2, <2>1 DEF StageInv, Running
<1>11. CASE RecordAndReply
  <2>1. UNCHANGED <<pc, result, verdict>>
    BY <1>11 DEF RecordAndReply
  <2>2. Running' => Running
    <3>1. PICK f \in flight :
             IF Running /\ f.step = pc
             THEN cmd' = IF f.at = "open" /\ f.path \in {Summary} \union Filez(f.dir)
                         THEN [cmd EXCEPT !.got = @ \union {f.path},
                                          !.seen = IF f.path = Summary THEN f.dir ELSE @]
                         ELSE [cmd EXCEPT !.denied = @ \union {f.path}]
             ELSE UNCHANGED cmd
      BY <1>11 DEF RecordAndReply
    <3> QED
      BY <3>1 DEF Running
  <2> QED
    BY <1>0, <1>1, <1>2, <2>1, <2>2 DEF StageInv
<1> QED
  BY <1>3, <1>4, <1>5, <1>6, <1>7, <1>8, <1>9, <1>10, <1>11 DEF Next, Driver, do_GET, Done

\* An answer, and what the command in hand learns of it.
Learns(f) ==
    IF Running /\ f.step = pc
    THEN /\ cmd' \in Cmds /\ cmd'.running = cmd.running /\ cmd'.sent = cmd.sent
         /\ \/ /\ f.at = "open" /\ cmd'.got = cmd.got \union {f.path} /\ cmd'.denied = cmd.denied
               /\ cmd'.seen = IF f.path = Summary THEN version ELSE cmd.seen
            \/ /\ f.at = "blocked" /\ cmd'.denied = cmd.denied \union {f.path}
               /\ cmd'.got = cmd.got /\ cmd'.seen = cmd.seen
    ELSE cmd' = cmd

LEMMA ReplyMoves ==
    ASSUME ValueInv, CmdInv, FlightInv, RecordAndReply
    PROVE  \E f \in flight :
               /\ flight' = flight \ {f} /\ requests' = Append(requests, RecordOf(f))
               /\ Learns(f)
<1>1. PICK f \in flight :
         /\ f.at \in {"blocked", "open"} /\ flight' = flight \ {f}
         /\ requests' = Append(requests, RecordOf(f))
         /\ IF Running /\ f.step = pc
            THEN cmd' = IF f.at = "open" /\ f.path \in {Summary} \union Filez(f.dir)
                        THEN [cmd EXCEPT !.got = @ \union {f.path},
                                         !.seen = IF f.path = Summary THEN f.dir ELSE @]
                        ELSE [cmd EXCEPT !.denied = @ \union {f.path}]
            ELSE UNCHANGED cmd
  BY DEF RecordAndReply, RecordOf
<1>2. ASSUME Running, f.step = pc PROVE Learns(f)
  <2>1. cmd \in Cmds /\ f \in Flights /\ version \in Versions /\ f.path \in Paths
    BY <1>2 DEF CmdInv, FlightInv, ValueInv, Flights
  <2>2. f.path \in {Summary} \union Filez(version) /\ f.dir = version
    BY <1>1, <1>2 DEF FlightInv, Travels
  <2>3. CASE f.at = "open"
    <3>1. cmd' = [cmd EXCEPT !.got = @ \union {f.path},
                             !.seen = IF f.path = Summary THEN version ELSE @]
      BY <1>1, <1>2, <2>2, <2>3
    <3> QED
      BY <1>2, <2>1, <2>3, <3>1 DEF Learns, Cmds
  <2>4. CASE f.at = "blocked"
    <3>1. cmd' = [cmd EXCEPT !.denied = @ \union {f.path}]
      BY <1>1, <1>2, <2>4
    <3> QED
      BY <1>2, <2>1, <2>4, <3>1 DEF Learns, Cmds
  <2> QED
    BY <1>1, <2>3, <2>4
<1>3. ASSUME ~(Running /\ f.step = pc) PROVE Learns(f)
  BY <1>1, <1>3 DEF Learns
<1> QED
  BY <1>1, <1>2, <1>3

LEMMA CmdStep == LifecycleInv /\ [Next]_vars => CmdInv'
<1> SUFFICES ASSUME LifecycleInv, [Next]_vars PROVE CmdInv'
  OBVIOUS
<1>0. ValueInv /\ StageInv /\ CmdInv /\ FlightInv
  BY DEF LifecycleInv
<1>1. CASE Call
  <2>1. cmd' = [Idle EXCEPT !.running = TRUE]
    BY <1>1 DEF Call
  <2>2. /\ cmd' \in Cmds /\ cmd'.got = {} /\ cmd'.denied = {} /\ cmd'.seen = "none"
    BY <2>1 DEF Idle, Cmds
  <2> QED
    BY <2>1, <2>2 DEF CmdInv, Running, Idle
<1>2. CASE Set
  <2>1. ~Running /\ cmd' = cmd
    BY <1>0, <1>2 DEF Set, StageInv
  <2> QED
    BY <1>0, <2>1 DEF CmdInv, Running
<1>3. CASE TimeOut \/ Finish
  <2>1. cmd' = Idle
    BY <1>3 DEF TimeOut, Finish
  <2> QED
    BY <2>1 DEF CmdInv, Running, Idle
<1>4. CASE Judge \/ Pass \/ ReadDirectory \/ ReadFailure \/ UNCHANGED vars
  <2>1. UNCHANGED <<cmd, version, failPayloads>>
    BY <1>4 DEF Judge, Pass, ReadDirectory, ReadFailure, repository, vars
  <2> QED
    BY <1>0, <2>1 DEF CmdInv, Running
<1>5. CASE Ask
  <2>1. PICK p \in Paths : cmd' = [cmd EXCEPT !.sent = @ \union {p}]
    BY <1>5 DEF Ask
  <2>2. Running /\ UNCHANGED <<version, failPayloads>>
    BY <1>5 DEF Ask, repository
  <2>3. cmd \in Cmds
    BY <1>0, <2>2 DEF CmdInv
  <2>4. /\ cmd' \in Cmds /\ cmd'.running = cmd.running /\ cmd'.sent = cmd.sent \union {p}
        /\ cmd'.got = cmd.got /\ cmd'.denied = cmd.denied /\ cmd'.seen = cmd.seen
    BY <2>1, <2>3 DEF Cmds
  <2> QED
    BY <1>0, <2>2, <2>4 DEF CmdInv, Running
<1>6. CASE RecordAndReply
  <2>1. PICK f \in flight : Learns(f)
    BY <1>0, <1>6, ReplyMoves
  <2>2. UNCHANGED <<version, failPayloads>>
    BY <1>6 DEF RecordAndReply, repository
  <2>3. CASE Running /\ f.step = pc
    <3>1. f.path \in cmd.sent /\ (f.at = "blocked" => failPayloads)
      BY <1>0, <2>3 DEF FlightInv, Travels
    <3>2. cmd' \in Cmds /\ cmd'.running = cmd.running /\ cmd'.sent = cmd.sent
      BY <2>1, <2>3 DEF Learns
    <3>3. /\ cmd'.got \subseteq cmd.got \union {f.path} /\ cmd'.denied \subseteq cmd.denied \union {f.path}
          /\ cmd'.seen \in {cmd.seen, version}
      BY <2>1, <2>3 DEF Learns
    <3>4. cmd'.denied = cmd.denied \/ f.at = "blocked"
      BY <2>1, <2>3 DEF Learns
    <3> QED
      BY <1>0, <2>2, <2>3, <3>1, <3>2, <3>3, <3>4 DEF CmdInv, Running
  <2>4. CASE ~(Running /\ f.step = pc)
    <3>1. cmd' = cmd
      BY <2>1, <2>4 DEF Learns
    <3> QED
      BY <1>0, <2>2, <3>1 DEF CmdInv, Running
  <2> QED
    BY <2>3, <2>4
<1> QED
  BY <1>1, <1>2, <1>3, <1>4, <1>5, <1>6 DEF Next, Driver, do_GET, Done

LEMMA RequestStep == LifecycleInv /\ [Next]_vars => RequestInv'
<1> SUFFICES ASSUME LifecycleInv, [Next]_vars PROVE RequestInv'
  OBVIOUS
<1>0. ValueInv /\ StageInv /\ CmdInv /\ FlightInv /\ RequestInv
  BY DEF LifecycleInv
<1>1. Program' = Program /\ pc \in Nat /\ Len(Program) \in Nat
  BY <1>0, Steady, Facts
<1>2. pc' \in {pc, pc + 1}
  BY DEF Next, Driver, do_GET, Call, Set, Judge, TimeOut, Pass, Ask, Finish, ReadDirectory,
         ReadFailure, RecordAndReply, Done, vars
<1>3. CASE RecordAndReply
  <2>1. PICK f \in flight : requests' = Append(requests, RecordOf(f))
    BY <1>0, <1>3, ReplyMoves
  <2>2. retryStart' = retryStart /\ pc' = pc
    BY <1>3 DEF RecordAndReply
  <2>3. /\ Grows /\ Len(requests) \in Nat /\ Len(requests') = Len(requests) + 1
        /\ requests'[Len(requests) + 1] = RecordOf(f)
        /\ \A i \in 1..Len(requests') : i \in 1..Len(requests) \/ i = Len(requests) + 1
    BY <1>0, <2>1, <2>2, RecordMoves
  <2>4. /\ f.step \in 1..pc /\ f.step <= Len(Program)
        /\ IsPayload(f.path) => Program[f.step].op \in Fetching
    BY <1>0 DEF FlightInv, Travels
  <2>5. RecordOf(f).step = f.step /\ RecordOf(f).path = f.path
    BY DEF RecordOf
  <2>6. ASSUME NEW i \in 1..Len(requests')
        PROVE  /\ requests'[i].step \in 1..pc' /\ requests'[i].step <= Len(Program')
               /\ IsPayload(requests'[i].path) => Program'[requests'[i].step].op \in Fetching
    <3>1. CASE i \in 1..Len(requests)
      <4>1. requests'[i] = requests[i]
        BY <2>3, <3>1 DEF Grows
      <4> QED
        BY <1>0, <1>1, <2>2, <3>1, <4>1 DEF RequestInv
    <3>2. CASE i = Len(requests) + 1
      BY <1>1, <2>2, <2>3, <2>4, <2>5, <3>2
    <3> QED
      BY <2>3, <2>6, <3>1, <3>2
  <2> QED
    BY <2>6 DEF RequestInv
<1>4. CASE requests' = requests
  <2>1. \A n \in 1..pc : n \in 1..pc'
    BY <1>1, <1>2
  <2> QED
    BY <1>0, <1>1, <1>4, <2>1 DEF RequestInv
<1> QED
  BY <1>3, <1>4 DEF Next, Driver, do_GET, Call, Set, Judge, TimeOut, Pass, Ask, Finish,
                    ReadDirectory, ReadFailure, Done, vars

\* The steps that neither send, read nor answer a request.
LEMMA FlightWaits ==
    ASSUME LifecycleInv, [Next]_vars, flight' = flight,
           UNCHANGED <<version, failPayloads>> \/ ~Running' \/ ~Running,
           \/ pc' = pc + 1
           \/ pc' = pc /\ UNCHANGED <<cmd, result, verdict>>
           \/ pc' = pc /\ ~Running' /\ (result' # NoResult \/ verdict' # "none")
           \/ ~Running /\ result = NoResult /\ verdict = "none" /\ pc' = pc
    PROVE  FlightInv'
<1>1. ValueInv /\ FlightInv
  BY DEF LifecycleInv
<1>2. Program' = Program /\ pc \in Nat
  BY <1>1, Steady, Facts
<1>3. flight' \subseteq Flights
  BY <1>1 DEF FlightInv
<1>4. ASSUME NEW f \in flight PROVE Travels(f)'
  <2>1. Travels(f) /\ f.step \in 1..pc
    BY <1>1 DEF FlightInv, Travels
  <2>2. CASE pc' = pc + 1
    BY <1>2, <2>1, <2>2 DEF Travels
  <2>3. CASE pc' = pc /\ UNCHANGED <<cmd, result, verdict>>
    <3>1. Running' = Running
      BY <2>3 DEF Running
    <3>2. CASE UNCHANGED <<version, failPayloads>>
      BY <1>2, <2>1, <2>3, <3>1, <3>2 DEF Travels
    <3>3. CASE ~Running
      BY <1>2, <2>1, <2>3, <3>1, <3>3 DEF Travels
    <3> QED
      BY <3>1, <3>2, <3>3
  <2>4. CASE pc' = pc /\ ~Running' /\ (result' # NoResult \/ verdict' # "none")
    BY <1>2, <2>1, <2>4 DEF Travels
  <2>5. CASE ~Running /\ result = NoResult /\ verdict = "none" /\ pc' = pc
    BY <1>2, <2>1, <2>5 DEF Travels
  <2> QED
    BY <2>2, <2>3, <2>4, <2>5
<1> QED
  BY <1>3, <1>4 DEF FlightInv

LEMMA FlightStep == LifecycleInv /\ [Next]_vars => FlightInv'
<1> SUFFICES ASSUME LifecycleInv, [Next]_vars PROVE FlightInv'
  OBVIOUS
<1>0. ValueInv /\ StageInv /\ CmdInv /\ FlightInv
  BY DEF LifecycleInv
<1>1. Program' = Program /\ pc \in Nat /\ Len(Program) \in Nat
  BY <1>0, Steady, Facts
<1>2. CASE Call
  BY <1>2, FlightWaits DEF Call, repository
<1>3. CASE Set
  <2>1. ~Running
    BY <1>0, <1>3 DEF Set, StageInv
  <2>2. flight' = flight /\ pc' = pc + 1
    BY <1>3 DEF Set
  <2> QED
    BY <2>1, <2>2, FlightWaits
<1>4. CASE Judge
  <2>1. ~Running /\ cmd' = cmd /\ flight' = flight
    BY <1>0, <1>4 DEF Judge, StageInv
  <2>2. ~Running'
    BY <2>1 DEF Running
  <2>3. Step \in Steps
    BY <1>0, <1>4, Facts DEF Judge, StageInv
  <2>4. pc' = pc + 1 \/ (pc' = pc /\ verdict' # "none")
    BY <1>4, <2>3 DEF Judge, Steps
  <2> QED
    BY <2>1, <2>2, <2>4, FlightWaits
<1>5. CASE TimeOut
  <2>1. cmd' = Idle /\ verdict' # "none" /\ UNCHANGED <<pc, flight>>
    BY <1>5 DEF TimeOut
  <2>2. ~Running'
    BY <2>1 DEF Running, Idle
  <2> QED
    BY <2>1, <2>2, FlightWaits
<1>6. CASE Pass
  <2>1. verdict' # "none" /\ UNCHANGED <<pc, flight, cmd>>
    BY <1>6 DEF Pass
  <2>2. Over
    BY <1>6 DEF Pass
  <2>3. ~Running
    BY <1>0, <1>1, <2>2, Facts DEF StageInv
  <2>4. ~Running'
    BY <2>1, <2>3 DEF Running
  <2> QED
    BY <2>1, <2>4, FlightWaits
<1>7. CASE Finish
  <2>1. PICK o \in Conforming \union Deviant : result' = o
    BY <1>7 DEF Finish
  <2>2. Running /\ pc <= Len(Program) /\ Step.ref # "repository"
    BY <1>0, <1>7 DEF Finish, StageInv
  <2>3. result' # NoResult
    BY <1>0, <2>1, <2>2, ConformingShape, DeviantShape, OutcomeIsResult
  <2>4. cmd' = Idle /\ UNCHANGED <<pc, flight>>
    BY <1>7 DEF Finish
  <2>5. ~Running'
    BY <2>4 DEF Running, Idle
  <2> QED
    BY <2>3, <2>4, <2>5, FlightWaits
<1>8. CASE UNCHANGED vars
  BY <1>8, FlightWaits DEF vars, repository
<1>9. CASE Ask
  <2>1. PICK p \in Paths :
           /\ Running
           /\ \/ p = Summary
              \/ Known /\ p \in Filez(cmd.seen) /\ Step.op \in Fetching
           /\ cmd' = [cmd EXCEPT !.sent = @ \union {p}]
           /\ flight' = flight \union {[path |-> p, step |-> pc, at |-> "accepted", dir |-> "A"]}
    BY <1>9 DEF Ask, Fetching
  <2>2. UNCHANGED <<pc, result, verdict, version, failPayloads>>
    BY <1>9 DEF Ask, repository
  <2>3. cmd \in Cmds /\ cmd.seen \in {"none", version} /\ pc <= Len(Program)
    BY <1>0, <2>1 DEF CmdInv, StageInv
  <2>4. cmd'.running = cmd.running /\ cmd'.sent = cmd.sent \union {p} /\ Running'
    BY <2>1, <2>3 DEF Cmds, Running
  <2>0. PICK g : g = [path |-> p, step |-> pc, at |-> "accepted", dir |-> "A"]
    OBVIOUS
  <2>5. g \in Flights
    BY <1>1, <2>0 DEF Flights, Versions
  <2>6. Travels(g)'
    <3>1. p \in {Summary} \union Filez(version) /\ p \in cmd'.sent
      BY <2>1, <2>3, <2>4 DEF Known
    <3>2. IsPayload(p) => Program[pc].op \in Fetching
      BY <1>0, <2>1, PathsShape, Facts
    <3>3. pc \in 1..pc
      BY <1>0 DEF ValueInv
    <3>4. g.path = p /\ g.step = pc /\ g.at = "accepted"
      BY <2>0
    <3> QED
      BY <1>1, <2>2, <2>3, <2>4, <3>1, <3>2, <3>3, <3>4 DEF Travels
  <2>7. ASSUME NEW f \in flight PROVE Travels(f)'
    <3>1. Travels(f)
      BY <1>0 DEF FlightInv
    <3> QED
      BY <1>1, <2>1, <2>2, <2>4, <3>1 DEF Travels
  <2>8. flight' = flight \union {g}
    BY <2>0, <2>1
  <2> QED
    BY <1>0, <2>5, <2>6, <2>7, <2>8 DEF FlightInv
<1>10. CASE ReadDirectory
  <2>1. PICK f \in flight :
           /\ f.at = "accepted"
           /\ flight' = (flight \ {f}) \union {[f EXCEPT !.at = "directory", !.dir = version]}
    BY <1>10 DEF ReadDirectory
  <2>2. UNCHANGED <<pc, cmd, result, verdict, version, failPayloads>>
    BY <1>10 DEF ReadDirectory, repository
  <2> DEFINE g == [f EXCEPT !.at = "directory", !.dir = version]
  <2>3. f \in Flights /\ Travels(f)
    BY <1>0 DEF FlightInv
  <2>4. /\ g \in Flights /\ g.path = f.path /\ g.step = f.step
        /\ g.at = "directory" /\ g.dir = version
    BY <1>0, <2>3 DEF Flights, ValueInv
  <2> HIDE DEF g
  <2>5. \A h \in flight \union {g} : Travels(h)
    <3>1. Travels(g)
      BY <2>3, <2>4 DEF Travels
    <3> QED
      BY <1>0, <3>1 DEF FlightInv
  <2>6. \A h \in flight \union {g} : Travels(h)'
    BY <1>1, <2>2, <2>5 DEF Travels, Running
  <2>7. flight' = (flight \ {f}) \union {g}
    BY <2>1 DEF g
  <2> QED
    BY <1>0, <2>4, <2>6, <2>7 DEF FlightInv
<1>11. CASE ReadFailure
  <2>1. PICK f \in flight :
           /\ f.at = "directory"
           /\ flight' = (flight \ {f}) \union
                 {[f EXCEPT !.at = IF failPayloads /\ IsPayload(f.path) THEN "blocked" ELSE "open"]}
    BY <1>11 DEF ReadFailure
  <2>2. UNCHANGED <<pc, cmd, result, verdict, version, failPayloads>>
    BY <1>11 DEF ReadFailure, repository
  <2> DEFINE g == [f EXCEPT !.at = IF failPayloads /\ IsPayload(f.path) THEN "blocked" ELSE "open"]
  <2>3. f \in Flights /\ Travels(f)
    BY <1>0 DEF FlightInv
  <2>4. /\ g \in Flights /\ g.path = f.path /\ g.step = f.step /\ g.dir = f.dir
        /\ g.at = IF failPayloads /\ IsPayload(f.path) THEN "blocked" ELSE "open"
    BY <2>3 DEF Flights
  <2> HIDE DEF g
  <2>5. \A h \in flight \union {g} : Travels(h)
    <3>1. Travels(g)
      BY <2>1, <2>3, <2>4 DEF Travels
    <3> QED
      BY <1>0, <3>1 DEF FlightInv
  <2>6. \A h \in flight \union {g} : Travels(h)'
    BY <1>1, <2>2, <2>5 DEF Travels, Running
  <2>7. flight' = (flight \ {f}) \union {g}
    BY <2>1 DEF g
  <2> QED
    BY <1>0, <2>4, <2>6, <2>7 DEF FlightInv
<1>12. CASE RecordAndReply
  <2>1. PICK f \in flight : flight' = flight \ {f} /\ Learns(f)
    BY <1>0, <1>12, ReplyMoves
  <2>2. UNCHANGED <<pc, result, verdict, version, failPayloads>>
    BY <1>12 DEF RecordAndReply, repository
  <2>3. Running' = Running /\ (Running => cmd'.sent = cmd.sent)
    BY <2>1 DEF Learns, Running
  <2>4. \A g \in flight : Travels(g)'
    BY <1>0, <1>1, <2>2, <2>3 DEF FlightInv, Travels
  <2> QED
    BY <1>0, <2>1, <2>4 DEF FlightInv
<1> QED
  BY <1>2, <1>3, <1>4, <1>5, <1>6, <1>7, <1>8, <1>9, <1>10, <1>11, <1>12 DEF Next, Driver, do_GET, Done

\* A request that is answered leaves what the command in hand was told on record.
LEMMA EvidenceStep == LifecycleInv /\ [Next]_vars => EvidenceInv'
<1> SUFFICES ASSUME LifecycleInv, [Next]_vars PROVE EvidenceInv'
  OBVIOUS
<1>0. ValueInv /\ StageInv /\ CmdInv /\ FlightInv /\ EvidenceInv
  BY DEF LifecycleInv
<1>1. CASE Call
  <2>1. cmd' = [Idle EXCEPT !.running = TRUE]
    BY <1>1 DEF Call
  <2>2. cmd'.got = {} /\ cmd'.denied = {}
    BY <2>1 DEF Idle
  <2> QED
    BY <2>2 DEF EvidenceInv
<1>2. CASE Set
  <2>1. ~Running /\ cmd' = cmd
    BY <1>0, <1>2 DEF Set, StageInv
  <2> QED
    BY <2>1 DEF EvidenceInv, Running
<1>3. CASE TimeOut \/ Finish
  <2>1. cmd' = Idle
    BY <1>3 DEF TimeOut, Finish
  <2> QED
    BY <2>1 DEF EvidenceInv, Running, Idle
<1>4. CASE Judge \/ Pass \/ ReadDirectory \/ ReadFailure \/ UNCHANGED vars
  <2>1. UNCHANGED <<cmd, requests, retryStart, version, failPayloads>>
    BY <1>4 DEF Judge, Pass, ReadDirectory, ReadFailure, repository, vars
  <2> QED
    BY <1>0, <2>1 DEF EvidenceInv, Refused, Served, Running
<1>5. CASE Ask
  <2>1. PICK p \in Paths : Running /\ cmd' = [cmd EXCEPT !.sent = @ \union {p}]
    BY <1>5 DEF Ask
  <2>2. UNCHANGED <<requests, retryStart, version, failPayloads>>
    BY <1>5 DEF Ask, repository
  <2>3. cmd \in Cmds
    BY <1>0, <2>1 DEF CmdInv
  <2>4. cmd'.got = cmd.got /\ cmd'.denied = cmd.denied
    BY <2>1, <2>3 DEF Cmds
  <2> QED
    BY <1>0, <2>1, <2>2, <2>4 DEF EvidenceInv, Refused, Served
<1>6. CASE RecordAndReply
  <2>1. PICK f \in flight : requests' = Append(requests, RecordOf(f)) /\ Learns(f)
    BY <1>0, <1>6, ReplyMoves
  <2>2. UNCHANGED <<version, failPayloads, retryStart>>
    BY <1>6 DEF RecordAndReply, repository
  <2>3. /\ Grows /\ Len(requests) \in Nat /\ Len(requests') = Len(requests) + 1
        /\ requests'[Len(requests) + 1] = RecordOf(f)
    BY <1>0, <2>1, <2>2, RecordMoves
  <2>4. (Refused => Refused') /\ (Served(version) => Served(version)')
    <3>1. \A v : Served(v) => Served(v)'
      BY <1>0, <2>3, EvidenceStays
    <3>2. Refused => Refused'
      BY <1>0, <2>3, EvidenceStays
    <3> QED
      BY <2>2, <3>1, <3>2 DEF Served
  <2>5. CASE ~(Running /\ f.step = pc)
    <3>1. cmd' = cmd
      BY <2>1, <2>5 DEF Learns
    <3> QED
      BY <1>0, <2>2, <2>4, <3>1 DEF EvidenceInv, Running
  <2>6. CASE Running /\ f.step = pc
    <3>1. Travels(f)
      BY <1>0 DEF FlightInv
    <3>2. CASE f.at = "blocked"
      <4>1. RecordOf(f).blocked
        BY <3>2 DEF RecordOf
      <4>2. Refused'
        BY <2>3, <4>1 DEF Refused
      <4>3. cmd'.got = cmd.got
        BY <2>1, <2>6, <3>2 DEF Learns
      <4> QED
        BY <1>0, <2>2, <2>4, <2>6, <4>2, <4>3 DEF EvidenceInv
    <3>3. CASE f.at = "open"
      <4>1. cmd'.got = cmd.got \union {f.path} /\ cmd'.denied = cmd.denied
        BY <2>1, <2>6, <3>3 DEF Learns
      <4>2. ASSUME IsPayload(f.path) PROVE ~failPayloads /\ Served(version)'
        <5>1. ~failPayloads
          BY <2>6, <3>1, <3>3, <4>2 DEF Travels
        <5>2. /\ RecordOf(f).version = version /\ RecordOf(f).path = f.path
              /\ ~RecordOf(f).blocked
          BY <3>3 DEF RecordOf
        <5>3. Len(requests) + 1 \in (retryStart' + 1)..Len(requests')
          BY <1>0, <2>2, <2>3 DEF ValueInv
        <5> QED
          BY <2>2, <2>3, <4>2, <5>1, <5>2, <5>3 DEF Served
      <4> QED
        BY <1>0, <2>2, <2>4, <2>6, <4>1, <4>2 DEF EvidenceInv
    <3> QED
      BY <2>1, <2>6, <3>2, <3>3 DEF Learns
  <2> QED
    BY <2>5, <2>6
<1> QED
  BY <1>1, <1>2, <1>3, <1>4, <1>5, <1>6 DEF Next, Driver, do_GET, Done

-----------------------------------------------------------------------------
\* The contract meets the scenario: what a target that keeps it may end with is what the
\* scenario requires, and leaves what the scenario expects.

\* What each requirement asks of an outcome.
LEMMA Requirements ==
    ASSUME NEW o
    PROVE  /\ Step.need = "success" => (Required(o) <=> o.status = "ok")
           /\ Step.need = "failure" => (Required(o) <=> o.status # "ok")
           /\ Step.need = "empty" => (Required(o) <=> o.status = "ok" /\ o.out = "")
           /\ Step.need = "warned" => (Required(o) <=> o.status = "ok" /\ o.out = "already installed")
           /\ Step.need = "aborted" => (Required(o) <=> o.status # "ok" /\ o.ready = 1 /\ ~o.began)
           /\ Step.need = "accepted" => (Required(o) <=> o.status = "ok" /\ o.ready = 1)
           /\ Step.need = "blocked download" => (Required(o) <=> o.status # "ok" /\ Refused)
           /\ Step.need = "restored download" => (Required(o) <=> o.status = "ok" /\ Served("B"))
           /\ Step.need \in {"A", "B", "R"} => (Required(o) <=> o.status = "ok" /\ o.out = Step.need)
           /\ Step.need \in {"NOT_INSTALLED", "ALREADY_INSTALLED", "REF_NOT_FOUND"} =>
                 (Required(o) <=> o.status = Step.need)
<1> USE DEF Required
<1>1. Step.need = "success" => (Required(o) <=> o.status = "ok")
  OBVIOUS
<1>2. Step.need = "failure" => (Required(o) <=> o.status # "ok")
  OBVIOUS
<1>3. Step.need = "empty" => (Required(o) <=> o.status = "ok" /\ o.out = "")
  OBVIOUS
<1>4. Step.need = "warned" => (Required(o) <=> o.status = "ok" /\ o.out = "already installed")
  OBVIOUS
<1>5. Step.need = "aborted" => (Required(o) <=> o.status # "ok" /\ o.ready = 1 /\ ~o.began)
  OBVIOUS
<1>6. Step.need = "accepted" => (Required(o) <=> o.status = "ok" /\ o.ready = 1)
  OBVIOUS
<1>7. Step.need = "blocked download" => (Required(o) <=> o.status # "ok" /\ Refused)
  BY DEF Refused
<1>8. Step.need = "restored download" => (Required(o) <=> o.status = "ok" /\ Served("B"))
  BY DEF Served
<1>9. Step.need \in {"A", "B", "R"} => (Required(o) <=> o.status = "ok" /\ o.out = Step.need)
  OBVIOUS
<1>10. Step.need \in {"NOT_INSTALLED", "ALREADY_INSTALLED", "REF_NOT_FOUND"} =>
         (Required(o) <=> o.status = Step.need)
  OBVIOUS
<1> QED
  BY <1>1, <1>2, <1>3, <1>4, <1>5, <1>6, <1>7, <1>8, <1>9, <1>10

\* What the contract allows, by the operation.
Unchanged(o, status, out) == o.status = status /\ o.out = out /\ o.app = app /\ o.runtime = runtime

LEMMA Allowed ==
    ASSUME NEW o \in Conforming
    PROVE  /\ Step.op = "remote" => Unchanged(o, "ok", "")
           /\ Step.op = "install" /\ Step.ref = "missing" => Unchanged(o, "REF_NOT_FOUND", "")
           /\ Step.op = "install" /\ Step.ref = "app" /\ app # "none" =>
                 IF kind = "cli" THEN Unchanged(o, "ok", "already installed")
                                 ELSE Unchanged(o, "ALREADY_INSTALLED", "")
           /\ Step.op = "install" /\ Step.ref = "app" /\ app = "none" =>
                 /\ Known /\ Fetched /\ o.status = "ok" /\ o.ready = 1
                 /\ o.app = cmd.seen /\ o.runtime = "R"
           /\ Step.op = "install-abort-ready" =>
                 Unchanged(o, "error", "") /\ o.ready = 1 /\ ~o.began
           /\ Step.op = "update" =>
                 /\ Known
                 /\ \/ cmd.seen = app /\ Unchanged(o, "ok", "")
                    \/ /\ cmd.seen # app /\ Fetched
                       /\ o.status = "ok" /\ o.app = cmd.seen /\ o.runtime = runtime
                    \/ /\ cmd.seen # app /\ ~Fetched /\ cmd.denied # {} /\ Unchanged(o, "error", "")
           /\ Step.op = "uninstall" =>
                 IF Step.ref = "missing" \/ app = "none" THEN Unchanged(o, "NOT_INSTALLED", "")
                 ELSE o.status = "ok" /\ o.app = "none" /\ o.runtime = runtime
           /\ Step.op = "query" /\ Step.ref = "missing" => Unchanged(o, "NOT_INSTALLED", "")
           /\ Step.op = "query" /\ Step.ref = "app" /\ app # "none" => Unchanged(o, "ok", app)
           /\ Step.op = "query" /\ Step.ref = "app" /\ app = "none" =>
                 \/ Unchanged(o, "NOT_INSTALLED", "")
                 \/ kind = "cli" /\ Unchanged(o, "error", "")
           /\ Step.op = "query" /\ Step.ref = "runtime" /\ runtime # "none" => Unchanged(o, "ok", runtime)
           /\ Step.op = "run" /\ app # "none" => Unchanged(o, "ok", app)
           /\ Step.op = "list-refs" /\ app = "none" /\ runtime = "none" => Unchanged(o, "ok", "")
           /\ Step.op = "list-apps" /\ app = "none" => Unchanged(o, "ok", "")
<1>1. \A st, out : Unchanged(Same(st, out), st, out)
  BY DEF Unchanged, Same, Outcome
<1>2. o \in Conforming
  OBVIOUS
<1>3. Step.op = "remote" => Unchanged(o, "ok", "")
  BY <1>1 DEF Conforming
<1>4. Step.op = "install" /\ Step.ref = "missing" => Unchanged(o, "REF_NOT_FOUND", "")
  BY <1>1 DEF Conforming
<1>5. Step.op = "install" /\ Step.ref = "app" /\ app # "none" =>
        IF kind = "cli" THEN Unchanged(o, "ok", "already installed")
                        ELSE Unchanged(o, "ALREADY_INSTALLED", "")
  BY <1>1 DEF Conforming
<1>6. ASSUME Step.op = "install", Step.ref = "app", app = "none"
      PROVE  Known /\ Fetched /\ o.status = "ok" /\ o.ready = 1 /\ o.app = cmd.seen /\ o.runtime = "R"
  <2>1. Known /\ Fetched /\ o = Outcome("ok", "", 1, TRUE, cmd.seen, "R")
    BY <1>2, <1>6 DEF Conforming
  <2> QED
    BY <2>1 DEF Outcome
<1>7. ASSUME Step.op = "install-abort-ready"
      PROVE  Unchanged(o, "error", "") /\ o.ready = 1 /\ ~o.began
  <2>1. o = Outcome("error", "", 1, FALSE, app, runtime)
    BY <1>2, <1>7 DEF Conforming
  <2> QED
    BY <2>1 DEF Outcome, Unchanged
<1>8. ASSUME Step.op = "update"
      PROVE  /\ Known
             /\ \/ cmd.seen = app /\ Unchanged(o, "ok", "")
                \/ cmd.seen # app /\ Fetched /\ o.status = "ok" /\ o.app = cmd.seen /\ o.runtime = runtime
                \/ cmd.seen # app /\ ~Fetched /\ cmd.denied # {} /\ Unchanged(o, "error", "")
  <2>1. Known
    BY <1>2, <1>8 DEF Conforming
  <2>2. CASE cmd.seen = app
    BY <1>1, <1>2, <1>8, <2>1, <2>2 DEF Conforming
  <2>3. CASE cmd.seen # app /\ Fetched
    <3>1. o = Outcome("ok", "", 1, TRUE, cmd.seen, runtime)
      BY <1>2, <1>8, <2>1, <2>3 DEF Conforming
    <3>2. o.status = "ok" /\ o.app = cmd.seen /\ o.runtime = runtime
      BY <3>1 DEF Outcome
    <3> QED
      BY <2>1, <2>3, <3>2
  <2>4. CASE cmd.seen # app /\ ~Fetched
    BY <1>1, <1>2, <1>8, <2>1, <2>4 DEF Conforming
  <2> QED
    BY <2>2, <2>3, <2>4
<1>9. ASSUME Step.op = "uninstall"
      PROVE  IF Step.ref = "missing" \/ app = "none" THEN Unchanged(o, "NOT_INSTALLED", "")
             ELSE o.status = "ok" /\ o.app = "none" /\ o.runtime = runtime
  <2>1. CASE Step.ref = "missing" \/ app = "none"
    BY <1>1, <1>2, <1>9, <2>1 DEF Conforming
  <2>2. CASE ~(Step.ref = "missing" \/ app = "none")
    <3>1. o = Outcome("ok", "", 1, TRUE, "none", runtime)
      BY <1>2, <1>9, <2>2 DEF Conforming
    <3>2. o.status = "ok" /\ o.app = "none" /\ o.runtime = runtime
      BY <3>1 DEF Outcome
    <3> QED
      BY <2>2, <3>2
  <2> QED
    BY <2>1, <2>2
<1>10. Step.op = "query" =>
         /\ Step.ref = "missing" => Unchanged(o, "NOT_INSTALLED", "")
         /\ Step.ref = "app" /\ app # "none" => Unchanged(o, "ok", app)
         /\ Step.ref = "app" /\ app = "none" =>
               \/ Unchanged(o, "NOT_INSTALLED", "")
               \/ kind = "cli" /\ Unchanged(o, "error", "")
         /\ Step.ref = "runtime" /\ runtime # "none" => Unchanged(o, "ok", runtime)
  BY <1>1 DEF Conforming
<1>11. Step.op = "run" /\ app # "none" => Unchanged(o, "ok", app)
  BY <1>1 DEF Conforming
<1>12. Step.op = "list-refs" /\ app = "none" /\ runtime = "none" => Unchanged(o, "ok", "")
  BY <1>1 DEF Conforming
<1>13. Step.op = "list-apps" /\ app = "none" => Unchanged(o, "ok", "")
  BY <1>1 DEF Conforming
<1> QED
  BY <1>3, <1>4, <1>5, <1>6, <1>7, <1>8, <1>9, <1>10, <1>11, <1>12, <1>13

LEMMA ContractIsRequired ==
    ASSUME ValueInv, StageInv, CmdInv, EvidenceInv, ExpectInv, Running, ~breached, NEW o \in Conforming
    PROVE  Required(o) /\ o.app = Trace[pc + 1].app /\ o.runtime = Trace[pc + 1].runtime
<1> DEFINE s == Trace[pc]
           t == Trace[pc + 1]
<1>1. /\ pc <= Len(Program) /\ Step.ref # "repository" /\ verdict = "none" /\ result = NoResult
  BY DEF StageInv
<1>2. /\ s \in Situations /\ t \in Situations /\ Obeys(kind, Step, s, t)
      /\ kind \in {"cli", "library"} /\ Marks(Step, s, t)
  BY <1>1, Facts DEF Fine
<1>3. app = s.app /\ runtime = s.runtime /\ version = s.version /\ failPayloads = s.blocked
  BY <1>1 DEF ExpectInv
<1>4. cmd.seen \in {"none", version} /\ (cmd.denied # {} => s.blocked /\ Refused)
  BY <1>3 DEF CmdInv, EvidenceInv
<1>5. version \in Versions /\ s.app \in {"none"} \union Versions /\ s.runtime \in {"none", "R"} /\ s.blocked \in BOOLEAN
  BY <1>2 DEF ValueInv, Situations
<1>6. Known /\ Fetched => ~s.blocked /\ Served(version)
  <2>1. SUFFICES ASSUME Known, Fetched PROVE ~s.blocked /\ Served(version)
    OBVIOUS
  <2>2. cmd.seen = version /\ Filez(version) \subseteq cmd.got
    BY <1>4, <2>1 DEF Known, Fetched
  <2>3. PICK p \in Filez(version) : IsPayload(p)
    BY <1>5, PathsShape
  <2> QED
    BY <1>3, <2>2, <2>3 DEF EvidenceInv
<1>7. CASE Quiet(kind, Step, Trace[pc]) /\ t.app = s.app /\ t.runtime = s.runtime
  <2>0. o.app = app /\ o.runtime = runtime => o.app = t.app /\ o.runtime = t.runtime
    BY <1>3, <1>7
  <2>1. CASE Step.op = "remote" /\ Step.need = "success"
    BY <2>0, <2>1, Allowed, Requirements DEF Unchanged
  <2>2. CASE Step.op = "install" /\ Step.ref = "missing" /\ Step.need = "REF_NOT_FOUND"
    BY <2>0, <2>2, Allowed, Requirements DEF Unchanged
  <2>3. CASE /\ Step.op = "install" /\ Step.ref = "app" /\ s.app # "none"
             /\ Step.need = IF kind = "cli" THEN "warned" ELSE "ALREADY_INSTALLED"
    BY <1>2, <1>3, <2>0, <2>3, Allowed, Requirements DEF Unchanged
  <2>4. CASE Step.op = "install-abort-ready" /\ Step.need = "aborted"
    BY <2>0, <2>4, Allowed, Requirements DEF Unchanged
  <2>5. CASE Step.op = "update" /\ s.app = s.version /\ Step.need = "success"
    BY <1>3, <1>4, <2>0, <2>5, Allowed, Requirements DEF Unchanged, Known
  <2>6. CASE Step.op = "update" /\ s.app # s.version /\ s.blocked /\ Step.need = "blocked download"
    BY <1>3, <1>4, <1>6, <2>0, <2>6, Allowed, Requirements DEF Unchanged, Known
  <2>7. CASE Step.op = "uninstall" /\ Step.ref = "missing" /\ Step.need = "NOT_INSTALLED"
    BY <2>0, <2>7, Allowed, Requirements DEF Unchanged
  <2>8. CASE Step.op = "query" /\ Step.ref = "missing" /\ Step.need = "NOT_INSTALLED"
    BY <2>0, <2>8, Allowed, Requirements DEF Unchanged
  <2>9. CASE Step.op = "query" /\ Step.ref = "app" /\ s.app # "none" /\ Step.need = s.app
    BY <1>3, <1>5, <2>0, <2>9, Allowed, Requirements DEF Unchanged, Versions
  <2>10. CASE /\ Step.op = "query" /\ Step.ref = "app" /\ s.app = "none"
              /\ Step.need = IF kind = "cli" THEN "failure" ELSE "NOT_INSTALLED"
    BY <1>2, <1>3, <2>0, <2>10, Allowed, Requirements DEF Unchanged
  <2>11. CASE Step.op = "query" /\ Step.ref = "runtime" /\ s.runtime # "none" /\ Step.need = s.runtime
    BY <1>3, <1>5, <2>0, <2>11, Allowed, Requirements DEF Unchanged
  <2>12. CASE Step.op = "run" /\ s.app # "none" /\ Step.need = s.app
    BY <1>3, <1>5, <2>0, <2>12, Allowed, Requirements DEF Unchanged, Versions
  <2>13. CASE Step.op = "list-refs" /\ s.app = "none" /\ s.runtime = "none" /\ Step.need = "empty"
    BY <1>3, <2>0, <2>13, Allowed, Requirements DEF Unchanged
  <2>14. CASE Step.op = "list-apps" /\ s.app = "none" /\ Step.need = "empty"
    BY <1>3, <2>0, <2>14, Allowed, Requirements DEF Unchanged
  <2> QED
    BY <1>7, <2>1, <2>2, <2>3, <2>4, <2>5, <2>6, <2>7, <2>8, <2>9, <2>10, <2>11, <2>12, <2>13, <2>14
       DEF Quiet
<1>8. CASE Changing(Step, Trace[pc], Trace[pc + 1])
  <2>1. CASE /\ Step.op = "install" /\ Step.ref = "app" /\ s.app = "none"
             /\ Step.need \in {"success", "accepted"} /\ t.app = s.version /\ t.runtime = "R"
    BY <1>3, <1>4, <2>1, Allowed, Requirements DEF Known
  <2>2. CASE /\ Step.op = "update" /\ s.app # s.version /\ ~s.blocked
             /\ Step.need = "success" \/ (Step.need = "restored download" /\ s.version = "B")
             /\ t.app = s.version /\ t.runtime = s.runtime
    <3>1. o.status = "ok" /\ o.app = t.app /\ o.runtime = t.runtime /\ Served(version)
      BY <1>3, <1>4, <1>6, <2>2, Allowed DEF Known
    <3> QED
      BY <1>3, <2>2, <3>1, Requirements
  <2>3. CASE /\ Step.op = "uninstall" /\ Step.ref = "app" /\ s.app # "none" /\ Step.need = "success"
             /\ t.app = "none" /\ t.runtime = s.runtime
    BY <1>3, <2>3, Allowed, Requirements
  <2> QED
    BY <1>8, <2>1, <2>2, <2>3 DEF Changing
<1> QED
  BY <1>2, <1>7, <1>8 DEF Obeys

\* The steps in which nothing of the scenario and of the installation changes.
LEMMA ExpectWaits ==
    ASSUME ValueInv, ExpectInv, [Next]_vars, Grows,
           UNCHANGED <<pc, app, runtime, version, failPayloads, result, verdict, breached>>
    PROVE  ExpectInv'
<1>1. Trace' = Trace /\ Step' = Step
  BY Steady DEF Step
<1>2. Required(result) => Required(result)'
  BY <1>1, RequiredStays
<1> QED
  BY <1>1, <1>2 DEF ExpectInv

LEMMA ExpectStep == LifecycleInv /\ [Next]_vars => ExpectInv'
<1> SUFFICES ASSUME LifecycleInv, [Next]_vars PROVE ExpectInv'
  OBVIOUS
<1>0. ValueInv /\ StageInv /\ CmdInv /\ FlightInv /\ EvidenceInv /\ ExpectInv
  BY DEF LifecycleInv
<1>1. Trace' = Trace /\ Program' = Program /\ pc \in Nat
  BY <1>0, Steady, Facts
<1>2. CASE Call \/ Ask \/ ReadDirectory \/ ReadFailure \/ UNCHANGED vars
  <2>1. UNCHANGED <<requests, retryStart>>
    BY <1>2 DEF Call, Ask, ReadDirectory, ReadFailure, vars
  <2>2. Len(requests) \in Nat
    BY <1>0, LenProperties DEF ValueInv
  <2>3. Grows
    BY <2>1, <2>2 DEF Grows
  <2>4. UNCHANGED <<pc, app, runtime, version, failPayloads, result, verdict, breached>>
    BY <1>2 DEF Call, Ask, ReadDirectory, ReadFailure, repository, vars
  <2> QED
    BY <1>0, <2>3, <2>4, ExpectWaits
<1>3. CASE RecordAndReply
  <2>1. PICK f \in flight : requests' = Append(requests, RecordOf(f))
    BY <1>0, <1>3, ReplyMoves
  <2>2. UNCHANGED <<pc, app, runtime, version, failPayloads, result, verdict, breached, retryStart>>
    BY <1>3 DEF RecordAndReply, repository
  <2>3. Grows
    BY <1>0, <2>1, <2>2, RecordMoves
  <2> QED
    BY <1>0, <2>2, <2>3, ExpectWaits
<1>4. CASE TimeOut \/ Pass
  <2>1. verdict' # "none"
    BY <1>4 DEF TimeOut, Pass
  <2> QED
    BY <2>1 DEF ExpectInv
<1>5. CASE Set
  <2>1. /\ verdict = "none" /\ ~Over /\ Step.ref = "repository" /\ pc' = pc + 1
        /\ version' = IF Step.op = "publish B" THEN "B" ELSE version
        /\ failPayloads' = CASE Step.op = "block" -> TRUE
                             [] Step.op = "unblock" -> FALSE
                             [] OTHER -> failPayloads
        /\ UNCHANGED <<app, runtime, result, verdict, breached>>
    BY <1>5 DEF Set
  <2>2. result = NoResult
    BY <1>0, <2>1 DEF StageInv
  <2>3. pc <= Len(Program)
    <3>1. pc \in 1..(Len(Program) + 1) /\ Len(Program) \in Nat /\ pc # Len(Program) + 1
      BY <1>0, <2>1, Facts DEF ValueInv
    <3> QED
      BY <3>1
  <2>4. Assigns(Step, Trace[pc], Trace[pc + 1])
    BY <1>0, <2>1, <2>3, Facts DEF Fine
  <2>5. version' = Trace[pc + 1].version /\ failPayloads' = Trace[pc + 1].blocked
    BY <1>0, <2>1, <2>4 DEF ExpectInv, Assigns
  <2>6. ~breached' => app' = Trace[pc + 1].app /\ runtime' = Trace[pc + 1].runtime
    BY <1>0, <2>1, <2>2, <2>4 DEF ExpectInv, Assigns
  <2> QED
    BY <1>1, <2>1, <2>2, <2>5, <2>6 DEF ExpectInv
<1>6. CASE Judge
  <2>1. /\ result # NoResult /\ result' = NoResult
        /\ IF Required(result) THEN pc' = pc + 1 /\ UNCHANGED verdict
                               ELSE verdict' = Step.raises /\ UNCHANGED pc
        /\ UNCHANGED <<app, runtime, version, failPayloads, breached>>
    BY <1>6 DEF Judge, repository
  <2>2. verdict = "none" /\ pc <= Len(Program) /\ Step.ref # "repository"
    BY <1>0, <2>1 DEF StageInv
  <2>3. Step \in Steps /\ Obeys(kind, Step, Trace[pc], Trace[pc + 1])
    BY <1>0, <2>2, Facts DEF Fine
  <2>4. CASE Required(result)
    <3>1. Trace[pc + 1].version = Trace[pc].version /\ Trace[pc + 1].blocked = Trace[pc].blocked
      BY <2>3 DEF Obeys
    <3>2. pc' = pc + 1
      BY <2>1, <2>4
    <3> QED
      BY <1>0, <1>1, <2>1, <2>2, <3>1, <3>2 DEF ExpectInv
  <2>5. CASE ~Required(result)
    <3>1. verdict' # "none"
      BY <2>1, <2>3, <2>5 DEF Steps
    <3> QED
      BY <3>1 DEF ExpectInv
  <2> QED
    BY <2>4, <2>5
<1>7. CASE Finish
  <2>1. PICK o \in Conforming \union Deviant :
           /\ result' = o /\ app' = o.app /\ runtime' = o.runtime
           /\ breached' = (breached \/ o \notin Conforming)
    BY <1>7 DEF Finish
  <2>2. Running /\ UNCHANGED <<pc, version, failPayloads, requests, retryStart, verdict>>
    BY <1>7 DEF Finish, repository
  <2>3. pc <= Len(Program) /\ Step.ref # "repository" /\ verdict = "none" /\ result = NoResult
    BY <1>0, <2>2 DEF StageInv
  <2>4. result' # NoResult
    BY <1>0, <2>1, <2>2, <2>3, ConformingShape, DeviantShape, OutcomeIsResult
  <2>5. Step' = Step
    BY <2>2, Steady DEF Step
  <2>6. ASSUME ~breached'
        PROVE  app' = Trace[pc + 1].app /\ runtime' = Trace[pc + 1].runtime /\ Required(result)'
    <3>1. ~breached /\ o \in Conforming
      BY <2>1, <2>6
    <3>2. Required(o) /\ o.app = Trace[pc + 1].app /\ o.runtime = Trace[pc + 1].runtime
      BY <1>0, <2>2, <3>1, ContractIsRequired
    <3>3. Required(result)'
      BY <2>1, <2>2, <2>5, <3>2 DEF Required
    <3> QED
      BY <2>1, <3>2, <3>3
  <2> QED
    BY <1>0, <1>1, <2>2, <2>3, <2>4, <2>6 DEF ExpectInv
<1> QED
  BY <1>2, <1>3, <1>4, <1>5, <1>6, <1>7 DEF Next, Driver, do_GET, Done

\* Only a requirement that is not met is reported, and a target that keeps its contract meets it.
LEMMA BlameStep == LifecycleInv /\ [Next]_vars => BlameInv'
<1> SUFFICES ASSUME LifecycleInv, [Next]_vars PROVE BlameInv'
  OBVIOUS
<1>0. StageInv /\ ExpectInv /\ BlameInv
  BY DEF LifecycleInv
<1>1. CASE Judge
  <2>1. result # NoResult /\ verdict = "none" /\ breached' = breached
    BY <1>0, <1>1 DEF Judge, StageInv
  <2>2. CASE Required(result)
    BY <1>1, <2>1, <2>2 DEF Judge, BlameInv
  <2>3. CASE ~Required(result)
    BY <1>0, <2>1, <2>3 DEF ExpectInv, BlameInv
  <2> QED
    BY <2>2, <2>3
<1>2. CASE TimeOut \/ Pass
  BY <1>2 DEF TimeOut, Pass, BlameInv
<1>3. CASE Finish
  BY <1>0, <1>3 DEF Finish, BlameInv
<1>4. CASE verdict' = verdict /\ breached' = breached
  BY <1>0, <1>4 DEF BlameInv
<1> QED
  BY <1>1, <1>2, <1>3, <1>4 DEF Next, Driver, do_GET, Call, Set, Ask, ReadDirectory,
                              ReadFailure, RecordAndReply, Done, vars

\* Without late answers, what is in flight belongs to the command in hand, so that the
\* requests after the mark are those of the steps after it.
LEMMA RetryStep == LifecycleInv /\ [Next]_vars => RetryInv'
<1> SUFFICES ASSUME LifecycleInv, [Next]_vars, ~late PROVE RetryInv'
  BY Steady DEF RetryInv
<1>0. ValueInv /\ StageInv /\ CmdInv /\ FlightInv /\ EvidenceInv
  BY DEF LifecycleInv
<1>1. Trace' = Trace /\ Program' = Program /\ pc \in Nat /\ Len(Program) \in Nat
  BY <1>0, Steady, Facts
<1>2. /\ verdict = "none" /\ ~Running => flight = {}
      /\ \A f \in flight : f.step = pc
      /\ Trace[pc].marked => \A i \in (retryStart + 1)..Len(requests) : Trace[requests[i].step].marked
      /\ Trace[pc].retried => Served("B")
  BY DEF LifecycleInv, RetryInv
<1>3. ASSUME UNCHANGED <<pc, requests, retryStart>>,
             verdict' = "none" /\ ~Running' => flight' = {},
             \A f \in flight' : f.step = pc
      PROVE  RetryInv'
  BY <1>1, <1>2, <1>3 DEF RetryInv, Served
<1>4. CASE Call \/ Ask
  <2>1. Running' /\ UNCHANGED <<pc, requests, retryStart>>
    <3>1. CASE Call
      <4>1. cmd' = [Idle EXCEPT !.running = TRUE]
        BY <3>1 DEF Call
      <4>2. Running'
        BY <4>1 DEF Idle, Running
      <4> QED
        BY <3>1, <4>2 DEF Call
    <3>2. CASE Ask
      <4>1. PICK p \in Paths : Running /\ cmd' = [cmd EXCEPT !.sent = @ \union {p}]
        BY <3>2 DEF Ask
      <4>2. cmd \in Cmds
        BY <1>0, <4>1 DEF CmdInv
      <4>3. Running'
        BY <4>1, <4>2 DEF Cmds, Running
      <4> QED
        BY <3>2, <4>3 DEF Ask
    <3> QED
      BY <1>4, <3>1, <3>2
  <2>2. \A f \in flight' : f \in flight \/ f.step = pc
    BY <1>4 DEF Call, Ask
  <2> QED
    BY <1>2, <1>3, <2>1, <2>2
<1>5. CASE TimeOut \/ Pass
  BY <1>2, <1>3, <1>5 DEF TimeOut, Pass
<1>6. CASE UNCHANGED vars
  <2>1. Running' = Running /\ UNCHANGED <<pc, requests, retryStart, flight, verdict>>
    BY <1>6 DEF vars, Running
  <2> QED
    BY <1>2, <1>3, <2>1
<1>7. CASE Finish
  <2>1. flight = {} /\ UNCHANGED <<pc, requests, retryStart, flight>>
    BY <1>7 DEF Finish
  <2> QED
    BY <1>3, <2>1
<1>8. CASE ReadDirectory \/ ReadFailure
  <2>1. PICK f \in flight : \E a, d :
           flight' = (flight \ {f}) \union {[f EXCEPT !.at = a, !.dir = d]}
    <3>1. CASE ReadDirectory
      BY <3>1 DEF ReadDirectory
    <3>2. CASE ReadFailure
      <4>1. PICK f \in flight, a \in {"blocked", "open"} :
               flight' = (flight \ {f}) \union {[f EXCEPT !.at = a]}
        BY <3>2 DEF ReadFailure
      <4>2. f \in Flights
        BY <1>0 DEF FlightInv
      <4>3. [f EXCEPT !.at = a] = [f EXCEPT !.at = a, !.dir = f.dir]
        BY <4>2 DEF Flights
      <4>4. flight' = (flight \ {f}) \union {[f EXCEPT !.at = a, !.dir = f.dir]}
        BY <4>1, <4>3
      <4> QED
        BY <4>4
    <3> QED
      BY <1>8, <3>1, <3>2
  <2>2. UNCHANGED <<pc, requests, retryStart, verdict, cmd>>
    BY <1>8 DEF ReadDirectory, ReadFailure
  <2>3. f \in Flights /\ f.step = pc
    BY <1>0, <1>2 DEF FlightInv
  <2>4. \A a, d : [f EXCEPT !.at = a, !.dir = d].step = pc
    BY <2>3 DEF Flights
  <2>5. \A g \in flight' : g.step = pc
    BY <1>2, <2>1, <2>4
  <2>6. ~(verdict' = "none" /\ ~Running')
    BY <1>2, <2>1, <2>2 DEF Running
  <2> QED
    BY <1>3, <2>2, <2>5, <2>6
<1>9. CASE Set
  <2>1. /\ verdict = "none" /\ ~Over /\ Step.ref = "repository" /\ pc' = pc + 1
        /\ retryStart' = IF Step.op = "mark" THEN RetryMark ELSE retryStart
        /\ UNCHANGED <<requests, flight>>
    BY <1>9 DEF Set
  <2>2. flight' = {}
    BY <1>0, <1>2, <2>1 DEF StageInv
  <2>3. pc <= Len(Program)
    <3>1. pc \in 1..(Len(Program) + 1) /\ pc # Len(Program) + 1
      BY <1>0, <2>1, Facts DEF ValueInv
    <3> QED
      BY <1>1, <3>1
  <2>4. Marks(Step, Trace[pc], Trace[pc + 1])
    BY <1>0, <2>3, Facts DEF Fine
  <2>5. Trace[pc + 1].marked =>
          \A i \in (retryStart' + 1)..Len(requests) : Trace[requests[i].step].marked
    <3>1. CASE Step.op = "mark"
      <4>1. retryStart' = Len(requests) /\ Len(requests) \in Nat
        BY <1>0, <2>1, <3>1, LenProperties DEF RetryMark, ValueInv
      <4> QED
        BY <4>1
    <3>2. CASE Step.op # "mark"
      BY <1>2, <2>1, <2>4, <3>2 DEF Marks
    <3> QED
      BY <3>1, <3>2
  <2>6. Trace[pc + 1].retried => Served("B")'
    <3>1. SUFFICES ASSUME Trace[pc + 1].retried PROVE Served("B")'
      OBVIOUS
    <3>2. Trace[pc].retried /\ Step.op # "mark"
      BY <2>1, <2>4, <3>1 DEF Marks
    <3>3. UNCHANGED <<requests, retryStart>>
      BY <2>1, <3>2
    <3> QED
      BY <1>2, <3>2, <3>3 DEF Served
  <2> QED
    BY <1>1, <2>1, <2>2, <2>5, <2>6 DEF RetryInv
<1>10. CASE Judge
  <2>1. /\ result # NoResult /\ UNCHANGED <<requests, retryStart, flight>>
        /\ IF Required(result) THEN pc' = pc + 1 /\ UNCHANGED verdict
                               ELSE verdict' = Step.raises /\ UNCHANGED pc
    BY <1>10 DEF Judge
  <2>2. verdict = "none" /\ pc <= Len(Program) /\ Step.ref # "repository" /\ ~Running
    BY <1>0, <2>1 DEF StageInv
  <2>3. flight' = {}
    BY <1>2, <2>1, <2>2
  <2>4. Marks(Step, Trace[pc], Trace[pc + 1])
    BY <1>0, <2>2, Facts DEF Fine
  <2>5. CASE Required(result)
    <3>1. pc' = pc + 1
      BY <2>1, <2>5
    <3>2. Trace[pc + 1].marked => Trace[pc].marked
      BY <2>2, <2>4 DEF Marks
    <3>3. Trace[pc + 1].retried => Trace[pc].retried \/ Step.need = "restored download"
      BY <2>4 DEF Marks
    <3>4. Step.need = "restored download" => Served("B")
      BY <2>5, Requirements
    <3>5. Trace[pc + 1].retried => Served("B")'
      BY <1>2, <2>1, <3>3, <3>4 DEF Served
    <3> QED
      BY <1>1, <1>2, <2>1, <2>3, <3>1, <3>2, <3>5 DEF RetryInv
  <2>6. CASE ~Required(result)
    BY <1>3, <2>1, <2>3, <2>6
  <2> QED
    BY <2>5, <2>6
<1>11. CASE RecordAndReply
  <2>1. PICK f \in flight :
           /\ flight' = flight \ {f} /\ requests' = Append(requests, RecordOf(f)) /\ Learns(f)
    BY <1>0, <1>11, ReplyMoves
  <2>2. UNCHANGED <<pc, retryStart, verdict>>
    BY <1>11 DEF RecordAndReply
  <2>3. /\ Grows /\ Len(requests) \in Nat /\ Len(requests') = Len(requests) + 1
        /\ requests'[Len(requests) + 1] = RecordOf(f)
        /\ \A i \in 1..Len(requests') : i \in 1..Len(requests) \/ i = Len(requests) + 1
    BY <1>0, <2>1, <2>2, RecordMoves
  <2>4. RecordOf(f).step = pc
    BY <1>2 DEF RecordOf
  <2>5. retryStart \in 0..Len(requests)
    BY <1>0 DEF ValueInv
  <2>6. Running' = Running
    BY <2>1 DEF Learns, Running
  <2>7. ~(verdict' = "none" /\ ~Running') /\ \A g \in flight' : g.step = pc
    BY <1>2, <2>1, <2>2, <2>6
  <2>8. ASSUME Trace[pc].marked, NEW i \in (retryStart + 1)..Len(requests')
        PROVE  Trace[requests'[i].step].marked
    <3>1. i \in 1..Len(requests')
      BY <2>5, <2>3
    <3>2. CASE i = Len(requests) + 1
      BY <2>3, <2>4, <2>8, <3>2
    <3>3. CASE i \in 1..Len(requests)
      <4>1. i \in (retryStart + 1)..Len(requests) /\ requests'[i] = requests[i]
        BY <2>3, <2>5, <3>3 DEF Grows
      <4> QED
        BY <1>2, <2>8, <4>1
    <3> QED
      BY <2>3, <3>1, <3>2, <3>3
  <2>9. Served("B") => Served("B")'
    BY <1>0, <2>3, EvidenceStays
  <2> QED
    BY <1>1, <1>2, <2>2, <2>7, <2>8, <2>9 DEF RetryInv
<1> QED
  BY <1>4, <1>5, <1>6, <1>7, <1>8, <1>9, <1>10, <1>11 DEF Next, Driver, do_GET, Done

LEMMA Inductive == LifecycleInv /\ [Next]_vars => LifecycleInv'
BY ValueStep, StageStep, CmdStep, FlightStep, RequestStep, EvidenceStep, RetryStep, ExpectStep,
   BlameStep DEF LifecycleInv

LEMMA Holds == Spec => []LifecycleInv
BY InitHolds, Inductive, PTL DEF Spec

-----------------------------------------------------------------------------
\* The theorems.

\* run.py:197-233, 455: the values stay in their sets, the mark of the retry lies within the
\* recorded requests, and every request in flight belongs to a command that was started.
THEOREM LifecycleTypes == Spec => []TypeOK
<1>1. LifecycleInv => TypeOK
  <2> SUFFICES ASSUME LifecycleInv PROVE TypeOK
    OBVIOUS
  <2>1. ValueInv /\ CmdInv /\ FlightInv
    BY DEF LifecycleInv
  <2>2. cmd.sent \subseteq Paths /\ cmd.got \subseteq cmd.sent /\ cmd.denied \subseteq cmd.sent
    BY <2>1 DEF CmdInv, Cmds, Idle
  <2>3. \A f \in flight : f.path \in Paths /\ f.step \in 1..pc
    <3>1. ASSUME NEW f \in flight PROVE f.path \in Paths /\ f.step \in 1..pc
      BY <2>1 DEF FlightInv, Travels, Flights
    <3> QED
      BY <3>1
  <2> QED
    BY <2>1, <2>2, <2>3 DEF TypeOK, ValueInv, Program
<1> QED
  BY <1>1, Holds, PTL

\* run.py:106-108, 332-339, 381-471: whatever the target does and whenever the server's
\* threads answer, a scenario is reported "failed" only if the target broke its contract.
THEOREM FailedIsDeserved == Spec => []FailSound
<1>1. LifecycleInv => FailSound
  BY DEF LifecycleInv, BlameInv, FailSound
<1> QED
  BY <1>1, Holds, PTL

\* run.py:444-459: a passed retry asked for a payload itself and was not refused, if no request
\* of the failed update was still in flight when that command ended.
THEOREM RetryIsFetched == Spec => []RetryFetched
<1>1. LifecycleInv => RetryFetched
  <2> SUFFICES ASSUME LifecycleInv, verdict = "passed", name = "retry-update", ~late
               PROVE  \E i \in 1..Len(requests) :
                         /\ IsPayload(requests[i].path) /\ ~requests[i].blocked
                         /\ scenario(kind, name)[requests[i].step].need = "restored download"
    BY DEF RetryFetched
  <2>1. ValueInv /\ StageInv /\ RequestInv /\ RetryInv
    BY DEF LifecycleInv
  <2>2. kind \in {"cli", "library"} /\ name \in AllNames /\ Len(Program) \in Nat
    BY <2>1, Facts
  <2>3. pc = Len(Program) + 1 /\ Trace[pc].retried
    BY <2>1, <2>2, TraceShape DEF StageInv
  <2>4. Len(Program) \in 1..Len(Program)
    <3>1. Trace[1].retried = FALSE
      BY <2>2, TraceShape DEF Fresh, Situation
    <3>2. Len(Program) # 0
      BY <2>3, <3>1
    <3> QED
      BY <2>2, <3>2
  <2>5. Trace[pc].marked
    <3>1. Marks(Program[Len(Program)], Trace[Len(Program)], Trace[Len(Program) + 1])
      BY <2>2, <2>4, TraceShape DEF Fine
    <3> QED
      BY <2>3, <3>1 DEF Marks
  <2>6. Served("B") /\ \A i \in (retryStart + 1)..Len(requests) : Trace[requests[i].step].marked
    BY <2>1, <2>3, <2>5 DEF RetryInv
  <2>7. PICK i \in (retryStart + 1)..Len(requests) :
           IsPayload(requests[i].path) /\ ~requests[i].blocked
    BY <2>6 DEF Served
  <2>8. i \in 1..Len(requests)
    BY <2>1, <2>7 DEF ValueInv
  <2>9. requests[i].step \in 1..Len(Program) /\ Program[requests[i].step].op \in Fetching
    BY <2>1, <2>2, <2>3, <2>7, <2>8 DEF RequestInv
  <2>10. Marks(Program[requests[i].step], Trace[requests[i].step], Trace[requests[i].step + 1])
    BY <2>2, <2>9, TraceShape DEF Fine
  <2>11. Program[requests[i].step].need = "restored download"
    BY <2>6, <2>7, <2>9, <2>10 DEF Marks
  <2> QED
    BY <2>7, <2>8, <2>11 DEF Program
<1> QED
  BY <1>1, Holds, PTL
-----------------------------------------------------------------------------
\* What follows the steps that a breach could pass.

\* Every step is followed by what shows the breach it could pass.
Shows(c, ref) == c.op = "query" /\ c.ref = ref
Lists(c) == c.op = "list-refs" /\ c.ref # "repository"
Watched(n, P, i) ==
    /\ P[i].need \in {"warned", "ALREADY_INSTALLED", "blocked download"} =>
          i < Len(P) /\ Shows(P[i + 1], "app")
    /\ P[i].need \in {"aborted", "REF_NOT_FOUND"} => i < Len(P) /\ Lists(P[i + 1])
    /\ P[i].op = "uninstall" /\ P[i].ref = "app" =>
          i + 1 < Len(P) /\ Shows(P[i + 1], "runtime") /\ Shows(P[i + 2], "app")
    /\ P[i].ref = "missing" => P[i].need \in {"REF_NOT_FOUND", "NOT_INSTALLED"}
    /\ n \in Failing /\ P[i].op = "update" => P[i].need # "success"
Guarded(n, P) == P \in Seq(Steps) /\ \A i \in 1..Len(P) : Watched(n, P, i)

\* So it is once the program goes on with a query of the application.
Hands(n, P, i) ==
    /\ P[i].ref # "missing" /\ P[i].need \notin {"aborted", "REF_NOT_FOUND"}
    /\ n \in Failing /\ P[i].op = "update" => P[i].need # "success"
    /\ \/ i = Len(P) /\ P[i].op # "uninstall"
       \/ /\ i + 1 = Len(P) /\ Shows(P[i + 1], "runtime")
          /\ P[i].need \notin {"warned", "ALREADY_INSTALLED", "blocked download"}
Handing(n, P) == P \in Seq(Steps) /\ \A i \in 1..Len(P) : Watched(n, P, i) \/ Hands(n, P, i)

LEMMA JoinShape ==
    ASSUME NEW P \in Seq(Steps), NEW Q \in Seq(Steps)
    PROVE  /\ P \o Q \in Seq(Steps) /\ Len(P) \in Nat /\ Len(Q) \in Nat
           /\ Len(P \o Q) = Len(P) + Len(Q)
           /\ \A i \in 1..Len(P) : (P \o Q)[i] = P[i]
           /\ \A i \in 1..Len(Q) : (P \o Q)[Len(P) + i] = Q[i]
           /\ \A i \in 1..(Len(P) + Len(Q)) :
                 i \in 1..Len(P) \/ \E j \in 1..Len(Q) : i = Len(P) + j
<1>1. /\ P \o Q \in Seq(Steps) /\ Len(P \o Q) = Len(P) + Len(Q)
      /\ \A i \in 1..(Len(P) + Len(Q)) : (P \o Q)[i] = IF i <= Len(P) THEN P[i] ELSE Q[i - Len(P)]
  BY ConcatProperties
<1> DEFINE R == P \o Q
           p == Len(P)
           q == Len(Q)
<1>2. p \in Nat /\ q \in Nat
  BY LenProperties
<1>3. \A i \in 1..(p + q) : R[i] = IF i <= p THEN P[i] ELSE Q[i - p]
  BY <1>1
<1> HIDE DEF R, p, q
<1>4. \A i \in 1..p : R[i] = P[i]
  BY <1>2, <1>3
<1>5. ASSUME NEW i \in 1..q PROVE R[p + i] = Q[i]
  <2>1. p + i \in 1..(p + q) /\ ~(p + i <= p) /\ (p + i) - p = i
    BY <1>2
  <2> QED
    BY <1>3, <2>1
<1>6. ASSUME NEW i \in 1..(p + q), i \notin 1..p PROVE \E j \in 1..q : i = p + j
  <2>1. i - p \in 1..q /\ i = p + (i - p)
    BY <1>2, <1>6
  <2> QED
    BY <2>1
<1> QED
  BY <1>1, <1>2, <1>4, <1>5, <1>6 DEF R, p, q

LEMMA WatchedLeft ==
    ASSUME NEW n, NEW P \in Seq(Steps), NEW Q \in Seq(Steps), NEW i \in 1..Len(P), Watched(n, P, i)
    PROVE  Watched(n, P \o Q, i)
<1> DEFINE R == P \o Q
<1>1. /\ Len(P) \in Nat /\ Len(Q) \in Nat /\ Len(R) = Len(P) + Len(Q)
      /\ \A j \in 1..Len(P) : R[j] = P[j]
  BY JoinShape
<1> HIDE DEF R
<1>2. R[i] = P[i]
  BY <1>1
<1>3. i < Len(P) => i < Len(R) /\ R[i + 1] = P[i + 1]
  <2>1. i < Len(P) => i + 1 \in 1..Len(P)
    BY <1>1
  <2> QED
    BY <1>1, <2>1
<1>4. i + 1 < Len(P) => i + 1 < Len(R) /\ R[i + 1] = P[i + 1] /\ R[i + 2] = P[i + 2]
  <2>1. i + 1 < Len(P) => i + 1 \in 1..Len(P) /\ i + 2 \in 1..Len(P)
    BY <1>1
  <2> QED
    BY <1>1, <2>1
<1>5. Watched(n, R, i)
  BY <1>2, <1>3, <1>4 DEF Watched
<1> QED
  BY <1>5 DEF R

LEMMA WatchedRight ==
    ASSUME NEW n, NEW P \in Seq(Steps), NEW Q \in Seq(Steps), NEW i \in 1..Len(Q)
    PROVE  /\ Watched(n, Q, i) => Watched(n, P \o Q, Len(P) + i)
           /\ Hands(n, Q, i) => Hands(n, P \o Q, Len(P) + i)
<1> DEFINE R == P \o Q
           j == Len(P) + i
<1>1. /\ Len(P) \in Nat /\ Len(Q) \in Nat /\ Len(R) = Len(P) + Len(Q)
      /\ \A k \in 1..Len(Q) : R[Len(P) + k] = Q[k]
  BY JoinShape
<1> HIDE DEF R
<1>2. R[j] = Q[i]
  BY <1>1
<1>3. i < Len(Q) => j < Len(R) /\ R[j + 1] = Q[i + 1]
  <2>1. i < Len(Q) => i + 1 \in 1..Len(Q) /\ j + 1 = Len(P) + (i + 1) /\ j < Len(R)
    BY <1>1
  <2> QED
    BY <1>1, <2>1
<1>4. i + 1 < Len(Q) => j + 1 < Len(R) /\ R[j + 1] = Q[i + 1] /\ R[j + 2] = Q[i + 2]
  <2>1. i + 1 < Len(Q) => /\ i + 1 \in 1..Len(Q) /\ j + 1 = Len(P) + (i + 1)
                          /\ i + 2 \in 1..Len(Q) /\ j + 2 = Len(P) + (i + 2) /\ j + 1 < Len(R)
    BY <1>1
  <2> QED
    BY <1>1, <2>1
<1>5. (i = Len(Q) => j = Len(R)) /\ (i + 1 = Len(Q) => j + 1 = Len(R) /\ i < Len(Q))
  <2>1. i \in Nat
    OBVIOUS
  <2>2. \A p, q \in Nat : /\ i = q => p + i = p + q
                        /\ i + 1 = q => (p + i) + 1 = p + q /\ i < q
    BY <2>1
  <2> QED
    BY <1>1, <2>2
<1> HIDE DEF j
<1>6. Watched(n, Q, i) => Watched(n, R, j)
  BY <1>2, <1>3, <1>4 DEF Watched
<1>7. Hands(n, Q, i) => Hands(n, R, j)
  BY <1>2, <1>3, <1>5 DEF Hands
<1> QED
  BY <1>6, <1>7 DEF R, j

\* Programs whose steps are watched are put together.
LEMMA GuardedJoin ==
    ASSUME NEW n, NEW P, NEW Q, Guarded(n, P)
    PROVE  /\ Guarded(n, Q) => Guarded(n, P \o Q)
           /\ Handing(n, Q) => Handing(n, P \o Q)
<1>1. ASSUME Q \in Seq(Steps), \A i \in 1..Len(Q) : Watched(n, Q, i) PROVE Guarded(n, P \o Q)
  <2>1. P \in Seq(Steps)
    BY DEF Guarded
  <2>2. \A i \in 1..Len(P) : Watched(n, P \o Q, i)
    BY <1>1, <2>1, WatchedLeft DEF Guarded
  <2>3. \A i \in 1..Len(Q) : Watched(n, P \o Q, Len(P) + i)
    BY <1>1, <2>1, WatchedRight
  <2> QED
    BY <1>1, <2>1, <2>2, <2>3, JoinShape DEF Guarded
<1>2. ASSUME Q \in Seq(Steps), \A i \in 1..Len(Q) : Watched(n, Q, i) \/ Hands(n, Q, i)
      PROVE  Handing(n, P \o Q)
  <2>1. P \in Seq(Steps)
    BY DEF Guarded
  <2>2. \A i \in 1..Len(P) : Watched(n, P \o Q, i)
    BY <1>2, <2>1, WatchedLeft DEF Guarded
  <2>3. \A i \in 1..Len(Q) : Watched(n, P \o Q, Len(P) + i) \/ Hands(n, P \o Q, Len(P) + i)
    BY <1>2, <2>1, WatchedRight
  <2> QED
    BY <1>2, <2>1, <2>2, <2>3, JoinShape DEF Handing
<1> QED
  BY <1>1, <1>2 DEF Guarded, Handing

LEMMA HandingJoin ==
    ASSUME NEW n, NEW P, NEW Q, Handing(n, P), Guarded(n, Q), Len(Q) > 0, Shows(Q[1], "app")
    PROVE  Guarded(n, P \o Q)
<1>1. P \in Seq(Steps) /\ Q \in Seq(Steps)
  BY DEF Handing, Guarded
<1> DEFINE R == P \o Q
<1>2. /\ R \in Seq(Steps) /\ Len(P) \in Nat /\ Len(Q) \in Nat /\ Len(R) = Len(P) + Len(Q)
      /\ \A i \in 1..Len(P) : R[i] = P[i]
      /\ \A i \in 1..Len(Q) : R[Len(P) + i] = Q[i]
      /\ \A i \in 1..(Len(P) + Len(Q)) : i \in 1..Len(P) \/ \E j \in 1..Len(Q) : i = Len(P) + j
  BY <1>1, JoinShape
<1>3. \A i \in 1..Len(Q) : Watched(n, R, Len(P) + i)
  BY <1>1, WatchedRight DEF Guarded
<1>4. \A i \in 1..Len(P) : Watched(n, P, i) => Watched(n, R, i)
  BY <1>1, WatchedLeft
<1> HIDE DEF R
<1>5. R[Len(P) + 1] = Q[1]
  BY <1>2
<1>6. ASSUME NEW i \in 1..Len(P), Hands(n, P, i) PROVE Watched(n, R, i)
  <2>1. R[i] = P[i]
    BY <1>2
  <2>2. CASE i = Len(P) /\ P[i].op # "uninstall"
    <3>1. i < Len(R) /\ Shows(R[i + 1], "app")
      BY <1>2, <1>5, <2>2
    <3> QED
      BY <1>6, <2>1, <2>2, <3>1 DEF Watched, Hands
  <2>3. CASE /\ i + 1 = Len(P) /\ Shows(P[i + 1], "runtime")
             /\ P[i].need \notin {"warned", "ALREADY_INSTALLED", "blocked download"}
    <3>1. i + 1 \in 1..Len(P) /\ i + 2 = Len(P) + 1 /\ i + 1 < Len(R)
      <4>1. i \in Nat
        OBVIOUS
      <4>2. \A p, q \in Nat : i + 1 = p /\ q > 0 => i + 1 \in 1..p /\ i + 2 = p + 1 /\ i + 1 < p + q
        BY <4>1
      <4>3. i + 1 = Len(P)
        BY <2>3
      <4> QED
        BY <1>2, <4>2, <4>3
    <3>2. Shows(R[i + 1], "runtime") /\ Shows(R[i + 2], "app")
      BY <1>2, <1>5, <2>3, <3>1
    <3> QED
      BY <1>6, <2>1, <2>3, <3>1, <3>2 DEF Watched, Hands
  <2> QED
    BY <1>6, <2>2, <2>3 DEF Hands
<1>7. \A i \in 1..Len(R) : Watched(n, R, i)
  BY <1>2, <1>3, <1>4, <1>6 DEF Handing
<1>8. Guarded(n, R)
  BY <1>2, <1>7 DEF Guarded
<1> QED
  BY <1>8 DEF R

\* A step that a breach cannot pass needs no watch.
Plain(n, c) ==
    /\ c.need \notin {"warned", "ALREADY_INSTALLED", "blocked download", "aborted", "REF_NOT_FOUND"}
    /\ c.op = "uninstall" => c.ref # "app"
    /\ c.ref = "missing" => c.need = "NOT_INSTALLED"
    /\ n \in Failing /\ c.op = "update" => c.need # "success"

LEMMA PlainWatched ==
    ASSUME NEW n, NEW P \in Seq(Steps), \A i \in 1..Len(P) : Plain(n, P[i])
    PROVE  Guarded(n, P)
<1>1. ASSUME NEW i \in 1..Len(P) PROVE Watched(n, P, i)
  <2>1. Plain(n, P[i])
    OBVIOUS
  <2> QED
    BY <2>1 DEF Plain, Watched
<1> QED
  BY <1>1 DEF Guarded

LEMMA PlainOne == ASSUME NEW n, NEW c \in Steps, Plain(n, c) PROVE Guarded(n, <<c>>)
<1> DEFINE P == <<c>>
<1>1. P \in Seq(Steps) /\ Len(P) = 1 /\ P[1] = c
  OBVIOUS
<1> HIDE DEF P
<1>2. \A i \in 1..Len(P) : Plain(n, P[i])
  BY <1>1
<1>3. Guarded(n, P)
  BY <1>1, <1>2, PlainWatched
<1> QED
  BY <1>3 DEF P

LEMMA PlainTwo ==
    ASSUME NEW n, NEW c \in Steps, NEW d \in Steps, Plain(n, c), Plain(n, d)
    PROVE  Guarded(n, <<c, d>>)
<1> DEFINE P == <<c, d>>
<1>1. P \in Seq(Steps) /\ Len(P) = 2 /\ P[1] = c /\ P[2] = d
  OBVIOUS
<1> HIDE DEF P
<1>2. \A i \in 1..Len(P) : Plain(n, P[i])
  BY <1>1
<1>3. Guarded(n, P)
  BY <1>1, <1>2, PlainWatched
<1> QED
  BY <1>3 DEF P

LEMMA PlainThree ==
    ASSUME NEW n, NEW c \in Steps, NEW d \in Steps, NEW e \in Steps, Plain(n, c), Plain(n, d), Plain(n, e)
    PROVE  Guarded(n, <<c, d, e>>)
<1> DEFINE P == <<c, d, e>>
<1>1. P \in Seq(Steps) /\ Len(P) = 3 /\ P[1] = c /\ P[2] = d /\ P[3] = e
  OBVIOUS
<1> HIDE DEF P
<1>2. \A i \in 1..Len(P) : Plain(n, P[i])
  BY <1>1
<1>3. Guarded(n, P)
  BY <1>1, <1>2, PlainWatched
<1> QED
  BY <1>3 DEF P

LEMMA AssertsGuarded ==
    ASSUME NEW n, NEW v \in {"A", "B"}
    PROVE  /\ Guarded(n, assert_installed_version(v)) /\ Len(assert_installed_version(v)) > 0
           /\ Shows(assert_installed_version(v)[1], "app")
<1> DEFINE c == query("app", v)
           d == query("runtime", "R")
           e == Command("run", "app", v, "failed")
<1>1. c \in Steps /\ d \in Steps /\ e \in Steps
  BY DEF query, Command, Steps, StepOps, StepRefs, StepNeeds
<1>2. Plain(n, c) /\ Plain(n, d) /\ Plain(n, e) /\ Shows(c, "app")
  BY DEF query, Command, Plain, Shows
<1> HIDE DEF c, d, e
<1>3. Guarded(n, <<c, d, e>>) /\ Len(<<c, d, e>>) > 0 /\ <<c, d, e>>[1] = c
  BY <1>1, <1>2, PlainThree
<1>4. assert_installed_version(v) = <<c, d, e>>
  BY DEF assert_installed_version, c, d, e
<1> QED
  BY <1>2, <1>3, <1>4

LEMMA EmptyGuarded == ASSUME NEW n PROVE Guarded(n, <<>>)
BY DEF Guarded

LEMMA AbsentRefGuarded == ASSUME NEW n, NEW k PROVE Guarded(n, AfterInstall(k, "absent-ref"))
<1> DEFINE c == expect_error("query", "missing", "NOT_INSTALLED")
           d == expect_error("uninstall", "missing", "NOT_INSTALLED")
           a == assert_installed_version("A")
<1>1. c \in Steps /\ d \in Steps
  BY DEF expect_error, Command, Steps, StepOps, StepRefs, StepNeeds
<1>2. Plain(n, c) /\ Plain(n, d)
  BY DEF expect_error, Command, Plain
<1>3. Guarded(n, <<c>>) /\ Guarded(n, <<d>>)
  BY <1>1, <1>2, PlainOne
<1>4. Guarded(n, a)
  BY AssertsGuarded
<1>5. AfterInstall(k, "absent-ref") = <<c>> \o a \o <<d>> \o a
  BY DEF AfterInstall, Failing
<1> HIDE DEF c, d, a
<1>6. Guarded(n, <<c>> \o a)
  BY <1>3, <1>4, GuardedJoin
<1>7. Guarded(n, <<c>> \o a \o <<d>>)
  BY <1>3, <1>6, GuardedJoin
<1>8. Guarded(n, <<c>> \o a \o <<d>> \o a)
  BY <1>4, <1>7, GuardedJoin
<1> QED
  BY <1>5, <1>8

LEMMA NoopGuarded ==
    ASSUME NEW n, n \notin Failing, NEW k PROVE Guarded(n, AfterInstall(k, "noop-update"))
<1> DEFINE c == success("update", "app")
           a == assert_installed_version("A")
<1>1. c \in Steps
  BY DEF success, Command, Steps, StepOps, StepRefs, StepNeeds
<1>2. Plain(n, c)
  BY DEF success, Command, Plain
<1>3. Guarded(n, <<c>>) /\ Guarded(n, a)
  BY <1>1, <1>2, PlainOne, AssertsGuarded
<1>4. AfterInstall(k, "noop-update") = <<c>> \o a
  BY DEF AfterInstall, Failing
<1> HIDE DEF c, a
<1> QED
  BY <1>3, <1>4, GuardedJoin

\* A step that hands over to the query of the application after it.
LEMMA HandingOf ==
    ASSUME NEW n, NEW P \in Seq(Steps), NEW m \in Nat, Len(P) = m + 1,
           \A i \in 1..m : Plain(n, P[i]),
           P[m + 1].ref # "missing", P[m + 1].op # "uninstall",
           P[m + 1].need \notin {"aborted", "REF_NOT_FOUND"},
           n \in Failing /\ P[m + 1].op = "update" => P[m + 1].need # "success"
    PROVE  Handing(n, P)
<1>1. ASSUME NEW i \in 1..m PROVE Watched(n, P, i)
  <2>1. Plain(n, P[i])
    OBVIOUS
  <2> QED
    BY <2>1 DEF Plain, Watched
<1>2. Hands(n, P, m + 1)
  BY DEF Hands
<1>3. \A i \in 1..(m + 1) : i \in 1..m \/ i = m + 1
  OBVIOUS
<1> QED
  BY <1>1, <1>2, <1>3 DEF Handing

LEMMA RepeatedGuarded ==
    ASSUME NEW n, NEW k PROVE Guarded(n, AfterInstall(k, "repeated-install"))
<1> DEFINE b == Assign("publish B")
           c == IF k = "library" THEN expect_error("install", "app", "ALREADY_INSTALLED")
                ELSE Command("install", "app", "warned", "failed")
           a == assert_installed_version("A")
           P == <<b, c>>
<1>1. b \in Steps /\ c \in Steps
  BY DEF Assign, expect_error, Command, Steps, StepOps, StepRefs, StepNeeds
<1>2. Plain(n, b)
  BY DEF Assign, Command, Plain
<1>3. c.op = "install" /\ c.ref = "app" /\ c.need \in {"warned", "ALREADY_INSTALLED"}
  BY DEF expect_error, Command
<1>4. AfterInstall(k, "repeated-install") = P \o a
  BY DEF AfterInstall, Failing
<1>5. Guarded(n, a) /\ Len(a) > 0 /\ Shows(a[1], "app")
  BY AssertsGuarded
<1> HIDE DEF a, b, c
<1>6. P \in Seq(Steps) /\ Len(P) = 1 + 1 /\ P[1] = b /\ P[1 + 1] = c
  BY <1>1
<1> HIDE DEF P
<1>7. \A i \in 1..1 : Plain(n, P[i])
  BY <1>2, <1>6
<1>8. Handing(n, P)
  BY <1>3, <1>6, <1>7, HandingOf
<1> QED
  BY <1>4, <1>5, <1>8, HandingJoin

LEMMA BlockedGuarded ==
    ASSUME NEW n
    PROVE  Guarded(n, BlockedUpdate \o assert_installed_version("A"))
<1> DEFINE b == Assign("publish B")
           c == Assign("block")
           d == Command("update", "app", "blocked download", "failed")
           a == assert_installed_version("A")
           P == <<b, c, d>>
<1>1. b \in Steps /\ c \in Steps /\ d \in Steps
  BY DEF Assign, Command, Steps, StepOps, StepRefs, StepNeeds
<1>2. Plain(n, b) /\ Plain(n, c)
  BY DEF Assign, Command, Plain
<1>3. d.op = "update" /\ d.ref = "app" /\ d.need = "blocked download"
  BY DEF Command
<1>4. BlockedUpdate = P
  BY DEF BlockedUpdate
<1>5. Guarded(n, a) /\ Len(a) > 0 /\ Shows(a[1], "app")
  BY AssertsGuarded
<1> HIDE DEF a, b, c, d
<1>6. P \in Seq(Steps) /\ Len(P) = 2 + 1 /\ P[1] = b /\ P[2] = c /\ P[2 + 1] = d
  BY <1>1
<1> HIDE DEF P
<1>7. \A i \in 1..2 : Plain(n, P[i])
  BY <1>2, <1>6
<1>8. Handing(n, P)
  BY <1>3, <1>6, <1>7, HandingOf
<1>9. Guarded(n, P \o a)
  BY <1>5, <1>8, HandingJoin
<1> QED
  BY <1>4, <1>9 DEF a

LEMMA FailedUpdateGuarded == ASSUME NEW n, NEW k PROVE Guarded(n, AfterInstall(k, "failed-update"))
<1>1. Guarded(n, BlockedUpdate \o assert_installed_version("A") \o <<>>)
  BY BlockedGuarded, EmptyGuarded, GuardedJoin
<1> QED
  BY <1>1 DEF AfterInstall, Failing, BlockedUpdate

LEMMA RetryGuarded == ASSUME NEW n, NEW k PROVE Guarded(n, AfterInstall(k, "retry-update"))
<1> DEFINE c == Assign("unblock")
           d == Assign("mark")
           e == Command("update", "app", "restored download", "failed")
           a == assert_installed_version("A")
           b == assert_installed_version("B")
<1>1. c \in Steps /\ d \in Steps /\ e \in Steps
  BY DEF Assign, Command, Steps, StepOps, StepRefs, StepNeeds
<1>2. Plain(n, c) /\ Plain(n, d) /\ Plain(n, e)
  BY DEF Assign, Command, Plain
<1>3. AfterInstall(k, "retry-update") = BlockedUpdate \o a \o (<<c, d, e>> \o b)
  BY DEF AfterInstall, Failing, BlockedUpdate
<1>4. Guarded(n, BlockedUpdate \o a) /\ Guarded(n, b)
  BY BlockedGuarded, AssertsGuarded
<1> HIDE DEF a, b, c, d, e
<1>5. Guarded(n, <<c, d, e>>)
  BY <1>1, <1>2, PlainThree
<1>6. Guarded(n, <<c, d, e>> \o b)
  BY <1>4, <1>5, GuardedJoin
<1> QED
  BY <1>3, <1>4, <1>6, GuardedJoin

LEMMA LifecycleGuarded ==
    ASSUME NEW n, n \notin Failing, NEW k PROVE Guarded(n, AfterInstall(k, "lifecycle"))
<1> DEFINE o == Assign("publish B")
           c == success("update", "app")
           b == assert_installed_version("B")
           d == success("uninstall", "app")
           e == query("runtime", "R")
           f == expect_error("query", "app", "NOT_INSTALLED")
           g == Command("query", "app", "failure", "failed")
           h == Command("list-apps", "all", "empty", "failed")
           end == IF k = "library" THEN <<f>> ELSE <<g, h>>
           P == <<d, e>>
<1>1. o \in Steps /\ c \in Steps /\ d \in Steps /\ e \in Steps /\ f \in Steps /\ g \in Steps /\ h \in Steps
  BY DEF Assign, success, query, expect_error, Command, Steps, StepOps, StepRefs, StepNeeds
<1>2. Plain(n, o) /\ Plain(n, c) /\ Plain(n, e) /\ Plain(n, f) /\ Plain(n, g) /\ Plain(n, h)
  BY DEF Assign, success, query, expect_error, Command, Plain
<1>3. /\ d.op = "uninstall" /\ d.ref = "app" /\ d.need = "success" /\ Shows(e, "runtime")
      /\ Shows(f, "app") /\ Shows(g, "app")
  BY DEF success, query, expect_error, Command, Shows
<1>4. AfterInstall(k, "lifecycle") = <<o, c>> \o b \o P \o end
  BY DEF AfterInstall, Failing
<1>5. Guarded(n, b)
  BY AssertsGuarded
<1> HIDE DEF o, c, b, d, e, f, g, h
<1>6. Guarded(n, <<o, c>>)
  BY <1>1, <1>2, PlainTwo
<1>7. Guarded(n, end) /\ Len(end) > 0 /\ Shows(end[1], "app")
  <2>1. Guarded(n, <<f>>) /\ Guarded(n, <<g, h>>)
    BY <1>1, <1>2, PlainOne, PlainTwo
  <2>2. Len(<<f>>) > 0 /\ <<f>>[1] = f /\ Len(<<g, h>>) > 0 /\ <<g, h>>[1] = g
    OBVIOUS
  <2> QED
    BY <1>3, <2>1, <2>2
<1>8. P \in Seq(Steps) /\ Len(P) = 2 /\ P[1] = d /\ P[2] = e
  BY <1>1
<1> HIDE DEF P, end
<1>9. Handing(n, P)
  <2>1. Hands(n, P, 1)
    <3>1. 1 + 1 = Len(P) /\ P[1 + 1] = e
      BY <1>8
    <3>2. Shows(P[1 + 1], "runtime")
      BY <1>3, <3>1
    <3>3. P[1].op = "uninstall" /\ P[1].ref = "app" /\ P[1].need = "success"
      BY <1>3, <1>8
    <3> QED
      BY <3>1, <3>2, <3>3 DEF Hands
  <2>2. Watched(n, P, 2)
    BY <1>2, <1>8 DEF Plain, Watched
  <2>3. \A i \in 1..2 : i = 1 \/ i = 2
    OBVIOUS
  <2> QED
    BY <1>8, <2>1, <2>2, <2>3 DEF Handing
<1>10. Guarded(n, <<o, c>> \o b)
  BY <1>5, <1>6, GuardedJoin
<1>11. Handing(n, <<o, c>> \o b \o P)
  BY <1>9, <1>10, GuardedJoin
<1>12. Guarded(n, <<o, c>> \o b \o P \o end)
  BY <1>7, <1>11, HandingJoin
<1> QED
  BY <1>4, <1>12

LEMMA ReadyAbortGuarded == ASSUME NEW n, NEW k PROVE Guarded(n, scenario(k, "ready-abort"))
<1> DEFINE b == setup_success("remote", "url")
           c == Command("install-abort-ready", "app", "aborted", "failed")
           d == Command("list-refs", "all", "empty", "failed")
           e == Command("install", "app", "accepted", "failed")
           a == assert_installed_version("A")
           P == <<b, c, d, e>>
<1>1. b \in Steps /\ c \in Steps /\ d \in Steps /\ e \in Steps
  BY DEF setup_success, Command, Steps, StepOps, StepRefs, StepNeeds
<1>2. Plain(n, b) /\ Plain(n, d) /\ Plain(n, e) /\ Lists(d)
  BY DEF setup_success, Command, Plain, Lists
<1>3. c.op = "install-abort-ready" /\ c.ref = "app" /\ c.need = "aborted"
  BY DEF Command
<1>4. scenario(k, "ready-abort") = P \o a
  BY DEF scenario
<1>5. Guarded(n, a)
  BY AssertsGuarded
<1> HIDE DEF a, b, c, d, e
<1>6. P \in Seq(Steps) /\ Len(P) = 4 /\ P[1] = b /\ P[2] = c /\ P[3] = d /\ P[4] = e
  BY <1>1
<1> HIDE DEF P
<1>7. Watched(n, P, 1) /\ Watched(n, P, 3) /\ Watched(n, P, 4)
  BY <1>2, <1>6 DEF Plain, Watched
<1>8. Watched(n, P, 2)
  <2>1. 2 < Len(P) /\ P[2 + 1] = d
    BY <1>6
  <2>2. P[2].op = "install-abort-ready" /\ P[2].ref = "app" /\ P[2].need = "aborted"
    BY <1>3, <1>6
  <2> QED
    BY <1>2, <2>1, <2>2 DEF Watched
<1>9. \A i \in 1..4 : i = 1 \/ i = 2 \/ i = 3 \/ i = 4
  OBVIOUS
<1>10. Guarded(n, P)
  BY <1>6, <1>7, <1>8, <1>9 DEF Guarded
<1> QED
  BY <1>4, <1>5, <1>10, GuardedJoin

LEMMA MissingGuarded == ASSUME NEW n, NEW k PROVE Guarded(n, scenario(k, "missing-install"))
<1> DEFINE b == setup_success("remote", "url")
           c == expect_error("install", "missing", "REF_NOT_FOUND")
           d == Command("list-refs", "all", "empty", "failed")
           P == <<b, c, d>>
<1>1. b \in Steps /\ c \in Steps /\ d \in Steps
  BY DEF setup_success, expect_error, Command, Steps, StepOps, StepRefs, StepNeeds
<1>2. Plain(n, b) /\ Plain(n, d) /\ Lists(d)
  BY DEF setup_success, Command, Plain, Lists
<1>3. c.op = "install" /\ c.ref = "missing" /\ c.need = "REF_NOT_FOUND"
  BY DEF expect_error, Command
<1>4. scenario(k, "missing-install") = P
  BY DEF scenario
<1> HIDE DEF b, c, d
<1>5. P \in Seq(Steps) /\ Len(P) = 3 /\ P[1] = b /\ P[2] = c /\ P[3] = d
  BY <1>1
<1> HIDE DEF P
<1>6. Watched(n, P, 1) /\ Watched(n, P, 3)
  BY <1>2, <1>5 DEF Plain, Watched
<1>7. Watched(n, P, 2)
  <2>1. 2 < Len(P) /\ P[2 + 1] = d
    BY <1>5
  <2>2. P[2].op = "install" /\ P[2].ref = "missing" /\ P[2].need = "REF_NOT_FOUND"
    BY <1>3, <1>5
  <2> QED
    BY <1>2, <2>1, <2>2 DEF Watched
<1>8. \A i \in 1..3 : i = 1 \/ i = 2 \/ i = 3
  OBVIOUS
<1> QED
  BY <1>4, <1>5, <1>6, <1>7, <1>8 DEF Guarded

LEMMA ScenarioGuarded == ASSUME NEW k, NEW n \in AllNames PROVE Guarded(n, scenario(k, n))
<1>1. CASE n = "ready-abort"
  BY <1>1, ReadyAbortGuarded
<1>2. CASE n = "missing-install"
  BY <1>2, MissingGuarded
<1>3. CASE n \notin {"ready-abort", "missing-install"}
  <2> DEFINE start == <<SetupRemote, SetupInstall>>
             a == assert_installed_version("A")
  <2>1. scenario(k, n) = start \o a \o AfterInstall(k, n)
    BY <1>3 DEF scenario, SetupRemote, SetupInstall
  <2>2. SetupRemote \in Steps /\ SetupInstall \in Steps
    BY DEF SetupRemote, SetupInstall, setup_success, Command, Steps, StepOps, StepRefs, StepNeeds
  <2>3. Plain(n, SetupRemote) /\ Plain(n, SetupInstall)
    BY DEF SetupRemote, SetupInstall, setup_success, Command, Plain
  <2>4. Guarded(n, start) /\ Guarded(n, a)
    BY <2>2, <2>3, PlainTwo, AssertsGuarded
  <2> HIDE DEF start, a
  <2>5. Guarded(n, start \o a)
    BY <2>4, GuardedJoin
  <2>6. Guarded(n, AfterInstall(k, n))
    <3>1. n \in {"absent-ref", "noop-update", "repeated-install", "failed-update", "retry-update", "lifecycle"}
      BY <1>3 DEF AllNames, Failing
    <3>2. n \in {"noop-update", "lifecycle"} => n \notin Failing
      BY DEF Failing
    <3> QED
      BY <3>1, <3>2, AbsentRefGuarded, NoopGuarded, RepeatedGuarded, FailedUpdateGuarded,
         RetryGuarded, LifecycleGuarded
  <2> QED
    BY <2>1, <2>5, <2>6, GuardedJoin
<1> QED
  BY <1>1, <1>2, <1>3

\* A step that cannot pass with a and r installed, as the situation s says otherwise.
Reveals(c, s, a, r) ==
    \/ Shows(c, "app") /\ a # s.app
    \/ Shows(c, "runtime") /\ r # s.runtime
    \/ Lists(c) /\ (a # s.app \/ r # s.runtime)

\* Step i, or the one after it if i only looks at the runtime, is such a step.
Dooms(i, a, r) ==
    /\ i <= Len(Program)
    /\ \/ Reveals(Program[i], Trace[i], a, r)
       \/ /\ Shows(Program[i], "runtime") /\ i < Len(Program)
          /\ Reveals(Program[i + 1], Trace[i + 1], a, r)

\* The outcome is not what is required, and no late answer makes it so.
Lost(o) ==
    /\ ~Required(o)
    /\ Step.need = "blocked download" => o.status = "ok" \/ \A f \in flight : ~IsPayload(f.path)
    /\ Step.need = "restored download" => o.status # "ok" \/ flight = {}

\* A breach that passed its own step is shown by a later one; failing passes none.
Excused == deviation = "no fetch" /\ late
DoomInv == breached /\ verdict = "none" /\ ~Excused =>
    IF result = NoResult
    THEN deviation # "fails" /\ Dooms(pc, app, runtime)
    ELSE Lost(result) \/ (deviation # "fails" /\ Dooms(pc + 1, app, runtime))

\* What the command in hand asked for and was refused.
AskInv == Running =>
    /\ \A p \in cmd.sent : IsPayload(p) =>
          /\ Known /\ Step.ref = "app" /\ Step.op \in Fetching
          /\ Step.op = "install" => app = "none"
          /\ Step.op = "update" => app # cmd.seen
    /\ \A p \in cmd.denied : IsPayload(p)

\* Only payloads are refused, and the command in hand asks for each path once.
UniqueInv ==
    /\ \A f \in flight : f.at = "blocked" => IsPayload(f.path)
    /\ Running => \A f \in flight : f.step = pc =>
          /\ f.path \notin cmd.got
          /\ \A g \in flight : g.step = pc /\ g.path = f.path => g = f

\* Until the update whose downloads fail was judged, no other step's request is refused.
CleanInv == deviation = "fails" /\ verdict = "none" /\ ~Trace[pc].refused =>
    /\ \A f \in flight : IsPayload(f.path) =>
          f.step = pc /\ (Running \/ Step.need = "blocked download")
    /\ \A i \in 1..Len(requests) : requests[i].blocked =>
          /\ Step.need = "blocked download" /\ (Running \/ result # NoResult)
          /\ Running => requests[i].path \in cmd.denied

\* Until the retry was judged, every payload asked for after the mark is the retry's.
MarkedInv == ~late /\ verdict = "none" /\ Trace[pc].marked /\ ~Trace[pc].retried =>
    \A i \in (retryStart + 1)..Len(requests) : IsPayload(requests[i].path) =>
        /\ Step.need = "restored download" /\ (Running \/ result # NoResult)
        /\ Running => requests[i].path \in cmd.sent

PassInv == verdict = "passed" /\ breached => Excused

CaughtInv == /\ LifecycleInv /\ AskInv /\ UniqueInv /\ CleanInv /\ MarkedInv /\ DoomInv /\ PassInv

-----------------------------------------------------------------------------
\* What a running command knows of the scenario.

LEMMA Scene ==
    ASSUME LifecycleInv, Running
    PROVE  /\ pc \in 1..Len(Program) /\ pc <= Len(Program) /\ Step = Program[pc] /\ Step.ref # "repository"
           /\ verdict = "none" /\ result = NoResult /\ kind \in {"cli", "library"}
           /\ Trace[pc] \in Situations /\ Trace[pc + 1] \in Situations
           /\ Obeys(kind, Step, Trace[pc], Trace[pc + 1]) /\ Marks(Step, Trace[pc], Trace[pc + 1])
           /\ version = Trace[pc].version /\ failPayloads = Trace[pc].blocked
           /\ ~breached => app = Trace[pc].app /\ runtime = Trace[pc].runtime
           /\ cmd \in Cmds /\ cmd.seen \in {"none", version}
<1>1. ValueInv /\ StageInv /\ CmdInv /\ ExpectInv
  BY DEF LifecycleInv
<1>2. pc <= Len(Program) /\ Step.ref # "repository" /\ verdict = "none" /\ result = NoResult
  BY <1>1 DEF StageInv
<1>3. pc \in 1..Len(Program)
  <2>1. pc \in 1..(Len(Program) + 1) /\ Len(Program) \in Nat
    BY <1>1, Facts DEF ValueInv
  <2> QED
    BY <1>2, <2>1
<1>4. Fine(kind, Step, Trace[pc], Trace[pc + 1]) /\ Step = Program[pc] /\ kind \in {"cli", "library"}
  BY <1>1, <1>2, Facts
<1>5. Trace[pc] \in Situations /\ Trace[pc + 1] \in Situations
  BY <1>1, <1>2, Facts
<1>6. cmd \in Cmds /\ cmd.seen \in {"none", version}
  BY <1>1 DEF CmdInv
<1>7. version = Trace[pc].version /\ failPayloads = Trace[pc].blocked
  BY <1>1, <1>2 DEF ExpectInv
<1>8. ~breached => app = Trace[pc].app /\ runtime = Trace[pc].runtime
  BY <1>1, <1>2 DEF ExpectInv
<1> QED
  BY <1>2, <1>3, <1>4, <1>5, <1>6, <1>7, <1>8 DEF Fine

\* The steps that look at the installation.
LEMMA Looking ==
    ASSUME ValueInv, NEW i \in 1..Len(Program)
    PROVE  /\ Watched(name, Program, i) /\ Program[i] \in Steps
           /\ Trace[i] \in Situations /\ Trace[i + 1] \in Situations
           /\ Shows(Program[i], "app") \/ Shows(Program[i], "runtime") \/ Lists(Program[i]) =>
                 Trace[i + 1].app = Trace[i].app /\ Trace[i + 1].runtime = Trace[i].runtime
           /\ Shows(Program[i], "app") =>
                 Program[i].need = IF Trace[i].app # "none" THEN Trace[i].app
                                   ELSE IF kind = "cli" THEN "failure" ELSE "NOT_INSTALLED"
           /\ Shows(Program[i], "runtime") =>
                 Trace[i].runtime = "R" /\ Program[i].need = "R"
           /\ Lists(Program[i]) =>
                 Trace[i].app = "none" /\ Trace[i].runtime = "none" /\ Program[i].need = "empty"
<1>1. kind \in {"cli", "library"} /\ name \in AllNames /\ Len(Program) \in Nat
  BY Facts
<1>2. Watched(name, Program, i)
  BY <1>1, ScenarioGuarded DEF Guarded, Program
<1> DEFINE c == Program[i]
           s == Trace[i]
           t == Trace[i + 1]
<1>3. i + 1 \in 1..(Len(Program) + 1) /\ i \in 1..(Len(Program) + 1)
  BY <1>1
<1>4. c \in Steps /\ s \in Situations /\ t \in Situations /\ Fine(kind, c, s, t)
  BY <1>1, <1>3, TraceShape
<1> HIDE DEF c, s, t
<1>5. ASSUME Shows(c, "app")
      PROVE  /\ t.app = s.app /\ t.runtime = s.runtime
             /\ c.need = IF s.app # "none" THEN s.app ELSE IF kind = "cli" THEN "failure" ELSE "NOT_INSTALLED"
  BY <1>4, <1>5 DEF Shows, Fine, Obeys, Quiet, Changing
<1>6. ASSUME Shows(c, "runtime")
      PROVE  t.app = s.app /\ t.runtime = s.runtime /\ s.runtime = "R" /\ c.need = "R"
  BY <1>4, <1>6 DEF Shows, Fine, Obeys, Quiet, Changing, Situations
<1>7. ASSUME Lists(c)
      PROVE  /\ t.app = s.app /\ t.runtime = s.runtime
             /\ s.app = "none" /\ s.runtime = "none" /\ c.need = "empty"
  BY <1>4, <1>7 DEF Lists, Fine, Obeys, Quiet, Changing
<1> QED
  BY <1>2, <1>4, <1>5, <1>6, <1>7 DEF c, s, t

\* A command that asked for a payload while downloads fail is the update that is to fail.
LEMMA BlockedAsk ==
    ASSUME LifecycleInv, AskInv, Running, ~breached, failPayloads,
           NEW p \in cmd.sent, IsPayload(p)
    PROVE  Step.op = "update" /\ Step.need = "blocked download" /\ Known /\ app # version
<1>1. /\ Obeys(kind, Step, Trace[pc], Trace[pc + 1]) /\ version = Trace[pc].version
      /\ failPayloads = Trace[pc].blocked /\ app = Trace[pc].app /\ cmd.seen \in {"none", version}
  BY Scene
<1>2. /\ Known /\ Step.op \in Fetching
      /\ Step.op = "install" => app = "none"
      /\ Step.op = "update" => app # cmd.seen
      /\ Step.ref = "app"
  BY DEF AskInv
<1>3. cmd.seen = version
  BY <1>1, <1>2 DEF Known
<1>4. CASE Step.op = "install"
  BY <1>1, <1>2, <1>4 DEF Obeys, Quiet, Changing
<1>5. CASE Step.op = "update"
  BY <1>1, <1>2, <1>3, <1>5 DEF Obeys, Quiet, Changing
<1> QED
  BY <1>2, <1>4, <1>5 DEF Fetching

LEMMA Frame == ASSUME [Next]_vars PROVE deviation' = deviation /\ Excused' = Excused
<1>1. deviation' = deviation /\ late' = late
  BY DEF Next, Driver, do_GET, Call, Set, Judge, TimeOut, Pass, Ask, Finish, ReadDirectory,
         ReadFailure, RecordAndReply, Done, vars
<1> QED
  BY <1>1 DEF Excused

LEMMA CaughtInit == Init => CaughtInv
<1> SUFFICES ASSUME Init PROVE CaughtInv
  OBVIOUS
<1>1. LifecycleInv
  BY InitHolds
<1>2. AskInv /\ UniqueInv /\ DoomInv /\ PassInv
  BY DEF Init, AskInv, UniqueInv, DoomInv, PassInv, Running, Idle
<1>3. CleanInv /\ MarkedInv
  <2>1. flight = {} /\ Len(requests) = 0 /\ retryStart = 0
    BY DEF Init
  <2> QED
    BY <2>1 DEF CleanInv, MarkedInv
<1> QED
  BY <1>1, <1>2, <1>3 DEF CaughtInv

LEMMA AskStep == LifecycleInv /\ AskInv /\ [Next]_vars => AskInv'
<1> SUFFICES ASSUME LifecycleInv, AskInv, [Next]_vars PROVE AskInv'
  OBVIOUS
<1>0. ValueInv /\ StageInv /\ CmdInv /\ FlightInv
  BY DEF LifecycleInv
<1>1. pc' = pc => Step' = Step
  BY Steady DEF Step
<1>2. CASE Call
  <2>1. cmd' = [Idle EXCEPT !.running = TRUE]
    BY <1>2 DEF Call
  <2>2. cmd'.sent = {} /\ cmd'.denied = {}
    BY <2>1 DEF Idle
  <2> QED
    BY <2>2 DEF AskInv
<1>3. CASE Set \/ Judge
  <2>1. ~Running /\ cmd' = cmd
    BY <1>0, <1>3 DEF Set, Judge, StageInv
  <2> QED
    BY <2>1 DEF AskInv, Running
<1>4. CASE TimeOut \/ Finish
  <2>1. cmd' = Idle
    BY <1>4 DEF TimeOut, Finish
  <2> QED
    BY <2>1 DEF AskInv, Running, Idle
<1>5. CASE Pass \/ ReadDirectory \/ ReadFailure \/ UNCHANGED vars
  <2>1. UNCHANGED <<cmd, app, pc>>
    BY <1>5 DEF Pass, ReadDirectory, ReadFailure, vars
  <2> QED
    BY <1>1, <2>1 DEF AskInv, Running, Known
<1>6. CASE Ask
  <2>1. PICK p \in Paths :
           /\ Running
           /\ \/ p = Summary
              \/ /\ Known /\ Step.op \in Fetching /\ Step.ref = "app"
                 /\ Step.op = "install" => app = "none"
                 /\ Step.op = "update" => app # cmd.seen
           /\ cmd' = [cmd EXCEPT !.sent = @ \union {p}]
    BY <1>6 DEF Ask, Fetching
  <2>2. UNCHANGED <<pc, app>>
    BY <1>6 DEF Ask
  <2>3. cmd \in Cmds
    BY <1>0, <2>1 DEF CmdInv
  <2>4. /\ cmd'.sent = cmd.sent \union {p} /\ cmd'.denied = cmd.denied /\ cmd'.seen = cmd.seen
    BY <2>1, <2>3 DEF Cmds
  <2>5. ~IsPayload(Summary)
    BY PathsShape
  <2> QED
    BY <1>1, <2>1, <2>2, <2>4, <2>5 DEF AskInv, Known
<1>7. CASE RecordAndReply
  <2>1. PICK f \in flight : Learns(f)
    BY <1>0, <1>7, ReplyMoves
  <2>2. UNCHANGED <<pc, app>>
    BY <1>7 DEF RecordAndReply
  <2>3. CASE Running /\ f.step = pc
    <3>1. f.at = "blocked" => IsPayload(f.path)
      BY <1>0, <2>3 DEF FlightInv, Travels
    <3>2. cmd'.sent = cmd.sent /\ cmd'.seen \in {cmd.seen, version}
      BY <2>1, <2>3 DEF Learns
    <3>3. cmd'.denied = cmd.denied \/ (f.at = "blocked" /\ cmd'.denied = cmd.denied \union {f.path})
      BY <2>1, <2>3 DEF Learns
    <3>4. cmd.seen # "none" => cmd'.seen = cmd.seen
      BY <1>0, <2>3, <3>2 DEF CmdInv
    <3>5. \A p \in cmd'.denied : IsPayload(p)
      BY <2>3, <3>1, <3>3 DEF AskInv
    <3> QED
      BY <1>1, <2>2, <2>3, <3>2, <3>4, <3>5 DEF AskInv, Known
  <2>4. CASE ~(Running /\ f.step = pc)
    <3>1. cmd' = cmd
      BY <2>1, <2>4 DEF Learns
    <3> QED
      BY <1>1, <2>2, <3>1 DEF AskInv, Running, Known
  <2> QED
    BY <2>3, <2>4
<1> QED
  BY <1>2, <1>3, <1>4, <1>5, <1>6, <1>7 DEF Next, Driver, do_GET, Done

\* A thread's step leaves the path and the step of the request it answers.
LEMMA ThreadMoves ==
    ASSUME FlightInv, ReadDirectory \/ ReadFailure
    PROVE  \E f \in flight, g \in flight' :
              /\ flight' = (flight \ {f}) \union {g} /\ g.path = f.path /\ g.step = f.step
              /\ g.at = "blocked" => IsPayload(g.path)
<1>1. CASE ReadDirectory
  <2>1. PICK f \in flight : flight' = (flight \ {f}) \union {[f EXCEPT !.at = "directory", !.dir = version]}
    BY <1>1 DEF ReadDirectory
  <2>2. PICK g : g = [f EXCEPT !.at = "directory", !.dir = version]
    OBVIOUS
  <2>3. f \in Flights
    BY DEF FlightInv
  <2>4. g.path = f.path /\ g.step = f.step /\ g.at = "directory"
    BY <2>2, <2>3 DEF Flights
  <2> QED
    BY <2>1, <2>2, <2>4
<1>2. CASE ReadFailure
  <2>1. PICK f \in flight : flight' = (flight \ {f}) \union
           {[f EXCEPT !.at = IF failPayloads /\ IsPayload(f.path) THEN "blocked" ELSE "open"]}
    BY <1>2 DEF ReadFailure
  <2>2. PICK g : g = [f EXCEPT !.at = IF failPayloads /\ IsPayload(f.path) THEN "blocked" ELSE "open"]
    OBVIOUS
  <2>3. f \in Flights
    BY DEF FlightInv
  <2>4. /\ g.path = f.path /\ g.step = f.step
        /\ g.at = IF failPayloads /\ IsPayload(f.path) THEN "blocked" ELSE "open"
    BY <2>2, <2>3 DEF Flights
  <2>5. flight' = (flight \ {f}) \union {g}
    BY <2>1, <2>2
  <2>6. g.at = "blocked" => IsPayload(g.path)
    BY <2>4
  <2> QED
    BY <2>4, <2>5, <2>6
<1> QED
  BY <1>1, <1>2

LEMMA UniqueStep == LifecycleInv /\ UniqueInv /\ [Next]_vars => UniqueInv'
<1> SUFFICES ASSUME LifecycleInv, UniqueInv, [Next]_vars PROVE UniqueInv'
  OBVIOUS
<1>0. ValueInv /\ StageInv /\ CmdInv /\ FlightInv
  BY DEF LifecycleInv
<1>1. CASE Call
  <2>1. verdict = "none" /\ ~Running /\ result = NoResult /\ UNCHANGED <<pc, flight>>
    BY <1>1 DEF Call
  <2>2. \A f \in flight : f.step # pc
    BY <1>0, <2>1 DEF FlightInv, Travels
  <2> QED
    BY <2>1, <2>2 DEF UniqueInv
<1>2. CASE Set \/ Judge \/ Pass
  <2>1. cmd' = cmd /\ flight' = flight
    BY <1>2 DEF Set, Judge, Pass
  <2>2. ~Running
    <3>1. CASE Set \/ Judge
      BY <1>0, <3>1 DEF Set, Judge, StageInv
    <3>2. CASE Pass
      <4>1. Over /\ Len(Program) \in Nat
        BY <1>0, <3>2, Facts DEF Pass
      <4>2. pc = Len(Program) + 1
        BY <1>0, <4>1, Facts
      <4> QED
        BY <1>0, <4>1, <4>2 DEF StageInv
    <3> QED
      BY <1>2, <3>1, <3>2
  <2> QED
    BY <2>1, <2>2 DEF UniqueInv, Running
<1>3. CASE TimeOut \/ Finish
  <2>1. cmd' = Idle /\ flight' = flight
    BY <1>3 DEF TimeOut, Finish
  <2> QED
    BY <2>1 DEF UniqueInv, Running, Idle
<1>4. CASE UNCHANGED vars
  BY <1>4 DEF vars, UniqueInv, Running
<1>5. CASE Ask
  <2>1. PICK p \in Paths :
           /\ Running /\ p \notin cmd.sent
           /\ cmd' = [cmd EXCEPT !.sent = @ \union {p}]
           /\ flight' = flight \union {[path |-> p, step |-> pc, at |-> "accepted", dir |-> "A"]}
    BY <1>5 DEF Ask
  <2>2. PICK g : g = [path |-> p, step |-> pc, at |-> "accepted", dir |-> "A"]
    OBVIOUS
  <2>3. flight' = flight \union {g} /\ g.path = p /\ g.step = pc /\ g.at = "accepted" /\ pc' = pc
    BY <1>5, <2>1, <2>2 DEF Ask
  <2>4. cmd \in Cmds /\ cmd.got \subseteq cmd.sent
    BY <1>0, <2>1 DEF CmdInv
  <2>5. cmd'.got = cmd.got
    BY <2>1, <2>4 DEF Cmds
  <2>6. \A f \in flight : f.step = pc => f.path # p
    BY <1>0, <2>1 DEF FlightInv, Travels
  <2> QED
    BY <2>1, <2>3, <2>4, <2>5, <2>6 DEF UniqueInv
<1>6. CASE ReadDirectory \/ ReadFailure
  <2>1. PICK f \in flight, g \in flight' :
           /\ flight' = (flight \ {f}) \union {g} /\ g.path = f.path /\ g.step = f.step
           /\ g.at = "blocked" => IsPayload(g.path)
    BY <1>0, <1>6, ThreadMoves
  <2>2. UNCHANGED <<cmd, pc>>
    BY <1>6 DEF ReadDirectory, ReadFailure
  <2>3. \A x \in flight' : x.at = "blocked" => IsPayload(x.path)
    BY <2>1 DEF UniqueInv
  <2>4. ASSUME Running, NEW x \in flight', x.step = pc
        PROVE  x.path \notin cmd.got /\ \A y \in flight' : y.step = pc /\ y.path = x.path => y = x
    BY <2>1, <2>4 DEF UniqueInv
  <2> QED
    BY <2>2, <2>3, <2>4 DEF UniqueInv, Running
<1>7. CASE RecordAndReply
  <2>1. PICK f \in flight : flight' = flight \ {f} /\ Learns(f)
    BY <1>0, <1>7, ReplyMoves
  <2>2. pc' = pc
    BY <1>7 DEF RecordAndReply
  <2>3. Running' = Running
    BY <2>1 DEF Learns, Running
  <2>4. CASE Running /\ f.step = pc
    <3>1. cmd'.got \subseteq cmd.got \union {f.path}
      BY <2>1, <2>4 DEF Learns
    <3>2. \A x \in flight' : x.step = pc => x.path # f.path
      BY <2>1, <2>4 DEF UniqueInv
    <3> QED
      BY <2>1, <2>2, <2>3, <3>1, <3>2 DEF UniqueInv
  <2>5. CASE ~(Running /\ f.step = pc)
    <3>1. cmd' = cmd
      BY <2>1, <2>5 DEF Learns
    <3> QED
      BY <2>1, <2>2, <2>3, <3>1 DEF UniqueInv
  <2> QED
    BY <2>4, <2>5
<1> QED
  BY <1>1, <1>2, <1>3, <1>4, <1>5, <1>6, <1>7 DEF Next, Driver, do_GET, Done

\* The commands that end do so at a step, with an outcome.
LEMMA Ends ==
    ASSUME LifecycleInv, Finish
    PROVE  \E o \in Conforming \union Deviant :
              /\ o \in Outcomes /\ result' = o /\ result' # NoResult /\ app' = o.app /\ runtime' = o.runtime
              /\ breached' = (breached \/ o \notin Conforming)
              /\ late \/ flight = {}
              /\ Running /\ ~Running'
              /\ UNCHANGED <<pc, version, failPayloads, requests, retryStart, flight, verdict, deviation, late>>
<1>1. PICK o \in Conforming \union Deviant :
         /\ result' = o /\ app' = o.app /\ runtime' = o.runtime
         /\ breached' = (breached \/ o \notin Conforming) /\ cmd' = Idle
         /\ late \/ flight = {}
  BY DEF Finish
<1>2. Running /\ UNCHANGED <<pc, version, failPayloads, requests, retryStart, flight, verdict, deviation, late>>
  BY DEF Finish, repository
<1>3. ValueInv /\ CmdInv /\ pc <= Len(Program) /\ Step.ref # "repository"
  BY <1>2, Scene DEF LifecycleInv
<1>4. o \in Outcomes
  BY <1>2, <1>3, ConformingShape, DeviantShape
<1>5. o # NoResult
  BY <1>4, OutcomeIsResult
<1>6. ~Running'
  BY <1>1 DEF Running, Idle
<1> QED
  BY <1>1, <1>2, <1>4, <1>5, <1>6

\* No request is in flight, nor refused on record, when a step begins.
LEMMA CleanBegin ==
    ASSUME LifecycleInv, CleanInv, deviation = "fails", verdict = "none", ~Trace[pc].refused,
           ~Running, result = NoResult
    PROVE  (\A f \in flight : ~IsPayload(f.path)) /\ (\A i \in 1..Len(requests) : ~requests[i].blocked)
<1>1. \A f \in flight : f.step # pc
  BY DEF LifecycleInv, FlightInv, Travels
<1> QED
  BY <1>1 DEF CleanInv

LEMMA CleanStep ==
    LifecycleInv /\ AskInv /\ UniqueInv /\ DoomInv /\ CleanInv /\ [Next]_vars => CleanInv'
<1> SUFFICES ASSUME LifecycleInv, AskInv, UniqueInv, DoomInv, CleanInv, [Next]_vars,
                    deviation' = "fails", verdict' = "none", ~Trace'[pc'].refused
             PROVE  CleanInv'
  BY DEF CleanInv
<1>0. ValueInv /\ StageInv /\ CmdInv /\ FlightInv
  BY DEF LifecycleInv
<1>1. /\ deviation = "fails" /\ Trace' = Trace /\ Program' = Program /\ name' = name /\ kind' = kind
      /\ (pc' = pc => Step' = Step) /\ pc \in Nat /\ Len(Program) \in Nat
  <2>1. deviation' = deviation
    BY Frame
  <2>2. pc' = pc => Step' = Step
    BY Steady DEF Step
  <2> QED
    BY <1>0, <2>1, <2>2, Steady, Facts
<1>2. result = NoResult /\ verdict = "none" => ~breached
  BY <1>1 DEF DoomInv, Excused
<1>3. CASE Call
  <2>1. verdict = "none" /\ ~Running /\ result = NoResult /\ UNCHANGED <<pc, flight, requests>>
    BY <1>3 DEF Call
  <2> QED
    BY <1>1, <2>1, CleanBegin DEF CleanInv
<1>4. CASE Set
  <2>1. /\ verdict = "none" /\ ~Over /\ Step.ref = "repository" /\ pc' = pc + 1
        /\ UNCHANGED <<flight, requests>>
    BY <1>4 DEF Set
  <2>2. ~Running /\ result = NoResult
    BY <1>0, <2>1 DEF StageInv
  <2>3. pc <= Len(Program)
    <3>1. pc \in 1..(Len(Program) + 1) /\ pc # Len(Program) + 1
      BY <1>0, <2>1, Facts DEF ValueInv
    <3> QED
      BY <1>1, <3>1
  <2>4. Marks(Step, Trace[pc], Trace[pc + 1])
    BY <1>0, <2>3, Facts DEF Fine
  <2>5. ~Trace[pc].refused
    BY <1>1, <2>1, <2>4 DEF Marks
  <2> QED
    BY <1>1, <2>1, <2>2, <2>5, CleanBegin DEF CleanInv
<1>5. CASE Judge
  <2>1. /\ result # NoResult /\ UNCHANGED <<requests, flight, cmd>>
        /\ IF Required(result) THEN pc' = pc + 1 /\ UNCHANGED verdict
                               ELSE verdict' = Step.raises /\ UNCHANGED pc
    BY <1>5 DEF Judge
  <2>2. verdict = "none" /\ pc <= Len(Program) /\ ~Running
    BY <1>0, <2>1 DEF StageInv
  <2>3. Step \in Steps /\ Marks(Step, Trace[pc], Trace[pc + 1])
    BY <1>0, <2>2, Facts DEF Fine
  <2>4. pc' = pc + 1
    BY <2>1, <2>3 DEF Steps
  <2>5. ~Trace[pc].refused /\ Step.need # "blocked download"
    BY <1>1, <2>3, <2>4 DEF Marks
  <2>6. \A f \in flight : ~IsPayload(f.path)
    BY <1>1, <2>2, <2>5 DEF CleanInv
  <2>7. \A i \in 1..Len(requests) : ~requests[i].blocked
    BY <1>1, <2>2, <2>5 DEF CleanInv
  <2> QED
    BY <2>1, <2>6, <2>7 DEF CleanInv
<1>6. CASE TimeOut \/ Pass
  BY <1>6 DEF TimeOut, Pass
<1>7. CASE UNCHANGED vars
  <2>1. UNCHANGED <<pc, cmd, result, verdict, requests, flight>>
    BY <1>7 DEF vars
  <2> QED
    BY <1>1, <2>1 DEF CleanInv, Running
<1>8. CASE Finish
  <2>1. PICK o \in Conforming \union Deviant :
           /\ result' # NoResult /\ Running /\ ~Running'
           /\ UNCHANGED <<pc, version, failPayloads, requests, retryStart, flight, verdict, deviation, late>>
    BY <1>8, Ends
  <2>2. verdict = "none" /\ result = NoResult /\ ~Trace[pc].refused
    BY <1>1, <2>1, Scene
  <2>3. ~breached
    BY <1>2, <2>2
  <2>4. ASSUME NEW f \in flight, IsPayload(f.path) PROVE f.step = pc /\ Step.need = "blocked download"
    <3>1. f.step = pc
      BY <1>1, <2>2, <2>4 DEF CleanInv
    <3>2. o \in Conforming
      BY <1>1, <2>1, <3>1 DEF Deviant
    <3>3. f.path \in cmd.sent /\ f.path \in Filez(version)
      BY <1>0, <2>1, <2>4, <3>1, PathsShape DEF FlightInv, Travels
    <3>4. /\ Known /\ Step.ref = "app" /\ Step.op \in Fetching
          /\ Step.op = "install" => app = "none"
          /\ Step.op = "update" => app # cmd.seen
      BY <2>1, <2>4, <3>3 DEF AskInv
    <3>5. ~Fetched
      <4>1. f.path \notin cmd.got
        BY <2>1, <3>1 DEF UniqueInv
      <4>2. cmd.seen = version
        BY <2>1, <3>4, Scene DEF Known
      <4> QED
        BY <3>3, <4>1, <4>2 DEF Fetched
    <3>6. Step.op = "update" /\ cmd.denied # {}
      BY <3>2, <3>4, <3>5, Allowed DEF Fetching
    <3>7. failPayloads
      BY <1>0, <2>1, <3>6 DEF CmdInv
    <3> QED
      BY <2>1, <2>3, <2>4, <3>1, <3>3, <3>7, BlockedAsk
  <2>5. \A i \in 1..Len(requests) : requests[i].blocked => Step.need = "blocked download"
    BY <1>1, <2>2 DEF CleanInv
  <2> QED
    BY <1>1, <2>1, <2>4, <2>5 DEF CleanInv
<1>9. CASE Ask
  <2>1. PICK p \in Paths :
           /\ Running /\ cmd' = [cmd EXCEPT !.sent = @ \union {p}]
           /\ flight' = flight \union {[path |-> p, step |-> pc, at |-> "accepted", dir |-> "A"]}
    BY <1>9 DEF Ask
  <2>2. UNCHANGED <<pc, result, verdict, requests>>
    BY <1>9 DEF Ask
  <2>3. cmd \in Cmds
    BY <1>0, <2>1 DEF CmdInv
  <2>4. Running' /\ cmd'.denied = cmd.denied
    BY <2>1, <2>3 DEF Cmds, Running
  <2>5. \A f \in flight' : f \in flight \/ f.step = pc
    BY <2>1
  <2> QED
    BY <1>1, <2>1, <2>2, <2>4, <2>5 DEF CleanInv
<1>10. CASE ReadDirectory \/ ReadFailure
  <2>1. PICK f \in flight, g \in flight' :
           flight' = (flight \ {f}) \union {g} /\ g.path = f.path /\ g.step = f.step
    BY <1>0, <1>10, ThreadMoves
  <2>2. UNCHANGED <<cmd, pc, result, verdict, requests>>
    BY <1>10 DEF ReadDirectory, ReadFailure
  <2>3. \A x \in flight' : \E y \in flight : x.path = y.path /\ x.step = y.step
    BY <2>1
  <2> QED
    BY <1>1, <2>2, <2>3 DEF CleanInv, Running
<1>11. CASE RecordAndReply
  <2>1. PICK f \in flight :
           /\ flight' = flight \ {f} /\ requests' = Append(requests, RecordOf(f)) /\ Learns(f)
    BY <1>0, <1>11, ReplyMoves
  <2>2. UNCHANGED <<pc, result, verdict, retryStart>>
    BY <1>11 DEF RecordAndReply
  <2>3. /\ Grows /\ Len(requests) \in Nat /\ Len(requests') = Len(requests) + 1
        /\ requests'[Len(requests) + 1] = RecordOf(f)
        /\ \A i \in 1..Len(requests') : i \in 1..Len(requests) \/ i = Len(requests) + 1
    BY <1>0, <2>1, <2>2, RecordMoves
  <2>4. Running' = Running /\ (Running => cmd.denied \subseteq cmd'.denied)
    BY <2>1 DEF Learns, Running
  <2>5. \A x \in flight' : IsPayload(x.path) => x.step = pc /\ (Running \/ Step.need = "blocked download")
    BY <1>1, <2>1, <2>2 DEF CleanInv
  <2>6. ASSUME f.at = "blocked"
        PROVE  /\ Step.need = "blocked download" /\ (Running \/ result # NoResult)
               /\ Running => f.path \in cmd'.denied
    <3>1. IsPayload(f.path)
      BY <2>6 DEF UniqueInv
    <3>2. f.step = pc /\ (Running \/ Step.need = "blocked download")
      BY <1>1, <2>2, <3>1 DEF CleanInv
    <3>3. CASE Running
      <4>1. failPayloads /\ f.path \in cmd.sent
        BY <1>0, <2>6, <3>2, <3>3 DEF FlightInv, Travels
      <4>2. ~breached
        BY <1>2, <3>3, Scene
      <4>3. Step.need = "blocked download"
        BY <3>1, <3>3, <4>1, <4>2, BlockedAsk
      <4>4. f.path \in cmd'.denied
        BY <2>1, <2>6, <3>2, <3>3 DEF Learns
      <4> QED
        BY <3>3, <4>3, <4>4
    <3>4. CASE ~Running
      BY <1>0, <2>2, <3>2, <3>4 DEF FlightInv, Travels
    <3> QED
      BY <3>3, <3>4
  <2>7. ASSUME NEW i \in 1..Len(requests'), requests'[i].blocked
        PROVE  /\ Step.need = "blocked download" /\ (Running \/ result # NoResult)
               /\ Running => requests'[i].path \in cmd'.denied
    <3>1. CASE i \in 1..Len(requests)
      <4>1. requests'[i] = requests[i]
        BY <2>3, <3>1 DEF Grows
      <4> QED
        BY <1>1, <2>2, <2>4, <2>7, <3>1, <4>1 DEF CleanInv
    <3>2. CASE i = Len(requests) + 1
      <4>1. requests'[i] = RecordOf(f)
        BY <2>3, <3>2
      <4>2. RecordOf(f).path = f.path /\ (RecordOf(f).blocked <=> f.at = "blocked")
        BY DEF RecordOf
      <4>3. f.at = "blocked" /\ requests'[i].path = f.path
        BY <2>7, <4>1, <4>2
      <4> QED
        BY <2>6, <4>3
    <3> QED
      BY <2>3, <3>1, <3>2
  <2> QED
    BY <1>1, <2>2, <2>4, <2>5, <2>7 DEF CleanInv
<1> QED
  BY <1>3, <1>4, <1>5, <1>6, <1>7, <1>8, <1>9, <1>10, <1>11 DEF Next, Driver, do_GET, Done

\* Without late answers, the payloads asked for after the mark are those of the command in hand.
LEMMA MarkedStep == LifecycleInv /\ MarkedInv /\ [Next]_vars => MarkedInv'
<1> SUFFICES ASSUME LifecycleInv, MarkedInv, [Next]_vars, ~late, verdict' = "none",
                    Trace'[pc'].marked, ~Trace'[pc'].retried
             PROVE  MarkedInv'
  BY Steady DEF MarkedInv
<1>0. ValueInv /\ StageInv /\ CmdInv /\ FlightInv
  BY DEF LifecycleInv
<1>1. /\ Trace' = Trace /\ Program' = Program /\ (pc' = pc => Step' = Step)
      /\ pc \in Nat /\ Len(Program) \in Nat
  BY <1>0, Steady, Facts DEF Step
<1>2. \A f \in flight : f.step = pc
  BY DEF LifecycleInv, RetryInv
<1>3. verdict = "none" /\ ~Running => flight = {}
  BY DEF LifecycleInv, RetryInv
<1>4. CASE Call
  <2>1. verdict = "none" /\ ~Running /\ result = NoResult /\ UNCHANGED <<pc, requests, retryStart>>
    BY <1>4 DEF Call
  <2>2. \A i \in (retryStart + 1)..Len(requests) : ~IsPayload(requests[i].path)
    BY <1>1, <2>1 DEF MarkedInv
  <2> QED
    BY <2>1, <2>2 DEF MarkedInv
<1>5. CASE Set
  <2>1. /\ verdict = "none" /\ ~Over /\ Step.ref = "repository" /\ pc' = pc + 1
        /\ retryStart' = IF Step.op = "mark" THEN RetryMark ELSE retryStart
        /\ UNCHANGED <<requests, flight>>
    BY <1>5 DEF Set
  <2>2. ~Running /\ result = NoResult
    BY <1>0, <2>1 DEF StageInv
  <2>3. pc <= Len(Program)
    <3>1. pc \in 1..(Len(Program) + 1) /\ pc # Len(Program) + 1
      BY <1>0, <2>1, Facts DEF ValueInv
    <3> QED
      BY <1>1, <3>1
  <2>4. Marks(Step, Trace[pc], Trace[pc + 1])
    BY <1>0, <2>3, Facts DEF Fine
  <2>5. CASE Step.op = "mark"
    <3>1. retryStart' = Len(requests') /\ Len(requests') \in Nat
      BY <1>0, <2>1, <2>5, LenProperties DEF RetryMark, ValueInv
    <3>2. \A i : i \notin (retryStart' + 1)..Len(requests')
      BY <3>1
    <3> QED
      BY <3>2 DEF MarkedInv
  <2>6. CASE Step.op # "mark"
    <3>1. Trace[pc].marked /\ ~Trace[pc].retried
      BY <1>1, <2>1, <2>4, <2>6 DEF Marks
    <3>2. \A i \in (retryStart + 1)..Len(requests) : ~IsPayload(requests[i].path)
      BY <2>1, <2>2, <3>1 DEF MarkedInv
    <3>3. retryStart' = retryStart
      BY <2>1, <2>6
    <3> QED
      BY <2>1, <3>2, <3>3 DEF MarkedInv
  <2> QED
    BY <2>5, <2>6
<1>6. CASE Judge
  <2>1. /\ result # NoResult /\ UNCHANGED <<requests, retryStart>>
        /\ IF Required(result) THEN pc' = pc + 1 /\ UNCHANGED verdict
                               ELSE verdict' = Step.raises /\ UNCHANGED pc
    BY <1>6 DEF Judge
  <2>2. verdict = "none" /\ pc <= Len(Program) /\ Step.ref # "repository"
    BY <1>0, <2>1 DEF StageInv
  <2>3. Step \in Steps /\ Marks(Step, Trace[pc], Trace[pc + 1])
    BY <1>0, <2>2, Facts DEF Fine
  <2>4. pc' = pc + 1
    BY <2>1, <2>3 DEF Steps
  <2>5. Trace[pc].marked /\ ~Trace[pc].retried /\ Step.need # "restored download"
    BY <1>1, <2>2, <2>3, <2>4 DEF Marks
  <2>6. \A i \in (retryStart + 1)..Len(requests) : ~IsPayload(requests[i].path)
    BY <2>2, <2>5 DEF MarkedInv
  <2> QED
    BY <2>1, <2>6 DEF MarkedInv
<1>7. CASE TimeOut \/ Pass
  BY <1>7 DEF TimeOut, Pass
<1>8. CASE ReadDirectory \/ ReadFailure \/ UNCHANGED vars
  <2>1. UNCHANGED <<pc, cmd, result, verdict, requests, retryStart>>
    BY <1>8 DEF ReadDirectory, ReadFailure, vars
  <2> QED
    BY <1>1, <2>1 DEF MarkedInv, Running
<1>9. CASE Finish
  <2>1. /\ result' # NoResult /\ ~Running'
        /\ UNCHANGED <<pc, requests, retryStart, verdict>>
    BY <1>9, Ends
  <2> QED
    BY <1>1, <2>1 DEF MarkedInv
<1>10. CASE Ask
  <2>1. PICK p \in Paths : Running /\ cmd' = [cmd EXCEPT !.sent = @ \union {p}]
    BY <1>10 DEF Ask
  <2>2. UNCHANGED <<pc, result, verdict, requests, retryStart>>
    BY <1>10 DEF Ask
  <2>3. cmd \in Cmds
    BY <1>0, <2>1 DEF CmdInv
  <2>4. Running' /\ cmd.sent \subseteq cmd'.sent
    BY <2>1, <2>3 DEF Cmds, Running
  <2> QED
    BY <1>1, <2>1, <2>2, <2>4 DEF MarkedInv
<1>11. CASE RecordAndReply
  <2>1. PICK f \in flight : requests' = Append(requests, RecordOf(f)) /\ Learns(f)
    BY <1>0, <1>11, ReplyMoves
  <2>2. UNCHANGED <<pc, result, verdict, retryStart>>
    BY <1>11 DEF RecordAndReply
  <2>3. /\ Grows /\ Len(requests) \in Nat /\ Len(requests') = Len(requests) + 1
        /\ requests'[Len(requests) + 1] = RecordOf(f)
        /\ \A i \in 1..Len(requests') : i \in 1..Len(requests) \/ i = Len(requests) + 1
    BY <1>0, <2>1, <2>2, RecordMoves
  <2>4. Running /\ f.step = pc /\ retryStart \in 0..Len(requests)
    BY <1>0, <1>2, <1>3, <2>2 DEF ValueInv
  <2>5. Running' /\ cmd'.sent = cmd.sent /\ f.path \in cmd.sent
    BY <1>0, <2>1, <2>4 DEF Learns, Running, FlightInv, Travels
  <2>6. IsPayload(f.path) => Step.need = "restored download"
    <3>1. IsPayload(f.path) => Step.op \in Fetching
      BY <1>0, <2>4, Facts DEF FlightInv, Travels
    <3>2. Marks(Step, Trace[pc], Trace[pc + 1])
      BY <2>4, Scene
    <3> QED
      BY <1>1, <2>2, <3>1, <3>2 DEF Marks
  <2>7. RecordOf(f).path = f.path
    BY DEF RecordOf
  <2>8. ASSUME NEW i \in (retryStart + 1)..Len(requests'), IsPayload(requests'[i].path)
        PROVE  Step.need = "restored download" /\ requests'[i].path \in cmd'.sent
    <3>1. i \in 1..Len(requests')
      BY <2>3, <2>4
    <3>2. CASE i = Len(requests) + 1
      BY <2>3, <2>5, <2>6, <2>7, <2>8, <3>2
    <3>3. CASE i \in 1..Len(requests)
      <4>1. i \in (retryStart + 1)..Len(requests) /\ requests'[i] = requests[i]
        BY <2>3, <2>4, <3>3 DEF Grows
      <4> QED
        BY <1>1, <2>2, <2>4, <2>5, <2>8, <4>1 DEF MarkedInv
    <3> QED
      BY <2>3, <3>1, <3>2, <3>3
  <2> QED
    BY <1>1, <2>2, <2>5, <2>8 DEF MarkedInv
<1> QED
  BY <1>4, <1>5, <1>6, <1>7, <1>8, <1>9, <1>10, <1>11 DEF Next, Driver, do_GET, Done

-----------------------------------------------------------------------------
\* How a breach is caught.

\* What a step that looks at the installation may end with.
LEMMA Looks ==
    ASSUME ValueInv, NEW o \in Conforming
    PROVE  /\ Shows(Step, "app") => /\ o.app = app /\ o.runtime = runtime
                                    /\ app # "none" => o.status = "ok" /\ o.out = app
                                    /\ app = "none" => o.status # "ok"
           /\ Shows(Step, "runtime") => /\ o.app = app /\ o.runtime = runtime
                                        /\ runtime = "none" => o.status # "ok"
           /\ Lists(Step) => /\ o.app = app /\ o.runtime = runtime
                             /\ app # "none" \/ runtime # "none" => o.out # ""
<1>1. \A st, out : Unchanged(Same(st, out), st, out)
  BY DEF Unchanged, Same, Outcome
<1>2. ASSUME Shows(Step, "app")
      PROVE  /\ o.app = app /\ o.runtime = runtime
             /\ app # "none" => o.status = "ok" /\ o.out = app
             /\ app = "none" => o.status # "ok"
  BY <1>2, Allowed DEF Shows, Unchanged
<1>3. ASSUME Shows(Step, "runtime")
      PROVE  o.app = app /\ o.runtime = runtime /\ (runtime = "none" => o.status # "ok")
  <2>1. CASE runtime # "none"
    BY <1>3, <2>1, Allowed DEF Shows, Unchanged
  <2>2. CASE runtime = "none"
    <3>1. o \in {Same("NOT_INSTALLED", ""), Same("error", "")}
      BY <1>3, <2>2 DEF Shows, Conforming
    <3>2. \E st \in {"NOT_INSTALLED", "error"} : Unchanged(o, st, "")
      BY <1>1, <3>1
    <3> QED
      BY <2>2, <3>2 DEF Unchanged
  <2> QED
    BY <2>1, <2>2
<1>4. ASSUME Lists(Step)
      PROVE  /\ o.app = app /\ o.runtime = runtime
             /\ app # "none" \/ runtime # "none" => o.out # ""
  <2>1. o = Same("ok", IF app = "none" /\ runtime = "none" THEN "" ELSE "refs")
    BY <1>4 DEF Lists, Conforming
  <2>2. Unchanged(o, "ok", IF app = "none" /\ runtime = "none" THEN "" ELSE "refs")
    BY <1>1, <2>1
  <2> QED
    BY <2>2 DEF Unchanged
<1> QED
  BY <1>2, <1>3, <1>4

\* A target that broke its contract before cannot pass the step that shows it.
LEMMA DoomedEnds ==
    ASSUME LifecycleInv, Running, deviation # "fails", Dooms(pc, app, runtime),
           NEW o \in Conforming \union Deviant
    PROVE  Lost(o) \/ Dooms(pc + 1, o.app, o.runtime)
<1>0. ValueInv
  BY DEF LifecycleInv
<1>1. /\ pc \in 1..Len(Program) /\ Step = Program[pc] /\ Len(Program) \in Nat
      /\ Trace[pc] \in Situations
  BY <1>0, Scene, Facts
<1>2. app \in {"none"} \union Versions /\ runtime \in {"none", "R"}
  BY <1>0 DEF ValueInv
<1>3. Shows(Step, "app") \/ Shows(Step, "runtime") \/ Lists(Step)
  BY <1>1 DEF Dooms, Reveals
<1>4. /\ Watched(name, Program, pc)
      /\ Shows(Step, "app") => Step.need = IF Trace[pc].app # "none" THEN Trace[pc].app
                                           ELSE IF kind = "cli" THEN "failure" ELSE "NOT_INSTALLED"
      /\ Shows(Step, "runtime") => Trace[pc].runtime = "R" /\ Step.need = "R"
      /\ Lists(Step) => Trace[pc].app = "none" /\ Trace[pc].runtime = "none" /\ Step.need = "empty"
  BY <1>0, <1>1, Looking
<1>5. Trace[pc].app \in {"none", "A", "B"}
  BY <1>1 DEF Situations, Versions
<1>6. o \in Conforming
  <2>1. Step.ref # "missing"
    <3>1. Step.need \notin {"REF_NOT_FOUND", "NOT_INSTALLED"} \/ Shows(Step, "app")
      BY <1>3, <1>4
    <3> QED
      BY <1>1, <1>4, <3>1 DEF Watched, Shows
  <2>2. Step.op \in {"query", "list-refs"}
    BY <1>3 DEF Shows, Lists
  <2>3. Deviant = {}
    BY <2>1, <2>2 DEF Deviant
  <2> QED
    BY <2>3
<1>7. Step.need \notin {"blocked download", "restored download"}
  BY <1>3, <1>4, <1>5
<1>8. CASE Shows(Step, "app") /\ app # Trace[pc].app
  <2>1. ~Required(o)
    <3>1. CASE Trace[pc].app # "none"
      <4>1. Step.need = Trace[pc].app /\ Step.need \in {"A", "B"}
        BY <1>4, <1>5, <1>8, <3>1
      <4>2. Required(o) <=> o.status = "ok" /\ o.out = Step.need
        BY <4>1, Requirements
      <4> QED
        BY <1>0, <1>6, <1>8, <4>1, <4>2, Looks
    <3>2. CASE Trace[pc].app = "none"
      <4>1. o.status = "ok"
        BY <1>0, <1>6, <1>8, <3>2, Looks
      <4>2. Step.need \in {"failure", "NOT_INSTALLED"}
        BY <1>4, <1>8, <3>2
      <4> QED
        BY <4>1, <4>2, Requirements
    <3> QED
      BY <3>1, <3>2
  <2> QED
    BY <1>7, <2>1 DEF Lost
<1>9. CASE Shows(Step, "runtime") /\ runtime # Trace[pc].runtime
  <2>1. runtime = "none" /\ Step.need = "R"
    BY <1>2, <1>4, <1>9
  <2>2. o.status # "ok"
    BY <1>0, <1>6, <1>9, <2>1, Looks
  <2>3. ~Required(o)
    BY <2>1, <2>2, Requirements
  <2> QED
    BY <1>7, <2>3 DEF Lost
<1>10. CASE Lists(Step) /\ (app # Trace[pc].app \/ runtime # Trace[pc].runtime)
  <2>1. o.out # "" /\ Step.need = "empty"
    BY <1>0, <1>4, <1>6, <1>10, Looks
  <2>2. ~Required(o)
    BY <2>1, Requirements
  <2> QED
    BY <1>7, <2>2 DEF Lost
<1>11. CASE /\ Shows(Step, "runtime") /\ pc < Len(Program)
            /\ Reveals(Program[pc + 1], Trace[pc + 1], app, runtime)
  <2>1. o.app = app /\ o.runtime = runtime
    BY <1>0, <1>6, <1>11, Looks
  <2>2. pc + 1 <= Len(Program)
    BY <1>1, <1>11
  <2> QED
    BY <1>11, <2>1, <2>2 DEF Dooms
<1> QED
  BY <1>1, <1>8, <1>9, <1>10, <1>11 DEF Dooms, Reveals

LEMMA Following ==
    ASSUME ValueInv, pc < Len(Program)
    PROVE  pc + 1 \in 1..Len(Program) /\ pc + 1 <= Len(Program)
<1>1. pc \in Nat /\ Len(Program) \in Nat
  BY Facts
<1>2. \A p, q \in Nat : p < q => p + 1 \in 1..q /\ p + 1 <= q
  OBVIOUS
<1> QED
  BY <1>1, <1>2

\* A command that fails outright is judged by what it reports; only an update whose downloads
\* were refused to it may report so.
LEMMA FailsCaught ==
    ASSUME LifecycleInv, AskInv, CleanInv, Running, ~breached, deviation = "fails",
           NEW o \in Deviant, o \notin Conforming
    PROVE  Lost(o)
<1>0. ValueInv /\ CmdInv /\ EvidenceInv
  BY DEF LifecycleInv
<1>1. /\ Step = Program[pc] /\ Step.ref # "repository" /\ verdict = "none"
      /\ kind \in {"cli", "library"} /\ Trace[pc] \in Situations
      /\ Obeys(kind, Step, Trace[pc], Trace[pc + 1]) /\ Marks(Step, Trace[pc], Trace[pc + 1])
      /\ version = Trace[pc].version /\ app = Trace[pc].app /\ cmd.seen \in {"none", version}
  BY Scene
<1>2. o = Same("error", "") /\ \A f \in flight : f.step # pc
  BY DEF Deviant
<1>3. o.status = "error" /\ o.ready = 0
  BY <1>2 DEF Same, Outcome
<1>4. Step \in Steps
  BY <1>0, Scene, Facts
<1>5. CASE Step.need = "failure"
  <2>1. Shows(Step, "app") /\ app = "none" /\ kind = "cli"
    BY <1>1, <1>5 DEF Obeys, Quiet, Changing, Shows, Situations, Versions
  <2>2. Same("error", "") \in Conforming
    BY <2>1 DEF Conforming, Shows
  <2> QED
    BY <1>2, <2>2
<1>6. CASE Step.need = "blocked download"
  <2>1. ~Trace[pc].refused
    BY <1>1, <1>6 DEF Marks
  <2>2. \A f \in flight : ~IsPayload(f.path)
    BY <1>1, <1>2, <2>1 DEF CleanInv
  <2>3. ASSUME Refused PROVE FALSE
    <3>1. PICK i \in 1..Len(requests) : requests[i].blocked
      BY <2>3 DEF Refused
    <3>2. requests[i].path \in cmd.denied
      BY <1>1, <2>1, <3>1 DEF CleanInv
    <3>3. failPayloads /\ requests[i].path \in cmd.sent /\ IsPayload(requests[i].path)
      BY <1>0, <3>2 DEF CmdInv, AskInv
    <3>4. Step.op = "update" /\ Known /\ app # version
      BY <3>3, BlockedAsk
    <3>5. cmd.seen = version
      BY <1>1, <3>4 DEF Known
    <3>6. ~Fetched
      <4>1. version \in Versions
        BY <1>0 DEF ValueInv
      <4>2. PICK p \in Filez(version) : IsPayload(p)
        BY <4>1, PathsShape
      <4>3. p \notin cmd.got
        BY <1>0, <3>3, <4>2 DEF EvidenceInv
      <4> QED
        BY <3>5, <4>2, <4>3 DEF Fetched
    <3>7. Same("error", "") \in Conforming
      BY <3>2, <3>4, <3>5, <3>6 DEF Conforming
    <3> QED
      BY <1>2, <3>7
  <2>4. ~Required(o)
    BY <1>6, <2>3, Requirements
  <2> QED
    BY <1>6, <2>2, <2>4 DEF Lost
<1>7. CASE Step.need \notin {"failure", "blocked download"}
  <2>1. ~Required(o)
    <3>1. CASE Step.need = "nothing"
      <4>1. ~(Obeys(kind, Step, Trace[pc], Trace[pc + 1]))
        BY <1>1, <3>1 DEF Obeys, Quiet, Changing, Situations, Versions
      <4> QED
        BY <1>1, <4>1
    <3>2. CASE Step.need # "nothing"
      <4>1. Step.need \in StepNeeds
        BY <1>4 DEF Steps
      <4>2. o.status # "ok" /\ o.ready # 1
        BY <1>3
      <4>3. CASE Step.need \in {"success", "empty", "warned", "accepted", "restored download"}
        BY <4>2, <4>3, Requirements
      <4>4. CASE Step.need \in {"aborted", "A", "B", "R"}
        BY <4>2, <4>4, Requirements
      <4>5. CASE Step.need \in {"NOT_INSTALLED", "ALREADY_INSTALLED", "REF_NOT_FOUND"}
        BY <1>3, <4>5, Requirements
      <4> QED
        BY <1>7, <3>2, <4>1, <4>3, <4>4, <4>5 DEF StepNeeds
    <3> QED
      BY <3>1, <3>2
  <2> QED
    BY <1>3, <1>7, <2>1 DEF Lost
<1> QED
  BY <1>5, <1>6, <1>7

\* An update that was refused its downloads and reports success, or leaves the new version.
LEMMA RefusedCaught ==
    ASSUME LifecycleInv, AskInv, Running, ~breached, deviation \in {"partial update", "silent failure"},
           NEW o \in Deviant
    PROVE  Lost(o) \/ Dooms(pc + 1, o.app, o.runtime)
<1>0. ValueInv /\ CmdInv
  BY DEF LifecycleInv
<1>1. /\ pc \in 1..Len(Program) /\ Step = Program[pc] /\ app = Trace[pc].app
      /\ cmd.seen \in {"none", version} /\ cmd \in Cmds
      /\ Obeys(kind, Step, Trace[pc], Trace[pc + 1])
  BY Scene
<1>2. Step.op = "update" /\ cmd.denied # {}
  BY DEF Deviant
<1>3. PICK p : p \in cmd.denied
  BY <1>2
<1>4. p \in cmd.sent /\ IsPayload(p) /\ failPayloads
  BY <1>0, <1>3 DEF CmdInv, AskInv
<1>5. Step.need = "blocked download" /\ Known /\ app # version
  BY <1>4, BlockedAsk
<1>6. CASE deviation = "silent failure"
  <2>1. o = Same("ok", "")
    BY <1>6 DEF Deviant
  <2>2. o.status = "ok"
    BY <2>1 DEF Same, Outcome
  <2>3. ~Required(o)
    BY <1>5, <2>2, Requirements
  <2> QED
    BY <1>5, <2>2, <2>3 DEF Lost
<1>7. CASE deviation = "partial update"
  <2>1. o = Outcome("error", "", 1, TRUE, cmd.seen, runtime)
    BY <1>7 DEF Deviant
  <2>2. o.app = version
    BY <1>1, <1>5, <2>1 DEF Outcome, Known
  <2>3. pc < Len(Program) /\ Shows(Program[pc + 1], "app")
    BY <1>0, <1>1, <1>5, Looking DEF Watched
  <2>4. Trace[pc + 1].app = app
    BY <1>1, <1>2, <1>5 DEF Obeys, Changing
  <2>5. pc + 1 <= Len(Program)
    BY <1>0, <2>3, Following
  <2> QED
    BY <1>5, <2>2, <2>3, <2>4, <2>5 DEF Dooms, Reveals
<1> QED
  BY <1>6, <1>7

\* An installation that changes the application although it is there already.
LEMMA EagerCaught ==
    ASSUME LifecycleInv, Running, ~breached, deviation = "eager install",
           NEW o \in Deviant, o \notin Conforming
    PROVE  Dooms(pc + 1, o.app, o.runtime)
<1>0. ValueInv /\ CmdInv
  BY DEF LifecycleInv
<1>1. /\ pc \in 1..Len(Program) /\ Step = Program[pc] /\ app = Trace[pc].app
      /\ Running /\ Step.ref # "repository" /\ pc <= Len(Program)
      /\ Obeys(kind, Step, Trace[pc], Trace[pc + 1])
  BY Scene
<1>2. Step.op = "install" /\ Step.ref = "app" /\ app # "none"
  BY DEF Deviant
<1>3. PICK x \in Conforming : o = [x EXCEPT !.app = cmd.seen]
  BY DEF Deviant
<1>4. x \in Outcomes
  BY <1>0, <1>1, ConformingShape
<1>5. o.app = cmd.seen
  BY <1>3, <1>4 DEF Outcomes
<1>6. x.app = app
  BY <1>2, Allowed DEF Unchanged
<1>7. cmd.seen # app
  <2>1. SUFFICES ASSUME cmd.seen = app PROVE FALSE
    OBVIOUS
  <2>2. [x EXCEPT !.app = x.app] = x
    BY <1>4 DEF Outcomes
  <2> QED
    BY <1>3, <1>6, <2>1, <2>2
<1>8. Step.need \in {"warned", "ALREADY_INSTALLED"} /\ Trace[pc + 1].app = app
  BY <1>1, <1>2 DEF Obeys, Quiet, Changing
<1>9. pc < Len(Program) /\ Shows(Program[pc + 1], "app")
  BY <1>0, <1>1, <1>8, Looking DEF Watched
<1>10. pc + 1 <= Len(Program)
  BY <1>0, <1>9, Following
<1> QED
  BY <1>5, <1>7, <1>8, <1>9, <1>10 DEF Dooms, Reveals

\* A removal that keeps the application, or takes the runtime with it.
LEMMA RemovalCaught ==
    ASSUME LifecycleInv, Running, ~breached, deviation \in {"over-removal", "kept"}, NEW o \in Deviant
    PROVE  Lost(o) \/ Dooms(pc + 1, o.app, o.runtime)
<1>0. ValueInv
  BY DEF LifecycleInv
<1>1. /\ pc \in 1..Len(Program) /\ Step = Program[pc] /\ app = Trace[pc].app
      /\ Obeys(kind, Step, Trace[pc], Trace[pc + 1])
  BY Scene
<1>2. Step.op = "uninstall" /\ app # "none"
  BY DEF Deviant
<1>3. o = Same("ok", "") \/ o = Outcome("ok", "", 1, TRUE, "none", "none")
  BY DEF Deviant
<1>4. o.status = "ok"
  <2>1. CASE o = Same("ok", "")
    BY <2>1 DEF Same, Outcome
  <2>2. CASE o = Outcome("ok", "", 1, TRUE, "none", "none")
    BY <2>2 DEF Outcome
  <2> QED
    BY <1>3, <2>1, <2>2
<1>5. CASE Step.ref = "missing"
  <2>1. Step.need = "NOT_INSTALLED"
    BY <1>1, <1>2, <1>5 DEF Obeys, Quiet, Changing
  <2>2. ~Required(o)
    BY <1>4, <2>1, Requirements
  <2> QED
    BY <2>1, <2>2 DEF Lost
<1>6. CASE Step.ref # "missing"
  <2>1. Step.ref = "app" /\ Trace[pc + 1].app = "none"
    BY <1>1, <1>2, <1>6 DEF Obeys, Quiet, Changing
  <2>2. pc + 1 < Len(Program) /\ Shows(Program[pc + 1], "runtime") /\ Shows(Program[pc + 2], "app")
    BY <1>0, <1>1, <1>2, <2>1, Looking DEF Watched
  <2>3. pc \in Nat /\ Len(Program) \in Nat
    BY <1>0, Facts
  <2>4. pc + 1 \in 1..Len(Program) /\ pc + 1 <= Len(Program) /\ (pc + 1) + 1 = pc + 2
    BY <2>2, <2>3
  <2>5. PICK i : i = pc + 1
    OBVIOUS
  <2>6. i \in 1..Len(Program) /\ i + 1 = pc + 2
    BY <2>4, <2>5
  <2>7. Trace[i].runtime = "R" /\ Trace[i + 1].app = Trace[i].app
    BY <1>0, <2>2, <2>5, <2>6, Looking
  <2>8. CASE deviation = "over-removal"
    <3>1. o = Outcome("ok", "", 1, TRUE, "none", "none")
      BY <2>8 DEF Deviant
    <3>2. o.runtime = "none"
      BY <3>1 DEF Outcome
    <3> QED
      BY <2>2, <2>4, <2>5, <2>7, <3>2 DEF Dooms, Reveals
  <2>9. CASE deviation = "kept"
    <3>1. o = Same("ok", "")
      BY <2>9 DEF Deviant
    <3>2. o.app = app
      BY <3>1 DEF Same, Outcome
    <3>3. Reveals(Program[i + 1], Trace[i + 1], o.app, o.runtime)
      BY <1>2, <2>1, <2>2, <2>5, <2>6, <2>7, <3>2 DEF Reveals
    <3> QED
      BY <2>2, <2>4, <2>5, <3>3 DEF Dooms
  <2> QED
    BY <2>8, <2>9
<1> QED
  BY <1>5, <1>6

LEMMA NotOnce == 0 # 1 /\ 2 # 1
OBVIOUS

\* An installation that goes on although its client aborted it when it was ready.
LEMMA ReadyCaught ==
    ASSUME LifecycleInv, Running, ~breached, deviation = "ready ignored", NEW o \in Deviant
    PROVE  Lost(o) \/ Dooms(pc + 1, o.app, o.runtime)
<1>0. ValueInv
  BY DEF LifecycleInv
<1>1. /\ pc \in 1..Len(Program) /\ Step = Program[pc] /\ Obeys(kind, Step, Trace[pc], Trace[pc + 1])
  BY Scene
<1>2. Step.op = "install-abort-ready" /\ Known
  BY DEF Deviant
<1>3. Step.need = "aborted"
  BY <1>1, <1>2 DEF Obeys, Quiet, Changing
<1>4. o \in {Outcome("error", "", 1, TRUE, app, runtime), Outcome("error", "", 2, FALSE, app, runtime),
             Outcome("error", "", 0, FALSE, app, runtime), Outcome("ok", "", 1, FALSE, app, runtime),
             Outcome("error", "", 1, FALSE, cmd.seen, "R")}
  BY DEF Deviant
<1>5. CASE o = Outcome("error", "", 1, FALSE, cmd.seen, "R")
  <2>1. o.app = cmd.seen
    BY <1>5 DEF Outcome
  <2>2. pc < Len(Program) /\ Lists(Program[pc + 1])
    BY <1>0, <1>1, <1>3, Looking DEF Watched
  <2>4. PICK i : i = pc + 1
    OBVIOUS
  <2>5. i \in 1..Len(Program) /\ i <= Len(Program)
    BY <1>0, <2>2, <2>4, Following
  <2>6. Trace[i].app = "none"
    BY <1>0, <2>2, <2>4, <2>5, Looking
  <2>7. o.app # Trace[i].app
    BY <1>2, <2>1, <2>6 DEF Known
  <2> QED
    BY <2>2, <2>4, <2>5, <2>7 DEF Dooms, Reveals
<1>6. CASE o # Outcome("error", "", 1, FALSE, cmd.seen, "R")
  <2>1. o.status = "ok" \/ o.ready # 1 \/ o.began
    <3>1. CASE o = Outcome("error", "", 1, TRUE, app, runtime)
      BY <3>1 DEF Outcome
    <3>2. CASE o = Outcome("error", "", 2, FALSE, app, runtime)
      <4>1. o.ready = 2
        BY <3>2 DEF Outcome
      <4>2. o.ready # 1
        BY <4>1, NotOnce, Zenon
      <4> QED
        BY <4>2, Zenon
    <3>3. CASE o = Outcome("error", "", 0, FALSE, app, runtime)
      <4>1. o.ready = 0
        BY <3>3 DEF Outcome
      <4>2. o.ready # 1
        BY <4>1, NotOnce, Zenon
      <4> QED
        BY <4>2, Zenon
    <3>4. CASE o = Outcome("ok", "", 1, FALSE, app, runtime)
      BY <3>4 DEF Outcome
    <3> QED
      BY <1>4, <1>6, <3>1, <3>2, <3>3, <3>4
  <2>2. ~Required(o)
    BY <1>3, <2>1, Requirements
  <2> QED
    BY <1>3, <2>2 DEF Lost
<1> QED
  BY <1>5, <1>6

\* The wrong error for a ref that is not there, or one that appears all the same.
LEMMA MissingCaught ==
    ASSUME LifecycleInv, Running, ~breached, deviation \in {"wrong error", "stray ref"}, NEW o \in Deviant
    PROVE  Lost(o) \/ Dooms(pc + 1, o.app, o.runtime)
<1>0. ValueInv
  BY DEF LifecycleInv
<1>1. /\ pc \in 1..Len(Program) /\ Step = Program[pc] /\ Obeys(kind, Step, Trace[pc], Trace[pc + 1])
  BY Scene
<1>2. Step.ref = "missing"
  BY DEF Deviant
<1>3. Watched(name, Program, pc)
  BY <1>0, <1>1, Looking
<1>4. CASE deviation = "wrong error"
  <2>1. o = Same("error", "") \/ o = Same("ok", "")
    BY <1>4 DEF Deviant
  <2>2. o.status \in {"error", "ok"}
    <3>1. CASE o = Same("error", "")
      BY <3>1 DEF Same, Outcome
    <3>2. CASE o = Same("ok", "")
      BY <3>2 DEF Same, Outcome
    <3> QED
      BY <2>1, <3>1, <3>2
  <2>3. Step.need \in {"REF_NOT_FOUND", "NOT_INSTALLED"}
    BY <1>1, <1>2, <1>3 DEF Watched
  <2>4. ~Required(o)
    BY <2>2, <2>3, Requirements
  <2> QED
    BY <2>3, <2>4 DEF Lost
<1>5. CASE deviation = "stray ref"
  <2>1. Step.op = "install" /\ o = Outcome("REF_NOT_FOUND", "", 0, FALSE, "none", "R")
    BY <1>5 DEF Deviant
  <2>2. o.runtime = "R"
    BY <2>1 DEF Outcome
  <2>3. Step.need = "REF_NOT_FOUND"
    BY <1>1, <1>2, <2>1 DEF Obeys, Quiet, Changing
  <2>4. pc < Len(Program) /\ Lists(Program[pc + 1])
    BY <1>1, <1>3, <2>3 DEF Watched
  <2>6. PICK i : i = pc + 1
    OBVIOUS
  <2>7. i \in 1..Len(Program) /\ i <= Len(Program)
    BY <1>0, <2>4, <2>6, Following
  <2>8. Trace[i].runtime = "none"
    BY <1>0, <2>4, <2>6, <2>7, Looking
  <2> QED
    BY <2>2, <2>4, <2>6, <2>7, <2>8 DEF Dooms, Reveals
<1> QED
  BY <1>4, <1>5

\* A retry that reports the new version and asked for the summary alone.
LEMMA RetryCaught ==
    ASSUME LifecycleInv, MarkedInv, Running, ~breached, deviation = "no fetch", ~late, flight = {},
           NEW o \in Deviant
    PROVE  Lost(o)
<1>0. ValueInv
  BY DEF LifecycleInv
<1>1. /\ pc \in 1..Len(Program) /\ Step = Program[pc] /\ app = Trace[pc].app /\ verdict = "none"
      /\ version = Trace[pc].version /\ failPayloads = Trace[pc].blocked
      /\ cmd.seen \in {"none", version}
      /\ Obeys(kind, Step, Trace[pc], Trace[pc + 1]) /\ Marks(Step, Trace[pc], Trace[pc + 1])
  BY Scene
<1>2. /\ Step.op = "update" /\ Known /\ cmd.seen # app /\ cmd.sent = {Summary}
      /\ name \in Failing /\ ~failPayloads
  BY DEF Deviant
<1>3. Step.need # "success"
  BY <1>0, <1>1, <1>2, Looking DEF Watched
<1>4. Step.need = "restored download"
  <2>1. app # version
    BY <1>1, <1>2 DEF Known
  <2> QED
    BY <1>1, <1>2, <1>3, <2>1 DEF Obeys, Quiet, Changing
<1>5. Trace[pc].marked /\ ~Trace[pc].retried
  BY <1>1, <1>4 DEF Marks
<1>6. ~Served("B")
  <2>1. \A i \in (retryStart + 1)..Len(requests) :
           IsPayload(requests[i].path) => requests[i].path = Summary
    BY <1>1, <1>2, <1>5 DEF MarkedInv
  <2> QED
    BY <2>1, PathsShape DEF Served
<1>7. ~Required(o)
  BY <1>4, <1>6, Requirements
<1> QED
  BY <1>4, <1>7 DEF Lost

\* Every deviation is caught at its step or by the steps after it.
LEMMA BreachEnds ==
    ASSUME LifecycleInv, AskInv, CleanInv, MarkedInv, Running, ~breached, ~Excused, late \/ flight = {},
           NEW o \in Deviant, o \notin Conforming
    PROVE  Lost(o) \/ (deviation # "fails" /\ Dooms(pc + 1, o.app, o.runtime))
<1>1. deviation \in {"fails", "partial update", "silent failure", "eager install", "over-removal",
                     "kept", "ready ignored", "wrong error", "stray ref", "no fetch"}
  BY DEF Deviant
<1>2. CASE deviation = "fails"
  BY <1>2, FailsCaught
<1>3. CASE deviation \in {"partial update", "silent failure"}
  BY <1>3, RefusedCaught
<1>4. CASE deviation = "eager install"
  BY <1>4, EagerCaught
<1>5. CASE deviation \in {"over-removal", "kept"}
  BY <1>5, RemovalCaught
<1>6. CASE deviation = "ready ignored"
  BY <1>6, ReadyCaught
<1>7. CASE deviation \in {"wrong error", "stray ref"}
  BY <1>7, MissingCaught
<1>8. CASE deviation = "no fetch"
  BY <1>8, RetryCaught DEF Excused
<1> QED
  BY <1>1, <1>2, <1>3, <1>4, <1>5, <1>6, <1>7, <1>8

-----------------------------------------------------------------------------
\* A breach stays caught.

\* No later answer redeems an outcome that is lost.
LEMMA LostStays ==
    ASSUME LifecycleInv, UniqueInv, result # NoResult, Lost(result), Step' = Step, result' = result,
           ReadDirectory \/ ReadFailure \/ RecordAndReply \/ UNCHANGED vars
    PROVE  Lost(result)'
<1>0. ValueInv /\ StageInv /\ CmdInv /\ FlightInv
  BY DEF LifecycleInv
<1>1. CASE UNCHANGED <<requests, retryStart>> /\ \A x \in flight' : \E y \in flight : x.path = y.path
  <2>1. Required(result)' <=> Required(result)
    BY <1>1 DEF Required
  <2>2. flight = {} => flight' = {}
    BY <1>1
  <2>3. (\A f \in flight : ~IsPayload(f.path)) => \A f \in flight' : ~IsPayload(f.path)
    BY <1>1
  <2> QED
    BY <2>1, <2>2, <2>3 DEF Lost
<1>2. CASE ReadDirectory \/ ReadFailure
  <2>1. PICK f \in flight, g \in flight' : flight' = (flight \ {f}) \union {g} /\ g.path = f.path
    BY <1>0, <1>2, ThreadMoves
  <2>2. \A x \in flight' : \E y \in flight : x.path = y.path
    BY <2>1
  <2>3. UNCHANGED <<requests, retryStart>>
    BY <1>2 DEF ReadDirectory, ReadFailure
  <2> QED
    BY <1>1, <2>2, <2>3
<1>3. CASE UNCHANGED vars
  <2>1. UNCHANGED <<requests, retryStart, flight>>
    BY <1>3 DEF vars
  <2> QED
    BY <1>1, <2>1
<1>4. CASE RecordAndReply
  <2>1. PICK f \in flight : flight' = flight \ {f} /\ requests' = Append(requests, RecordOf(f))
    BY <1>0, <1>4, ReplyMoves
  <2>2. retryStart' = retryStart
    BY <1>4 DEF RecordAndReply
  <2>3. CASE Step.need = "blocked download"
    <3>1. result.status = "ok" \/ \A x \in flight : ~IsPayload(x.path)
      BY <2>3 DEF Lost
    <3>2. CASE result.status = "ok"
      <4>1. ~Required(result)'
        BY <2>3, <3>2 DEF Required
      <4> QED
        BY <2>3, <3>2, <4>1 DEF Lost
    <3>3. CASE result.status # "ok" /\ \A x \in flight : ~IsPayload(x.path)
      <4>1. ~Refused
        BY <2>3, <3>3, Requirements DEF Lost
      <4>2. /\ Len(requests) \in Nat /\ Len(requests') = Len(requests) + 1
            /\ requests'[Len(requests) + 1] = RecordOf(f) /\ Grows
            /\ \A i \in 1..Len(requests') : i \in 1..Len(requests) \/ i = Len(requests) + 1
        BY <1>0, <2>1, <2>2, RecordMoves
      <4>3. f.at # "blocked"
        BY <2>1, <3>3 DEF UniqueInv
      <4>4. ~RecordOf(f).blocked
        BY <4>3 DEF RecordOf
      <4>5. ASSUME NEW i \in 1..Len(requests') PROVE ~requests'[i].blocked
        <5>1. CASE i \in 1..Len(requests)
          BY <4>1, <4>2, <5>1 DEF Grows, Refused
        <5>2. CASE i = Len(requests) + 1
          BY <4>2, <4>4, <5>2
        <5> QED
          BY <4>2, <5>1, <5>2
      <4>6. ~Required(result)'
        BY <2>3, <4>5 DEF Required
      <4> QED
        BY <2>1, <2>3, <3>3, <4>6 DEF Lost
    <3> QED
      BY <3>1, <3>2, <3>3
  <2>4. CASE Step.need = "restored download"
    <3>1. result.status # "ok"
      BY <2>1, <2>4 DEF Lost
    <3>2. ~Required(result)'
      BY <2>4, <3>1 DEF Required
    <3> QED
      BY <2>4, <3>1, <3>2 DEF Lost
  <2>5. CASE Step.need \notin {"blocked download", "restored download"}
    <3>1. Required(result)' <=> Required(result)
      BY <2>5 DEF Required
    <3> QED
      BY <2>5, <3>1 DEF Lost
  <2> QED
    BY <2>3, <2>4, <2>5
<1> QED
  BY <1>2, <1>3, <1>4

LEMMA DoomStep ==
    LifecycleInv /\ AskInv /\ UniqueInv /\ CleanInv /\ MarkedInv /\ DoomInv /\ [Next]_vars => DoomInv'
<1> SUFFICES ASSUME LifecycleInv, AskInv, UniqueInv, CleanInv, MarkedInv, DoomInv, [Next]_vars,
                    breached', verdict' = "none", ~Excused'
             PROVE  DoomInv'
  BY DEF DoomInv
<1>0. ValueInv /\ StageInv /\ CmdInv /\ FlightInv
  BY DEF LifecycleInv
<1>1. /\ deviation' = deviation /\ ~Excused /\ Trace' = Trace /\ Program' = Program
      /\ (pc' = pc => Step' = Step) /\ pc \in Nat /\ Len(Program) \in Nat
  <2>1. pc' = pc => Step' = Step
    BY Steady DEF Step
  <2> QED
    BY <1>0, <2>1, Frame, Steady, Facts
<1>2. CASE Call \/ Ask \/ do_GET \/ UNCHANGED vars
  <2>1. UNCHANGED <<breached, verdict, pc, app, runtime, result>>
    BY <1>2 DEF Call, Ask, do_GET, ReadDirectory, ReadFailure, RecordAndReply, vars
  <2>2. /\ Dooms(pc, app, runtime)' <=> Dooms(pc, app, runtime)
        /\ Dooms(pc + 1, app, runtime)' <=> Dooms(pc + 1, app, runtime)
    BY <1>1, <2>1 DEF Dooms, Reveals
  <2>3. CASE result = NoResult
    BY <1>1, <2>1, <2>2, <2>3 DEF DoomInv
  <2>4. CASE result # NoResult
    <3>1. ~Call /\ ~Ask
      BY <1>0, <2>4 DEF Call, Ask, StageInv
    <3>2. Lost(result) => Lost(result)'
      BY <1>1, <1>2, <2>1, <2>4, <3>1, LostStays DEF do_GET
    <3> QED
      BY <1>1, <2>1, <2>2, <2>4, <3>2 DEF DoomInv
  <2> QED
    BY <2>3, <2>4
<1>3. CASE Set
  <2>1. verdict = "none" /\ ~Over /\ Step.ref = "repository" /\ UNCHANGED breached
    BY <1>3 DEF Set
  <2>2. result = NoResult
    BY <1>0, <2>1 DEF StageInv
  <2>3. Dooms(pc, app, runtime)
    BY <1>1, <2>1, <2>2 DEF DoomInv
  <2>4. Step.ref # "repository"
    BY <1>0, <2>3, Facts DEF Dooms, Reveals, Shows, Lists
  <2> QED
    BY <2>1, <2>4
<1>4. CASE Judge
  <2>1. /\ result # NoResult /\ result' = NoResult
        /\ IF Required(result) THEN pc' = pc + 1 /\ UNCHANGED verdict
                               ELSE verdict' = Step.raises /\ UNCHANGED pc
        /\ UNCHANGED <<app, runtime, breached>>
    BY <1>4 DEF Judge
  <2>2. verdict = "none" /\ pc <= Len(Program)
    BY <1>0, <2>1 DEF StageInv
  <2>3. Step.raises # "none"
    BY <1>0, <2>2, Facts DEF Steps
  <2>4. Required(result) /\ pc' = pc + 1
    BY <2>1, <2>3
  <2>5. deviation # "fails" /\ Dooms(pc + 1, app, runtime)
    BY <1>1, <2>1, <2>2, <2>4 DEF DoomInv, Lost
  <2>6. Dooms(pc, app, runtime)'
    BY <1>1, <2>1, <2>4, <2>5 DEF Dooms, Reveals
  <2> QED
    BY <1>1, <2>1, <2>5, <2>6 DEF DoomInv
<1>5. CASE TimeOut \/ Pass
  BY <1>5 DEF TimeOut, Pass
<1>6. CASE Finish
  <2>1. PICK o \in Conforming \union Deviant :
           /\ result' = o /\ result' # NoResult /\ app' = o.app /\ runtime' = o.runtime
           /\ breached' = (breached \/ o \notin Conforming)
           /\ late \/ flight = {}
           /\ Running
           /\ UNCHANGED <<pc, requests, retryStart, flight, verdict>>
    BY <1>6, Ends
  <2>2. verdict = "none" /\ result = NoResult
    BY <2>1, Scene
  <2>3. Lost(o) \/ (deviation # "fails" /\ Dooms(pc + 1, o.app, o.runtime))
    <3>1. CASE breached
      <4>1. deviation # "fails" /\ Dooms(pc, app, runtime)
        BY <1>1, <2>2, <3>1 DEF DoomInv
      <4> QED
        BY <2>1, <4>1, DoomedEnds
    <3>2. CASE ~breached
      <4>1. o \in Deviant /\ o \notin Conforming
        BY <2>1, <3>2
      <4> QED
        BY <1>1, <2>1, <3>2, <4>1, BreachEnds
    <3> QED
      BY <1>0, <3>1, <3>2 DEF ValueInv
  <2>4. Lost(o) => Lost(result)'
    BY <1>1, <2>1 DEF Lost, Required
  <2>5. Dooms(pc + 1, o.app, o.runtime) => Dooms(pc + 1, app, runtime)'
    BY <1>1, <2>1 DEF Dooms, Reveals
  <2> QED
    BY <1>1, <2>1, <2>3, <2>4, <2>5 DEF DoomInv
<1> QED
  BY <1>2, <1>3, <1>4, <1>5, <1>6 DEF Next, Driver, Done

LEMMA PassStep == LifecycleInv /\ DoomInv /\ PassInv /\ [Next]_vars => PassInv'
<1> SUFFICES ASSUME LifecycleInv, DoomInv, PassInv, [Next]_vars, verdict' = "passed", breached'
             PROVE  Excused'
  BY DEF PassInv
<1>0. ValueInv /\ StageInv
  BY DEF LifecycleInv
<1>1. Excused' = Excused
  BY Frame
<1>2. CASE Pass
  <2>1. verdict = "none" /\ Over /\ breached
    BY <1>2 DEF Pass
  <2>2. pc = Len(Program) + 1 /\ Len(Program) \in Nat
    BY <1>0, <2>1, Facts
  <2>3. ~(pc <= Len(Program))
    BY <2>2
  <2>4. result = NoResult /\ ~Dooms(pc, app, runtime)
    BY <1>0, <2>3 DEF StageInv, Dooms
  <2> QED
    BY <1>1, <2>1, <2>4 DEF DoomInv
<1>3. CASE Judge
  <2>1. /\ result # NoResult /\ UNCHANGED breached
        /\ verdict' \in {verdict, Step.raises}
    BY <1>3 DEF Judge
  <2>2. verdict = "none" /\ pc <= Len(Program)
    BY <1>0, <2>1 DEF StageInv
  <2>3. Step.raises # "passed"
    BY <1>0, <2>2, Facts DEF Steps
  <2> QED
    BY <2>1, <2>2, <2>3
<1>4. CASE TimeOut
  BY <1>4 DEF TimeOut
<1>5. CASE Finish
  <2>1. Running /\ verdict' = verdict
    BY <1>5 DEF Finish
  <2> QED
    BY <1>0, <2>1 DEF StageInv
<1>6. CASE Call \/ Set \/ Ask \/ do_GET \/ UNCHANGED vars
  <2>1. UNCHANGED <<verdict, breached>>
    BY <1>6 DEF Call, Set, Ask, do_GET, ReadDirectory, ReadFailure, RecordAndReply, vars
  <2> QED
    BY <1>1, <2>1 DEF PassInv
<1> QED
  BY <1>2, <1>3, <1>4, <1>5, <1>6 DEF Next, Driver, Done

LEMMA CaughtInductive == CaughtInv /\ [Next]_vars => CaughtInv'
BY Inductive, AskStep, UniqueStep, CleanStep, MarkedStep, DoomStep, PassStep DEF CaughtInv

LEMMA CaughtHolds == Spec => []CaughtInv
<1>1. Init => CaughtInv
  BY CaughtInit
<1>2. CaughtInv /\ [Next]_vars => CaughtInv'
  BY CaughtInductive
<1> QED
  BY <1>1, <1>2, PTL DEF Spec

\* run.py:381-471 (the scenarios), 197-233 (the server), 332-339 and 106-108 (what is judged):
\* whatever one contract the target breaks, however its requests interleave with the
\* repository's threads, no scenario passes: the step that was broken, or one of the next two,
\* requires what the breach made false.  The exception is the one of RetryFetched.
THEOREM BreachIsCaught == Spec => []PassSound
<1>1. CaughtInv => PassSound
  BY DEF CaughtInv, PassInv, Excused, PassSound
<1> QED
  BY <1>1, CaughtHolds, PTL

=============================================================================
