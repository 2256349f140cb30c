-------------------------- MODULE PublicationProofs --------------------------
(***************************************************************************)
(* The coverage history never loses a better snapshot, for any number of   *)
(* workflow runs, targets and days, in every order of finishing and        *)
(* publishing and with publications failing at any step.                   *)
(***************************************************************************)
EXTENDS Publication, FiniteSetTheorems, TLAPS

History == [Keys -> Snapshot \union {None}]

\* h holds, for every key, the best of the snapshots S.
Best(h, S) ==
    /\ \A k \in Keys : h[k] # None => h[k] \in S /\ KeyOf(h[k]) = k
    /\ \A s \in S : h[KeyOf(s)] # None /\ AtMost(s, h[KeyOf(s)])

OfRun(r) == {s \in artifacts : s.run = r}

PubStates == {"none", "pending", "restore", "update", "save", "deploy", "done", "failed",
              "replaced", "skipped"}

TypeInv ==
    /\ artifacts \subseteq Snapshot
    /\ now \in Times
    /\ branch \in History /\ local \in History /\ site \in History
    /\ pub \in [Runs -> PubStates]
    /\ job \in [Runs -> [Targets -> {"waiting", "running", "cancelled", "ended", "dropped"}]]

\* One publication at a time, of a run whose jobs record nothing any more.
GroupInv ==
    /\ \A r \in Publishing : JobsOver(r)
    /\ \A r, q \in Publishing : r = q

\* The running publication has merged what it took off todo.
MergeInv ==
    \A r \in Runs :
        /\ pub[r] = "update" =>
              todo \subseteq OfRun(r) /\ Best(local, published \union (OfRun(r) \ todo))
        /\ pub[r] = "save" => Best(local, published \union OfRun(r))
        /\ pub[r] = "deploy" => local = branch
        /\ pub[r] = "restore" => todo = OfRun(r)

BranchInv == published \subseteq artifacts /\ Best(branch, published)

Inv == TypeInv /\ GroupInv /\ MergeInv /\ BranchInv

-----------------------------------------------------------------------------
\* Types of snapshots and keys.
LEMMA SnapshotFacts ==
    /\ None \notin Snapshot
    /\ \A s \in Snapshot : /\ KeyOf(s) \in Keys
                           /\ s.complete \in {0, 1} /\ s.time \in Nat /\ s.run \in Runs
PROOF
<1>1. None \notin Snapshot
  BY DEF None, Snapshot
<1>2. ASSUME NEW s \in Snapshot
      PROVE  /\ KeyOf(s) \in Keys
             /\ s.complete \in {0, 1} /\ s.time \in Nat /\ s.run \in Runs
  <2>1. s.target \in Targets /\ s.time \in Times /\ s.complete \in {0, 1} /\ s.run \in Runs
    BY DEF Snapshot
  <2>2. utcDay(s.time) \in Days
    BY <2>1 DEF utcDay, Days
  <2>3. s.time \in Nat
    BY <2>1, PublicationAssumption DEF Times
  <2> QED
    BY <2>1, <2>2, <2>3 DEF KeyOf, Keys
<1> QED
  BY <1>1, <1>2

\* daily() adds one snapshot to what the history is the best of.
LEMMA DailyBest ==
    ASSUME NEW h \in History, NEW S \in SUBSET Snapshot, NEW e \in Snapshot, Best(h, S)
    PROVE  daily(h, e) \in History /\ Best(daily(h, e), S \union {e})
PROOF
<1> DEFINE k == KeyOf(e)
           g == daily(h, e)
<1>0. k \in Keys /\ e # None /\ e.complete \in {0, 1} /\ e.time \in Nat
  BY SnapshotFacts
<1>1. CASE Replaces(e, h[k])
  <2>1. g = [h EXCEPT ![k] = e]
    BY <1>1 DEF daily
  <2>2. g \in History /\ g[k] = e /\ \A j \in Keys : j # k => g[j] = h[j]
    BY <2>1, <1>0 DEF History
  <2>3. \A j \in Keys : g[j] # None => g[j] \in S \union {e} /\ KeyOf(g[j]) = j
    BY <2>2 DEF Best
  <2>4. ASSUME NEW s \in S \union {e}
        PROVE  g[KeyOf(s)] # None /\ AtMost(s, g[KeyOf(s)])
    <3>1. CASE s = e
      BY <3>1, <2>2, <1>0 DEF AtMost
    <3>2. CASE s \in S /\ KeyOf(s) # k
      <4>1. KeyOf(s) \in Keys
        BY <3>2, SnapshotFacts
      <4> QED
        BY <3>2, <4>1, <2>2 DEF Best
    <3>3. CASE s \in S /\ KeyOf(s) = k
      <4>1. h[k] # None /\ AtMost(s, h[k]) /\ h[k] \in S
        BY <3>3, <1>0 DEF Best
      <4>2. h[k].complete \in {0, 1} /\ h[k].time \in Nat
        BY <4>1, SnapshotFacts
      <4>3. s.complete \in {0, 1} /\ s.time \in Nat
        BY <3>3, SnapshotFacts
      <4>4. e.complete > h[k].complete \/ (e.complete = h[k].complete /\ e.time >= h[k].time)
        BY <1>1, <4>1 DEF Replaces
      <4>5. AtMost(s, e)
        BY <4>1, <4>2, <4>3, <4>4, <1>0 DEF AtMost
      <4> QED
        BY <4>5, <3>3, <2>2, <1>0
    <3> QED
      BY <3>1, <3>2, <3>3
  <2> QED
    BY <2>2, <2>3, <2>4 DEF Best
<1>2. CASE ~Replaces(e, h[k])
  <2>1. g = h
    BY <1>2 DEF daily
  <2>2. h[k] # None /\ h[k] \in S
    BY <1>2, <1>0 DEF Replaces, Best
  <2>3. h[k].complete \in {0, 1} /\ h[k].time \in Nat
    BY <2>2, SnapshotFacts
  <2>4. AtMost(e, h[k])
    BY <1>2, <2>3, <1>0 DEF Replaces, AtMost
  <2> QED
    BY <2>1, <2>2, <2>4 DEF Best
<1> QED
  BY <1>1, <1>2

-----------------------------------------------------------------------------
LEMMA InitInv == Init => Inv
PROOF
<1> SUFFICES ASSUME Init PROVE Inv
  OBVIOUS
<1>1. TypeInv
  BY PublicationAssumption DEF Init, TypeInv, History, Empty, PubStates, Times
<1>2. GroupInv
  BY DEF Init, GroupInv, Publishing
<1>3. MergeInv
  BY DEF Init, MergeInv
<1>4. BranchInv
  BY DEF Init, BranchInv, Best, Empty
<1> QED
  BY <1>1, <1>2, <1>3, <1>4 DEF Inv

\* A step of a compatibility job leaves the publication's own state alone.
LEMMA JobStep ==
    ASSUME Inv, TypeInv', UNCHANGED <<pub, todo, local, branch, site, published>>,
           artifacts \subseteq artifacts',
           \A r \in Publishing : JobsOver(r)' /\ OfRun(r)' = OfRun(r)
    PROVE  Inv'
PROOF
<1>1. GroupInv'
  BY DEF Inv, GroupInv, Publishing
<1>2. MergeInv'
  <2> SUFFICES ASSUME NEW r \in Runs
      PROVE (/\ pub[r] = "update" =>
                   todo \subseteq OfRun(r) /\ Best(local, published \union (OfRun(r) \ todo))
             /\ pub[r] = "save" => Best(local, published \union OfRun(r))
             /\ pub[r] = "deploy" => local = branch
             /\ pub[r] = "restore" => todo = OfRun(r))'
    BY DEF MergeInv
  <2>1. CASE r \in Publishing
    <3>1. OfRun(r)' = OfRun(r)
      BY <2>1
    <3> QED
      BY <3>1 DEF Inv, MergeInv, Best
  <2>2. CASE r \notin Publishing
    BY <2>2 DEF Publishing
  <2> QED
    BY <2>1, <2>2
<1>3. BranchInv'
  BY DEF Inv, BranchInv, Best
<1> QED
  BY <1>1, <1>2, <1>3 DEF Inv

LEMMA StepInv == Inv /\ [Next]_vars => Inv'
PROOF
<1> SUFFICES ASSUME Inv, [Next]_vars PROVE Inv'
  OBVIOUS
<1> USE DEF Inv
<1>1. CASE Tick
  <2>1. TypeInv'
    BY <1>1, PublicationAssumption DEF Tick, TypeInv, Times
  <2> QED
    BY <1>1, <2>1, JobStep DEF Tick, JobsOver, OfRun, GroupInv
<1>2. ASSUME NEW r \in Runs, NEW t \in Targets, StartJob(r, t) PROVE Inv'
  <2>1. TypeInv'
    BY <1>2 DEF StartJob, TypeInv
  <2>2. ASSUME NEW q \in Publishing PROVE JobsOver(q)' /\ OfRun(q)' = OfRun(q)
    <3>1. q \in Runs /\ JobsOver(q)
      BY DEF Publishing, GroupInv
    <3>2. q # r
      BY <3>1, <1>2 DEF StartJob, JobsOver
    <3>3. job'[q] = job[q]
      <4>1. job[q][t] # "running"
        BY <3>1 DEF JobsOver
      <4> QED
        BY <3>1, <3>2, <4>1, <1>2 DEF StartJob
    <3> QED
      BY <3>1, <3>3, <1>2 DEF JobsOver, OfRun, StartJob
  <2> QED
    BY <1>2, <2>1, <2>2, JobStep DEF StartJob
<1>3. ASSUME NEW r \in Runs, NEW t \in Targets, Record(r, t) \/ NoRecord(r, t) PROVE Inv'
  <2>0. /\ job[r][t] \in {"running", "cancelled"}
        /\ \E x \in {"ended", "dropped"} : job' = [job EXCEPT ![r][t] = x]
        /\ \/ artifacts' = artifacts
           \/ \E c \in {0, 1} : artifacts' = artifacts \union
                 {[run |-> r, target |-> t, time |-> now, complete |-> c]}
        /\ UNCHANGED <<now, pub, todo, local, branch, site, published>>
    BY <1>3, Zenon DEF Record, NoRecord
  <2>1. TypeInv'
    <3>1. artifacts' \subseteq Snapshot
      BY <2>0 DEF TypeInv, Snapshot
    <3>2. job' \in [Runs -> [Targets -> {"waiting", "running", "cancelled", "ended", "dropped"}]]
      BY <2>0 DEF TypeInv
    <3> QED
      BY <3>1, <3>2, <2>0 DEF TypeInv
  <2>2. ASSUME NEW q \in Publishing PROVE JobsOver(q)' /\ OfRun(q)' = OfRun(q)
    <3>1. q \in Runs /\ JobsOver(q)
      BY DEF Publishing, GroupInv
    <3>2. q # r
      BY <3>1, <2>0 DEF JobsOver
    <3>3. job'[q] = job[q]
      BY <3>1, <3>2, <2>0 DEF TypeInv
    <3>4. OfRun(q)' = OfRun(q)
      BY <3>2, <2>0 DEF OfRun
    <3> QED
      BY <3>1, <3>3, <3>4 DEF JobsOver
  <2>3. artifacts \subseteq artifacts'
    BY <2>0
  <2> QED
    BY <2>0, <2>1, <2>2, <2>3, JobStep
<1>4. ASSUME NEW r \in Runs, Begin(r) PROVE Inv'
  <2>1. /\ JobsOver(r) /\ Publishing = {}
        /\ pub' = [pub EXCEPT ![r] = "restore"]
        /\ todo' = OfRun(r)
        /\ UNCHANGED <<jobs, local, branch, site, published>>
    BY <1>4 DEF Begin, OfRun
  <2>2. TypeInv'
    BY <2>1 DEF TypeInv, jobs, PubStates
  <2>3. Publishing' = {r}
    BY <2>1 DEF Publishing, TypeInv
  <2>4. GroupInv'
    BY <2>1, <2>3 DEF GroupInv, JobsOver, jobs
  <2>5. MergeInv'
    BY <2>1, <2>3 DEF MergeInv, Publishing, OfRun, jobs, TypeInv
  <2>6. BranchInv'
    BY <2>1 DEF BranchInv, Best, jobs
  <2> QED
    BY <2>2, <2>4, <2>5, <2>6
<1>5. ASSUME NEW r \in Runs, Enqueue(r) \/ Skip(r) PROVE Inv'
  <2>1. TypeInv'
    BY <1>5 DEF Enqueue, Skip, TypeInv, jobs, PubStates
  <2>2. /\ UNCHANGED <<jobs, todo, local, branch, site, published>>
        /\ Publishing' = Publishing
        /\ \A q \in Publishing : pub'[q] = pub[q]
    BY <1>5 DEF Enqueue, Skip, Publishing, Pending, TypeInv
  <2>3. GroupInv'
    BY <2>2 DEF GroupInv, JobsOver, jobs
  <2>4. MergeInv'
    BY <2>2 DEF MergeInv, Publishing, OfRun, Best, jobs
  <2>5. BranchInv'
    BY <2>2 DEF BranchInv, Best, jobs
  <2> QED
    BY <2>1, <2>3, <2>4, <2>5
<1>6. ASSUME NEW r \in Runs, Restore(r) PROVE Inv'
  <2>1. r \in Publishing /\ pub[r] = "restore"
    BY <1>6 DEF Restore, Publishing
  <2>2. TypeInv'
    BY <1>6 DEF Restore, TypeInv, jobs, PubStates
  <2>3. Publishing' = Publishing /\ Publishing = {r}
    BY <1>6, <2>1 DEF Restore, Publishing, TypeInv, GroupInv
  <2>4. GroupInv'
    BY <1>6, <2>3 DEF GroupInv, JobsOver, jobs, Restore
  <2>5. MergeInv'
    <3>1. todo' = OfRun(r)' /\ OfRun(r)' = OfRun(r) /\ local' = branch /\ published' = published
      BY <1>6, <2>1 DEF MergeInv, Restore, OfRun, jobs
    <3>2. Best(local', published')
      BY <3>1 DEF BranchInv, Best
    <3>3. published' \union (OfRun(r)' \ todo') = published'
      BY <3>1
    <3>4. pub'[r] = "update"
      BY <1>6 DEF Restore, TypeInv
    <3>5. Best(local', published' \union (OfRun(r)' \ todo'))
      BY <3>2, <3>3
    <3>6. ASSUME NEW q \in Runs, q # r
          PROVE  pub'[q] \notin {"restore", "update", "save", "deploy"}
      BY <3>6, <2>3 DEF Publishing
    <3> QED
      BY <3>1, <3>4, <3>5, <3>6 DEF MergeInv, Best, OfRun
  <2>6. BranchInv'
    BY <1>6 DEF BranchInv, Best, jobs, Restore
  <2> QED
    BY <2>2, <2>4, <2>5, <2>6
<1>7. ASSUME NEW r \in Runs, Update(r) PROVE Inv'
  <2>0. PICK s \in todo : /\ local' = daily(local, s)
                          /\ todo' = todo \ {s}
                          /\ pub' = [pub EXCEPT ![r] = IF todo = {s} THEN "save" ELSE @]
    BY <1>7 DEF Update
  <2>1. r \in Publishing /\ pub[r] = "update" /\ UNCHANGED <<jobs, branch, site, published>>
    BY <1>7 DEF Update, Publishing
  <2>a. /\ todo \subseteq OfRun(r) /\ Best(local, published \union (OfRun(r) \ todo))
        /\ OfRun(r) \subseteq Snapshot /\ published \subseteq Snapshot
    BY <2>1 DEF MergeInv, TypeInv, BranchInv, OfRun
  <2>b. local' \in History /\ Best(local', (published \union (OfRun(r) \ todo)) \union {s})
    BY <2>0, <2>a, DailyBest DEF TypeInv
  <2>2. TypeInv'
    BY <2>0, <2>1, <2>b DEF TypeInv, jobs, PubStates
  <2>3. pub'[r] \in {"update", "save"} /\ (pub'[r] = "save" => todo = {s})
    BY <2>0, <2>1 DEF TypeInv
  <2>4. ASSUME NEW q \in Runs, q # r
        PROVE  pub'[q] = pub[q] /\ pub[q] \notin {"restore", "update", "save", "deploy"}
    BY <2>0, <2>1, <2>4 DEF TypeInv, GroupInv, Publishing
  <2>5. Publishing' = {r}
    BY <2>3, <2>4 DEF Publishing
  <2>6. GroupInv'
    BY <2>1, <2>5 DEF GroupInv, JobsOver, jobs
  <2>7. MergeInv'
    <3>1. OfRun(r)' = OfRun(r) /\ published' = published
      BY <2>1 DEF OfRun, jobs
    <3>2. (published \union (OfRun(r) \ todo)) \union {s} = published \union (OfRun(r) \ todo')
      BY <2>0, <2>a
    <3>3. Best(local', published' \union (OfRun(r)' \ todo'))
      BY <2>b, <3>1, <3>2
    <3>4. pub'[r] = "save" => todo' = {}
      BY <2>0, <2>3
    <3>5. pub'[r] = "save" => Best(local', published' \union OfRun(r)')
      <4>1. ASSUME todo' = {} PROVE published' \union (OfRun(r)' \ todo') = published' \union OfRun(r)'
        BY <4>1
      <4> QED
        BY <4>1, <3>3, <3>4
    <3>6. todo' \subseteq OfRun(r)'
      BY <2>0, <2>a, <3>1
    <3> QED
      BY <3>3, <3>5, <3>6, <2>3, <2>4 DEF MergeInv, Best, OfRun
  <2>8. BranchInv'
    BY <2>1 DEF BranchInv, Best, jobs
  <2> QED
    BY <2>2, <2>6, <2>7, <2>8
<1>8. ASSUME NEW r \in Runs, Save(r) PROVE Inv'
  <2>1. /\ r \in Publishing /\ pub[r] = "save" /\ UNCHANGED <<jobs, todo, local, site>>
        /\ branch' = local /\ published' = published \union OfRun(r)
        /\ pub' = [pub EXCEPT ![r] = "deploy"]
    BY <1>8 DEF Save, Publishing, OfRun
  <2>2. TypeInv'
    BY <2>1 DEF TypeInv, jobs, PubStates
  <2>3. Publishing' = {r} /\ pub'[r] = "deploy"
    BY <2>1 DEF Publishing, TypeInv, GroupInv
  <2>4. GroupInv'
    BY <2>1, <2>3 DEF GroupInv, JobsOver, jobs
  <2>5. MergeInv'
    BY <2>1, <2>3 DEF MergeInv, Publishing
  <2>6. BranchInv'
    BY <2>1 DEF BranchInv, MergeInv, Best, jobs, OfRun
  <2> QED
    BY <2>2, <2>4, <2>5, <2>6
<1>9. ASSUME NEW r \in Runs, Deploy(r) \/ NothingToMerge(r) \/ Fail(r) PROVE Inv'
  <2>1. /\ r \in Publishing /\ UNCHANGED <<jobs, branch, published>>
        /\ pub'[r] \in {"done", "failed"} /\ \A q \in Runs : q # r => pub'[q] = pub[q]
    BY <1>9 DEF Deploy, NothingToMerge, Fail, Publishing, TypeInv
  <2>2. TypeInv'
    BY <1>9 DEF Deploy, NothingToMerge, Fail, TypeInv, jobs, PubStates, History, Empty
  <2>3. Publishing' = {}
    BY <2>1 DEF Publishing, GroupInv
  <2>4. GroupInv'
    BY <2>3 DEF GroupInv
  <2>5. MergeInv'
    BY <2>3 DEF MergeInv, Publishing
  <2>6. BranchInv'
    BY <2>1 DEF BranchInv, Best, jobs
  <2> QED
    BY <2>2, <2>4, <2>5, <2>6
<1>10. CASE UNCHANGED vars
  BY <1>10 DEF vars, jobs, TypeInv, GroupInv, MergeInv, BranchInv, Publishing, JobsOver, OfRun, Best
<1> QED
  BY <1>1, <1>2, <1>3, <1>4, <1>5, <1>6, <1>7, <1>8, <1>9, <1>10 DEF Next, Publish, Finished

\* The inductive invariant implies the property of the runs.
LEMMA InvBest == Inv => BranchIsBest
PROOF
<1> SUFFICES ASSUME Inv, NEW s \in published
             PROVE  /\ branch[KeyOf(s)] \in published
                    /\ branch[KeyOf(s)].complete >= s.complete
                    /\ branch[KeyOf(s)].complete = s.complete => branch[KeyOf(s)].time >= s.time
  BY DEF BranchIsBest
<1>1. s \in Snapshot
  BY DEF Inv, BranchInv, TypeInv
<1>2. KeyOf(s) \in Keys
  BY <1>1, SnapshotFacts
<1> QED
  BY <1>2 DEF Inv, BranchInv, Best, AtMost

\* The branch always holds the best snapshot ever pushed, for each target and day
\* (history.ts daily(), compatibility.yml coverage-pages).
THEOREM BranchHoldsTheBest == Spec => []BranchIsBest
PROOF
<1>1. Spec => []Inv
  BY InitInv, StepInv, PTL DEF Spec
<1> QED
  BY <1>1, InvBest, PTL

\* No step takes an entry off the branch or replaces it by a worse one.
LEMMA StepPersists ==
    Inv /\ [Next]_vars =>
        \A k \in Keys : branch[k] # None =>
          /\ branch'[k] # None
          /\ branch'[k].complete >= branch[k].complete
          /\ branch'[k].complete = branch[k].complete => branch'[k].time >= branch[k].time
PROOF
<1> SUFFICES ASSUME Inv, [Next]_vars, NEW k \in Keys, branch[k] # None
             PROVE  branch'[k] # None /\ AtMost(branch[k], branch'[k])
  BY DEF AtMost
<1>0. branch[k] \in published /\ KeyOf(branch[k]) = k
  BY DEF Inv, BranchInv, Best
<1>1. CASE \E r \in Runs : Save(r)
  <2>1. PICK r \in Runs : Save(r)
    BY <1>1
  <2>2. branch' = local /\ Best(local, published \union OfRun(r))
    BY <2>1 DEF Save, Inv, MergeInv
  <2> QED
    BY <2>2, <1>0 DEF Best
<1>2. CASE branch' = branch
  <2>1. branch[k].complete \in {0, 1} /\ branch[k].time \in Nat
    BY <1>0, SnapshotFacts DEF Inv, BranchInv, TypeInv
  <2> QED
    BY <1>2, <2>1 DEF AtMost
<1>3. (\E r \in Runs : Save(r)) \/ branch' = branch
  BY DEF Next, Publish, Tick, Finished, Enqueue, Begin, Restore, Update, NothingToMerge,
         Deploy, Skip, Fail, StartJob, Record, NoRecord, vars
<1> QED
  BY <1>1, <1>2, <1>3

\* Snapshots persist on the coverage-history branch (docs/ci.md, "Published results").
THEOREM SnapshotsPersist == Spec => Persists
PROOF
<1>1. Spec => []Inv
  BY InitInv, StepInv, PTL DEF Spec
<1>2. Inv /\ [Next]_vars =>
        [\A k \in Keys : branch[k] # None =>
          /\ branch'[k] # None
          /\ branch'[k].complete >= branch[k].complete
          /\ branch'[k].complete = branch[k].complete => branch'[k].time >= branch[k].time]_vars
  BY StepPersists
<1> QED
  BY <1>1, <1>2, PTL DEF Spec, Persists

\* A push is one batch of the abstract history, a deployment shows what is on the branch,
\* and every other step leaves both alone.
LEMMA StepDurable ==
    Inv /\ [Next]_vars => [Durable!Accept \/ Durable!Show]_(Durable!vars)
PROOF
<1> SUFFICES ASSUME Inv, [Next]_vars PROVE [Durable!Accept \/ Durable!Show]_(Durable!vars)
  OBVIOUS
<1>1. CASE \E r \in Runs : Save(r)
  <2>1. PICK r \in Runs : Save(r)
    BY <1>1
  <2>2. branch' = local /\ published' = published \union OfRun(r) /\ site' = site
    BY <2>1 DEF Save, OfRun
  <2>3. Best(local, published \union OfRun(r))
    BY <2>1 DEF Save, Inv, MergeInv
  <2>4. Durable!Holds(branch', published')
    BY <2>2, <2>3 DEF Best, Durable!Holds
  <2> QED
    BY <2>2, <2>4 DEF Durable!Accept
<1>2. CASE \E r \in Runs : Deploy(r)
  <2>1. PICK r \in Runs : Deploy(r)
    BY <1>2
  <2>2. local = branch
    BY <2>1 DEF Deploy, Inv, MergeInv
  <2> QED
    BY <2>1, <2>2 DEF Deploy, Durable!Show
<1>3. CASE UNCHANGED <<branch, site, published>>
  BY <1>3 DEF Durable!vars
<1>4. (\E r \in Runs : Save(r)) \/ (\E r \in Runs : Deploy(r)) \/ UNCHANGED <<branch, site, published>>
  BY DEF Next, Publish, Tick, Finished, Enqueue, Begin, Restore, Update, NothingToMerge,
         Skip, Fail, StartJob, Record, NoRecord, vars
<1> QED
  BY <1>1, <1>2, <1>3, <1>4

\* The publication jobs of compatibility.yml implement the durable history, for any number
\* of runs, targets and days, in every order of finishing, failing and publishing.
THEOREM PublicationImplements == Spec => ImplementsDurable
PROOF
<1>1. Spec => []Inv
  BY InitInv, StepInv, PTL DEF Spec
<1>2. Init => Durable!Init
  BY DEF Init, Durable!Init, Empty
<1>3. Inv /\ [Next]_vars => [Durable!Accept \/ Durable!Show]_(Durable!vars)
  BY StepDurable
<1> QED
  BY <1>1, <1>2, <1>3, PTL DEF Spec, ImplementsDurable, Durable!Spec

-----------------------------------------------------------------------------
\* The histories hold recorded snapshots under their own keys.
Recorded(h, S) == \A k \in Keys : h[k] # None => h[k] \in S /\ KeyOf(h[k]) = k

ShownInv ==
    /\ todo \subseteq artifacts
    /\ Recorded(local, artifacts) /\ Recorded(branch, artifacts) /\ Recorded(site, artifacts)

LEMMA InitShown == Init => ShownInv
PROOF
  BY DEF Init, ShownInv, Recorded, Empty

\* Only Save() writes the branch, only Deploy() the site.
LEMMA Writers ==
    ASSUME [Next]_vars
    PROVE  /\ (\E r \in Runs : Save(r)) \/ branch' = branch
           /\ (\E r \in Runs : Deploy(r)) \/ site' = site
PROOF
  BY DEF Next, Publish, Tick, Finished, Enqueue, Begin, Restore, Update, NothingToMerge,
         Save, Deploy, Skip, Fail, StartJob, Record, NoRecord, vars

LEMMA StepShown == Inv /\ ShownInv /\ [Next]_vars => ShownInv'
PROOF
<1> SUFFICES ASSUME Inv, ShownInv, [Next]_vars PROVE ShownInv'
  OBVIOUS
<1>1. artifacts \subseteq artifacts'
  BY DEF Next, Publish, Tick, Finished, Enqueue, Begin, Restore, Update, NothingToMerge,
         Save, Deploy, Skip, Fail, StartJob, Record, NoRecord, vars, jobs
<1>2. \A h : Recorded(h, artifacts) => Recorded(h, artifacts')
  BY <1>1 DEF Recorded
<1>3. Recorded(Empty, artifacts)
  BY DEF Recorded, Empty
<1>4. todo' \subseteq artifacts'
  <2>1. todo' \subseteq todo \/ \E r \in Runs : todo' = OfRun(r)
    BY DEF Next, Publish, Tick, Finished, Enqueue, Begin, Restore, Update, NothingToMerge,
           Save, Deploy, Skip, Fail, StartJob, Record, NoRecord, vars, OfRun
  <2> QED
    BY <1>1, <2>1 DEF ShownInv, OfRun
<1>5. \/ local' \in {local, branch, Empty}
      \/ \E s \in todo : local' = daily(local, s)
  BY DEF Next, Publish, Tick, Finished, Enqueue, Begin, Restore, Update, NothingToMerge,
         Save, Deploy, Skip, Fail, StartJob, Record, NoRecord, vars
<1>6. ASSUME NEW s \in todo PROVE Recorded(daily(local, s), artifacts)
  <2>1. s \in artifacts /\ s \in Snapshot /\ KeyOf(s) \in Keys /\ local \in History
    BY SnapshotFacts DEF ShownInv, Inv, TypeInv
  <2>2. \A k \in Keys : daily(local, s)[k] = local[k] \/ (k = KeyOf(s) /\ daily(local, s)[k] = s)
    BY <2>1 DEF daily, History
  <2> QED
    BY <2>1, <2>2 DEF Recorded, ShownInv
<1>7. Recorded(local', artifacts')
  BY <1>2, <1>3, <1>5, <1>6 DEF ShownInv
<1>8. Recorded(branch', artifacts')
  BY <1>2, Writers DEF ShownInv, Save
<1>9. Recorded(site', artifacts')
  BY <1>2, Writers DEF ShownInv, Deploy
<1> QED
  BY <1>4, <1>7, <1>8, <1>9 DEF ShownInv, Recorded

LEMMA ShownAlways == Spec => [](Inv /\ ShownInv)
PROOF
<1>1. Init => Inv /\ ShownInv
  BY InitInv, InitShown
<1>2. (Inv /\ ShownInv) /\ [Next]_vars => (Inv /\ ShownInv)'
  BY StepInv, StepShown
<1> QED
  BY <1>1, <1>2, PTL DEF Spec

\* The types of Publication.tla: every entry of a history is a recorded snapshot under its
\* own target and day, and the concurrency group lets one publication run at a time
\* (compatibility.yml:191-193), for any number of runs, targets and days.
THEOREM PublicationTypes == Spec => []TypeOK
PROOF
<1>1. Inv /\ ShownInv => TypeOK
  <2> SUFFICES ASSUME Inv, ShownInv PROVE TypeOK
    OBVIOUS
  <2>1. Cardinality(Publishing) <= 1
    <3>1. CASE Publishing = {}
      BY <3>1, FS_EmptySet
    <3>2. CASE Publishing # {}
      <4>1. PICK r \in Publishing : TRUE
        BY <3>2
      <4>2. Publishing = {r}
        BY <4>1 DEF Inv, GroupInv
      <4>3. Cardinality({r}) = 1
        BY FS_Singleton
      <4> QED
        BY <4>2, <4>3
    <3> QED
      BY <3>1, <3>2
  <2>2. published \subseteq artifacts /\ artifacts \subseteq Snapshot /\ now \in Times
    BY DEF Inv, BranchInv, TypeInv
  <2> QED
    BY <2>1, <2>2 DEF TypeOK, ShownInv, Recorded
<1> QED
  BY <1>1, ShownAlways, PTL
=============================================================================
