-------------------------- MODULE ScenariosProofs --------------------------
(***************************************************************************)
(* Proofs about the scenarios for every set of programs: the types of the  *)
(* state.                                                                  *)
(***************************************************************************)
EXTENDS Scenarios, TLAPS

-----------------------------------------------------------------------------
\* The outcomes of a command.

\* A set of outcomes, whatever they are.
IsOutcome(o) ==
    \E status \in {"ok", "refused"} : \E why, w, plan, new, done :
        o = Outcome(status, why, w, plan, new, done)
Outcomes(S) == \A o \in S : IsOutcome(o)

LEMMA DoneGives == \A w, f, ops : Outcomes(Done(w, f, ops))
BY DEF Outcomes, IsOutcome, Done

LEMMA RefusalGives == \A w, why, plan, new : Outcomes(Refusal(w, why, plan, new))
BY DEF Outcomes, IsOutcome, Refusal

\* An outcome in another state, with another reason or another status, is an outcome.
LEMMA OutcomeChanged ==
    ASSUME NEW o, IsOutcome(o)
    PROVE  /\ \A w : IsOutcome([o EXCEPT !.world = w])
           /\ \A why : IsOutcome([o EXCEPT !.why = why])
           /\ \A status \in {"ok", "refused"} : IsOutcome([o EXCEPT !.status = status])
           /\ o.status \in {"ok", "refused"} /\ [o EXCEPT !.why = o.why] = o
<1>1. PICK status \in {"ok", "refused"} : \E why, v, plan, new, done : o = Outcome(status, why, v, plan, new, done)
  BY DEF IsOutcome
<1>2. PICK why, v, plan, new, done : o = Outcome(status, why, v, plan, new, done)
  BY <1>1
<1> USE DEF Outcome
<1>3. \A w : [o EXCEPT !.world = w] = Outcome(status, why, w, plan, new, done)
  BY <1>2
<1>4. \A y : [o EXCEPT !.why = y] = Outcome(status, y, v, plan, new, done)
  BY <1>2
<1>5. \A t : [o EXCEPT !.status = t] = Outcome(t, why, v, plan, new, done)
  BY <1>2
<1>6. o.status = status /\ o.why = why
  BY <1>2
<1> HIDE DEF Outcome
<1>7. \A y, w : \A t \in {"ok", "refused"} : IsOutcome(Outcome(t, y, w, plan, new, done))
  BY DEF IsOutcome
<1>8. \A w : IsOutcome([o EXCEPT !.world = w])
  <2> TAKE w
  <2>1. [o EXCEPT !.world = w] = Outcome(status, why, w, plan, new, done)
    BY <1>3
  <2>2. IsOutcome(Outcome(status, why, w, plan, new, done))
    BY <1>1, <1>7
  <2> QED
    BY <2>1, <2>2, Zenon
<1>9. \A y : IsOutcome([o EXCEPT !.why = y])
  <2> TAKE y
  <2>1. [o EXCEPT !.why = y] = Outcome(status, y, v, plan, new, done)
    BY <1>4
  <2>2. IsOutcome(Outcome(status, y, v, plan, new, done))
    BY <1>1, <1>7
  <2> QED
    BY <2>1, <2>2, Zenon
<1>10. \A t \in {"ok", "refused"} : IsOutcome([o EXCEPT !.status = t])
  <2> TAKE t \in {"ok", "refused"}
  <2>1. [o EXCEPT !.status = t] = Outcome(t, why, v, plan, new, done)
    BY <1>5
  <2>2. IsOutcome(Outcome(t, why, v, plan, new, done))
    BY <1>1, <1>7
  <2> QED
    BY <2>1, <2>2, Zenon
<1>11. [o EXCEPT !.why = o.why] = o
  BY <1>2, <1>4, <1>6
<1> QED
  BY <1>1, <1>6, <1>8, <1>9, <1>10, <1>11

LEMMA InstallsGives == \A w, c : Outcomes(Installs(w, c))
BY DoneGives, RefusalGives DEF Installs

LEMMA UpdatingGives == \A w, c : Outcomes(Updating(w, c))
<1> SUFFICES ASSUME NEW w, NEW c PROVE Outcomes(Updating(w, c))
  OBVIOUS
<1> DEFINE
      s == Home(w, c.scope)
      named == IF c.ref = "all" THEN Installed(w, c.scope)
               ELSE Named(c, {"native", "foreign"})
      commit(t) == IF c.arg # "none" THEN c.arg
                   ELSE IF "no-pull" \in c.opts THEN At(w, <<"cache", s, t>>)
                   ELSE Tip(w, c.scope, c.remote, t)
      eligible == {t \in named : ~Excluded(c, t) /\ Lacks(w, <<"mask", s, t>>)
                                 /\ Lacks(w, <<"disabled", s, c.remote>>)}
      changed == {t \in eligible : commit(t) # At(w, <<"at", s, t>>)}
      deps == IF "no-deps" \in c.opts THEN {}
              ELSE (UNION {Needs(t) : t \in changed}) \ Installed(w, c.scope)
      all == changed \union deps
      deployed == IF "no-deploy" \in c.opts THEN <<>>
                  ELSE [k \in {<<"at", s, t>> : t \in all} |-> commit(k[3])]
      pulled == [k \in {<<"cache", s, t>> : t \in all} |-> commit(k[3])]
      local == {"no-pull", "sideload"} \intersect c.opts # {}
      traffic == IF local \/ all = {} THEN <<>>
                 ELSE <<"env", "payload">> :> "fetched"
      plan == Sequence(deps, changed)
<1> DEFINE replaced == (<<"at", s, "second">> :> commit("second")) @@ (<<"at", s, "first">> :> "none")
      updated == deployed @@ pulled @@ traffic
      denied == Denied @@ w
      absent == c.ref \in Refs /\ c.ref \notin Installed(w, c.scope)
      cancelled == "cancel" \in c.opts /\ changed # {}
      blocked == ~local /\ \E t \in changed : At(w, <<"blocked", t>>) = "yes"
      rebased == "rebase" \in c.opts /\ plan = <<"first">>
<1>1. Updating(w, c) =
          IF absent THEN Refusal(w, "absent", <<>>, <<>>)
          ELSE IF "abort" \in c.opts THEN Refusal(w, "aborted", plan, <<>>)
          ELSE IF cancelled THEN Refusal(w, "cancelled", plan, plan)
          ELSE IF blocked THEN Refusal(denied, "payload", plan, plan)
          ELSE IF rebased THEN Done(w, replaced, <<"second", "first">>)
          ELSE Done(w, updated, plan)
  BY Zenon DEF Updating
<1> HIDE DEF replaced, updated, denied, absent, cancelled, blocked, rebased, plan
<1> QED
  BY <1>1, DoneGives, RefusalGives

LEMMA UninstallsGives == \A w, c : Outcomes(Uninstalls(w, c))
BY DoneGives, RefusalGives DEF Uninstalls

LEMMA PreinstallsGives == \A w, c : Outcomes(Preinstalls(w, c))
BY DoneGives, RefusalGives DEF Preinstalls

LEMMA RebasesGives == \A w, c : Outcomes(Rebases(w, c))
BY DoneGives, RefusalGives DEF Rebases

LEMMA PullsGives == \A w, c : Outcomes(Pulls(w, c))
BY DoneGives, RefusalGives DEF Pulls

LEMMA UpdateInstallsGives == \A w, c : Outcomes(UpdateInstalls(w, c))
<1>1. \A status \in {"ok", "refused"} : \A w, plan, new, done :
          IsOutcome(Outcome(status, "payload", w, plan, new, done))
  BY DEF IsOutcome
<1> QED
  BY <1>1, RefusalGives DEF UpdateInstalls, Outcomes

LEMMA InstallsFromGives == \A w, c : Outcomes(InstallsFrom(w, c))
<1> SUFFICES ASSUME NEW w, NEW c PROVE Outcomes(InstallsFrom(w, c))
  OBVIOUS
<1> DEFINE remote == <<"remote", Home(w, c.scope), c.remote>>
           all == Installs((remote :> "server") @@ w, [c EXCEPT !.opts = @ \ {"decline"}])
           kept == {IF o.status = "ok" THEN o ELSE [o EXCEPT !.world = w] : o \in all}
           moved == {[o EXCEPT !.world = (remote :> At(w, remote)) @@ @] : o \in kept}
<1>1. Outcomes(all)
  BY InstallsGives
<1>2. Outcomes(kept)
  <2> SUFFICES ASSUME NEW x \in kept PROVE IsOutcome(x)
    BY DEF Outcomes
  <2>1. PICK o \in all : x = IF o.status = "ok" THEN o ELSE [o EXCEPT !.world = w]
    OBVIOUS
  <2>2. IsOutcome(o)
    BY <1>1 DEF Outcomes
  <2>3. IsOutcome([o EXCEPT !.world = w])
    BY <2>2, OutcomeChanged, Zenon
  <2>4. CASE o.status = "ok"
    <3>1. x = o
      BY <2>1, <2>4, Zenon
    <3> QED
      BY <2>2, <3>1
  <2>5. CASE o.status # "ok"
    <3>1. x = [o EXCEPT !.world = w]
      BY <2>1, <2>5, Zenon
    <3> QED
      BY <2>3, <3>1, Zenon
  <2> QED
    BY <2>4, <2>5
<1>3. Outcomes(moved)
  <2> SUFFICES ASSUME NEW x \in moved PROVE IsOutcome(x)
    BY DEF Outcomes
  <2>1. PICK o \in kept : x = [o EXCEPT !.world = (remote :> At(w, remote)) @@ @]
    OBVIOUS
  <2>2. IsOutcome(o)
    BY <1>2 DEF Outcomes
  <2> QED
    BY <2>1, <2>2, OutcomeChanged, Zenon
<1>4. InstallsFrom(w, c) = IF "decline" \in c.opts THEN Refusal(w, "declined", <<>>, <<>>) \union moved
                           ELSE kept
  BY DEF InstallsFrom
<1> HIDE DEF moved, kept
<1> QED
  BY <1>2, <1>3, <1>4, RefusalGives DEF Outcomes

LEMMA RemotesGive ==
    \A w, c : Outcomes(RemoteAdds(w, c)) /\ Outcomes(RemoteEdits(w, c)) /\ Outcomes(RemoteDeletes(w, c))
BY DoneGives, RefusalGives DEF RemoteAdds, RemoteEdits, RemoteDeletes

LEMMA RebuildsGives == \A w, c : Outcomes(Rebuilds(w, c))
BY DoneGives, RefusalGives DEF Rebuilds, Outcomes

LEMMA RestPruneReject ==
    \A w, c : Outcomes(Restarts(w)) /\ Outcomes(Prunes(w, c)) /\ Outcomes(Rejects(w, c))
BY DoneGives, RefusalGives DEF Restarts, Prunes, Rejects

LEMMA ChangesGives ==
    \A w, c : c.op \in {"set", "partial", "attempt", "either"} => Outcomes(Changes(w, c))
BY DoneGives, RefusalGives DEF Changes, Outcomes

\* Whatever the state, a command with a contract has only outcomes.
LEMMA ContractGives == \A w, c : c.op \in Operations => Outcomes(Contract(w, c))
BY InstallsGives, InstallsFromGives, UpdatingGives, UpdateInstallsGives, RebasesGives, UninstallsGives,
   PreinstallsGives, RemotesGive, RebuildsGives, RestPruneReject, PullsGives, ChangesGives
   DEF Contract, Operations

-----------------------------------------------------------------------------
\* The outcomes of a command that deviates.

\* A command with other options, arguments or another installation is the same command.
LEMMA SameOperation ==
    ASSUME NEW c, "op" \in DOMAIN c
    PROVE  /\ \A v, x : [c EXCEPT !.opts = v, !.arg = x].op = c.op
           /\ \A t : Shifted(c, t).op = c.op
<1>1. \A v, x : [c EXCEPT !.opts = v, !.arg = x].op = c.op
  BY Zenon
<1>2. \A v, x, y : [c EXCEPT !.scope = v, !.arg = x, !.plain = y].op = c.op
  BY Zenon
<1>3. \A v : [c EXCEPT !.scope = v].op = c.op
  BY Zenon
<1> QED
  BY <1>1, <1>2, <1>3, Zenon DEF Shifted

LEMMA DeviantGives ==
    ASSUME NEW w, NEW c, "op" \in DOMAIN c, c.op \in Operations,
           NEW how \in TargetFaults \union Placed
    PROVE  Outcomes(Deviant(w, c, how))
<1>1. \A v, d : d.op = c.op => Outcomes(Contract(v, d))
  BY ContractGives
<1>2. CASE how = "lies"
  <2>1. \A o \in Contract(w, c) : IsOutcome([o EXCEPT !.world = w])
    BY <1>1, OutcomeChanged, Zenon DEF Outcomes
  <2>2. Deviant(w, c, how) = {[o EXCEPT !.world = w] : o \in Contract(w, c)}
    BY <1>2 DEF Deviant, Placed
  <2> QED
    BY <2>1, <2>2, Zenon DEF Outcomes
<1>3. CASE how = "fails" \/ how \in Placed
  BY <1>3, RefusalGives DEF Deviant, Placed
<1>4. CASE how = "accepts"
  <2>1. \A o \in Contract(w, c) : IsOutcome([o EXCEPT !.status = "ok"])
    BY <1>1, OutcomeChanged, Zenon DEF Outcomes
  <2>2. Deviant(w, c, how) = {[o EXCEPT !.status = "ok"] : o \in Contract(w, c)}
    BY <1>4 DEF Deviant, Placed
  <2> QED
    BY <2>1, <2>2, Zenon DEF Outcomes
<1>5. CASE how = "options"
  <2> DEFINE bare == [c EXCEPT !.opts = @ \intersect {"library"},
                               !.arg = IF c.op \in {"set", "partial"} THEN c.plain ELSE @]
  <2>1. bare.op = c.op
    BY Zenon
  <2>2. Deviant(w, c, how) = IF c.op = "reject" /\ DOMAIN c.plain # {} THEN Done(w, c.plain, <<>>)
                             ELSE Contract(w, bare)
    BY <1>5 DEF Deviant, Placed
  <2> HIDE DEF bare
  <2> QED
    BY <1>1, <2>1, <2>2, DoneGives
<1>6. CASE how = "elsewhere"
  <2>1. Deviant(w, c, how) = UNION {Contract(w, Shifted(c, t)) : t \in OtherScopes(c)}
    BY <1>6 DEF Deviant, Placed
  <2> QED
    BY <1>1, <2>1, SameOperation DEF Outcomes
<1>7. CASE how = "everywhere"
  <2> DEFINE both(o, t) == {[o EXCEPT !.world = x.world] : x \in Contract(o.world, Shifted(c, t))}
  <2>1. Deviant(w, c, how) = UNION {both(o, t) : o \in Contract(w, c), t \in OtherScopes(c)}
    BY <1>7 DEF Deviant, Placed
  <2>2. \A o \in Contract(w, c) : \A v : IsOutcome([o EXCEPT !.world = v])
    BY <1>1, OutcomeChanged, Zenon DEF Outcomes
  <2> SUFFICES ASSUME NEW y \in Deviant(w, c, how) PROVE IsOutcome(y)
    BY DEF Outcomes
  <2>3. PICK o \in Contract(w, c), t \in OtherScopes(c) : y \in both(o, t)
    <3> HIDE DEF both
    <3> QED
      BY <2>1
  <2>4. PICK x \in Contract(o.world, Shifted(c, t)) : y = [o EXCEPT !.world = x.world]
    BY <2>3, Zenon
  <2>5. IsOutcome([o EXCEPT !.world = x.world])
    BY <2>2, Zenon
  <2> QED
    BY <2>4, <2>5, Zenon
<1>8. CASE how = "limits"
  <2> DEFINE limited(o) == [o EXCEPT !.world = Limited(w, @)]
  <2>1. \A o \in Contract(Unlimited(w), c) : IsOutcome(limited(o))
    BY <1>1, OutcomeChanged, Zenon DEF Outcomes
  <2>2. Deviant(w, c, how) = {limited(o) : o \in Contract(Unlimited(w), c)}
    BY <1>8 DEF Deviant, Placed
  <2> QED
    BY <2>1, <2>2, Zenon DEF Outcomes
<1> QED
  BY <1>2, <1>3, <1>4, <1>5, <1>6, <1>7, <1>8 DEF TargetFaults

-----------------------------------------------------------------------------
\* The state of a case.

\* The deviation is one the marked step can have.
FaultInv ==
    \/ fault = NoFault
    \/ fault.at \in 1..Len(program) /\ fault.how \in FaultsOf(program[fault.at])
CaseInv == WellFormedProgram(program) /\ FaultInv /\ TypeOK

LEMMA CaseInit == Init => CaseInv
<1> SUFFICES ASSUME Init PROVE CaseInv
  OBVIOUS
<1>1. WellFormedProgram(program)
  BY ProgramsAssumption DEF Init
<1>2. FaultInv
  <2>1. CASE fault = NoFault
    BY <2>1 DEF FaultInv
  <2>2. CASE fault \in UNION {[at : {i}, how : FaultsOf(program[i])] : i \in DOMAIN program}
    <3>1. PICK i \in DOMAIN program : fault \in [at : {i}, how : FaultsOf(program[i])]
      BY <2>2
    <3>2. fault.at = i /\ fault.how \in FaultsOf(program[i])
      BY <3>1
    <3>3. i \in 1..Len(program)
      BY <1>1, <3>1 DEF WellFormedProgram
    <3> QED
      BY <3>2, <3>3, Zenon DEF FaultInv
  <2> QED
    BY <2>1, <2>2 DEF Init
<1>3. TypeOK
  <2>1. last.status = "ok" /\ pc = 1 /\ verdict = "none" /\ failures = FALSE /\ breached = FALSE
    BY DEF Init, Outcome
  <2>2. 1 \in 1..(Len(program) + 1)
    <3>1. Len(program) \in Nat
      BY <1>1 DEF WellFormedProgram
    <3> QED
      BY <3>1
  <2>3. untidy \in 0..Len(program)
    BY <1>1 DEF Init, WellFormedProgram
  <2> QED
    BY <2>1, <2>2, <2>3 DEF TypeOK
<1> QED
  BY <1>1, <1>2, <1>3 DEF CaseInv

\* The step in hand is one of a well-formed program.
LEMMA StepInHand ==
    ASSUME CaseInv, verdict = "none", ~Over
    PROVE  pc \in 1..Len(program) /\ Len(program) \in Nat /\ WellFormed(Step, pc, Len(program))
<1>1. pc \in 1..(Len(program) + 1) /\ Len(program) \in Nat
  BY DEF CaseInv, TypeOK, WellFormedProgram
<1>2. pc \in 1..Len(program)
  BY <1>1 DEF Over
<1> QED
  BY <1>1, <1>2 DEF CaseInv, WellFormedProgram, Step

\* A command that deviates deviates in a way commands can.
LEMMA FaultInHand ==
    ASSUME CaseInv, OnStep("do"), ~Hangs, pc = fault.at
    PROVE  fault.how \in TargetFaults \union Placed
<1>1. verdict = "none" /\ ~Over /\ Step.kind = "do"
  BY DEF OnStep
<1>2. pc \in 1..Len(program)
  BY <1>1, StepInHand
<1>3. fault # NoFault
  BY <1>2 DEF NoFault
<1>4. fault.how \in FaultsOf(Step)
  BY <1>3 DEF CaseInv, FaultInv, Step
<1>5. fault.how \in Faults
  BY <1>1, <1>4, Zenon DEF FaultsOf
<1>6. fault.how # "hangs"
  BY DEF Hangs
<1> QED
  BY <1>5, <1>6, FaultsAssumption DEF Placed

\* Whatever it does, the command in hand has an outcome.
LEMMA DoGives ==
    ASSUME CaseInv, OnStep("do"), ~Hangs,
           NEW o \in IF pc = fault.at THEN Deviant(world, Step, fault.how) ELSE Contract(world, Step)
    PROVE  IsOutcome(o)
<1>1. verdict = "none" /\ ~Over /\ Step.kind = "do"
  BY DEF OnStep
<1>2. "op" \in DOMAIN Step /\ Step.op \in Operations
  BY <1>1, StepInHand DEF WellFormed
<1>3. CASE pc = fault.at
  <2>1. fault.how \in TargetFaults \union Placed
    BY <1>3, FaultInHand
  <2>2. o \in Deviant(world, Step, fault.how)
    BY <1>3
  <2> QED
    BY <1>2, <2>1, <2>2, DeviantGives, Zenon DEF Outcomes
<1>4. CASE pc # fault.at
  BY <1>2, <1>4, ContractGives, Zenon DEF Outcomes
<1> QED
  BY <1>3, <1>4

-----------------------------------------------------------------------------
\* The steps.

\* A check goes on within the program or raises.
LEMMA GoesOn ==
    ASSUME CaseInv, verdict = "none", ~Over, NEW holds, Goes(holds), Step.raises \in Exceptions
    PROVE  /\ pc' \in 1..(Len(program) + 1)
           /\ verdict' \in {"none"} \union Exceptions
<1>1. pc \in 1..Len(program) /\ Len(program) \in Nat
  BY StepInHand
<1>2. CASE holds
  BY <1>1, <1>2 DEF Goes
<1>3. CASE ~holds
  BY <1>1, <1>3 DEF Goes
<1> QED
  BY <1>2, <1>3

LEMMA CaseStep == CaseInv /\ [Next]_vars => CaseInv'
<1> SUFFICES ASSUME CaseInv, [Next]_vars PROVE CaseInv'
  OBVIOUS
<1> DEFINE Rest == /\ last'.status \in {"ok", "refused"} /\ failures' \in BOOLEAN /\ breached' \in BOOLEAN
           Place == pc' \in 1..(Len(program) + 1) /\ verdict' \in {"none", "passed"} \union Exceptions
\* The program and the fault are chosen once.
<1>1. ASSUME program' = program, fault' = fault, name' = name, untidy' = untidy, Place, Rest PROVE CaseInv'
  BY <1>1 DEF CaseInv, FaultInv, FaultsOf, TypeOK, Exceptions
<1>2. pc \in 1..(Len(program) + 1) /\ verdict \in {"none", "passed"} \union Exceptions
  BY DEF CaseInv, TypeOK, Exceptions
<1>3. last.status \in {"ok", "refused"} /\ failures \in BOOLEAN /\ breached \in BOOLEAN
  BY DEF CaseInv, TypeOK
<1>4. ASSUME last' = last, breached' = breached, failures' \in BOOLEAN PROVE Rest
  BY <1>3, <1>4
<1> HIDE DEF Rest, Place
<1>5. ASSUME NEW kind \in {"do", "see", "same", "nofailures"}, NEW holds, OnStep(kind), Goes(holds) PROVE Place
  <2>1. Step.raises \in Exceptions
    BY <1>5, StepInHand DEF OnStep, WellFormed
  <2> QED
    BY <1>5, <2>1, GoesOn DEF Place, OnStep
<1>6. ASSUME NEW kind, OnStep(kind), pc' = pc + 1, verdict' = verdict PROVE Place
  <2>1. pc \in 1..Len(program) /\ Len(program) \in Nat
    BY <1>6, StepInHand DEF OnStep
  <2> QED
    BY <1>2, <1>6, <2>1 DEF Place
<1>7. CASE Do
  <2>1. PICK o \in IF pc = fault.at THEN Deviant(world, Step, fault.how) ELSE Contract(world, Step) :
            /\ last' = [o EXCEPT !.world = <<>>]
            /\ world' = o.world
            /\ breached' = (breached \/ ~Kept(world, Step, o))
            /\ IF o.why = "environment" THEN verdict' = "unmet-prerequisite" /\ UNCHANGED pc
               ELSE Goes(Step.need \in {o.status, "any"} /\ Step.why \in {o.why, "any"})
    BY <1>7 DEF Do
  <2>2. OnStep("do") /\ ~Hangs /\ UNCHANGED <<name, program, fault, untidy, memo, failures>>
    BY <1>7 DEF Do
  <2>3. IsOutcome(o)
    BY <2>1, <2>2, DoGives
  <2>4. last'.status \in {"ok", "refused"}
    <3>1. IsOutcome([o EXCEPT !.world = <<>>])
      BY <2>3, OutcomeChanged, Zenon
    <3>2. IsOutcome(last')
      BY <2>1, <3>1, Zenon
    <3> QED
      BY <3>2, OutcomeChanged
  <2>5. Rest
    BY <1>3, <2>1, <2>2, <2>4 DEF Rest
  <2>6. Place
    <3>1. CASE verdict' = "unmet-prerequisite" /\ UNCHANGED pc
      BY <1>2, <3>1 DEF Place, Exceptions
    <3>2. CASE Goes(Step.need \in {o.status, "any"} /\ Step.why \in {o.why, "any"})
      BY <1>5, <2>2, <3>2
    <3> QED
      BY <2>1, <3>1, <3>2
  <2> QED
    BY <1>1, <2>2, <2>5, <2>6
<1>8. CASE TimeOut
  <2>1. Step.cut \subseteq Exceptions
    BY <1>8, StepInHand DEF TimeOut, OnStep, WellFormed
  <2>2. Place
    BY <1>2, <1>8, <2>1 DEF TimeOut, Place
  <2>3. Rest
    BY <1>3, <1>4, <1>8 DEF TimeOut
  <2> QED
    BY <1>1, <1>8, <2>2, <2>3 DEF TimeOut
<1>9. CASE Assign
  <2>1. Rest /\ Place
    BY <1>3, <1>4, <1>6, <1>9 DEF Assign
  <2> QED
    BY <1>1, <1>9, <2>1 DEF Assign
<1>10. CASE See
  <2>1. Place
    BY <1>5, <1>10 DEF See
  <2>2. Rest
    BY <1>3, <1>4, <1>10 DEF See
  <2> QED
    BY <1>1, <1>10, <2>1, <2>2 DEF See
<1>11. CASE Prepared
  <2>1. Place
    <3>1. CASE verdict' \in Step.stops /\ UNCHANGED pc
      <4>1. Step.stops \subseteq Exceptions
        BY <1>11, StepInHand DEF Prepared, OnStep, WellFormed
      <4> QED
        BY <1>2, <3>1, <4>1 DEF Place
    <3>2. CASE pc' = pc + 1 /\ UNCHANGED verdict
      BY <1>6, <1>11, <3>2 DEF Prepared
    <3> QED
      BY <1>11, <3>1, <3>2 DEF Prepared
  <2>2. Rest
    BY <1>3, <1>4, <1>11 DEF Prepared
  <2> QED
    BY <1>1, <1>11, <2>1, <2>2 DEF Prepared
<1>12. CASE Keep
  <2>1. Rest /\ Place
    BY <1>3, <1>4, <1>6, <1>12 DEF Keep
  <2> QED
    BY <1>1, <1>12, <2>1 DEF Keep
<1>13. CASE Compare
  <2>1. Place
    BY <1>5, <1>13 DEF Compare
  <2>2. Rest
    BY <1>3, <1>4, <1>13 DEF Compare
  <2> QED
    BY <1>1, <1>13, <2>1, <2>2 DEF Compare
<1>14. CASE Tally
  <2>1. failures' \in BOOLEAN
    BY <1>3, <1>14 DEF Tally
  <2>2. Rest /\ Place
    BY <1>4, <1>6, <1>14, <2>1 DEF Tally
  <2> QED
    BY <1>1, <1>14, <2>2 DEF Tally
<1>15. CASE Total
  <2>1. Place
    BY <1>5, <1>15 DEF Total
  <2>2. Rest
    BY <1>3, <1>4, <1>15 DEF Total
  <2> QED
    BY <1>1, <1>15, <2>1, <2>2 DEF Total
<1>16. CASE Branch
  <2>1. Place
    <3>1. pc \in 1..Len(program) /\ Len(program) \in Nat /\ Step.arg \in 0..(Len(program) - pc)
      BY <1>16, StepInHand DEF Branch, OnStep, WellFormed
    <3>2. pc' \in {pc + 1, pc + 1 + Step.arg} /\ verdict' = verdict
      BY <1>16 DEF Branch
    <3> QED
      BY <1>2, <3>1, <3>2 DEF Place
  <2>2. Rest
    BY <1>3, <1>4, <1>16 DEF Branch
  <2> QED
    BY <1>1, <1>16, <2>1, <2>2 DEF Branch
<1>17. CASE Pass
  <2>1. Rest /\ Place
    BY <1>2, <1>3, <1>4, <1>17 DEF Pass, Place
  <2> QED
    BY <1>1, <1>17, <2>1 DEF Pass
<1>18. CASE NoAnswer
  <2>1. Rest
    BY <1>3, <1>4, <1>18 DEF NoAnswer
  <2>2. Place
    <3>1. CASE verdict' = "unmet-prerequisite" /\ UNCHANGED pc
      BY <1>2, <3>1 DEF Place, Exceptions
    <3>2. CASE Goes(Step.what = "at" /\ Step.want = "none")
      BY <1>5, <1>18, <3>2 DEF NoAnswer
    <3> QED
      BY <1>18, <3>1, <3>2 DEF NoAnswer
  <2> QED
    BY <1>1, <1>18, <2>1, <2>2 DEF NoAnswer
<1>19. CASE CleanUp
  <2>1. Place
    <3>1. CASE verdict' \in Step.stops /\ UNCHANGED pc
      <4>1. Step.stops \subseteq Exceptions
        BY <1>19, StepInHand DEF CleanUp, OnStep, WellFormed
      <4> QED
        BY <1>2, <3>1, <4>1 DEF Place
    <3>2. CASE pc' = pc + 1 /\ UNCHANGED verdict
      BY <1>6, <1>19, <3>2 DEF CleanUp
    <3> QED
      BY <1>19, <3>1, <3>2 DEF CleanUp
  <2>2. Rest
    BY <1>3, <1>4, <1>19 DEF CleanUp
  <2> QED
    BY <1>1, <1>19, <2>1, <2>2 DEF CleanUp
<1>20. CASE Unwind
  <2>1. PICK j \in Enclosing :
            pc' = j /\ IF j = untidy THEN verdict' \in program[j].stops ELSE UNCHANGED verdict
    BY <1>20 DEF Unwind
  <2>2. j \in 1..Len(program) /\ Len(program) \in Nat /\ program[j].stops \subseteq Exceptions
    BY DEF Enclosing, CaseInv, WellFormedProgram, WellFormed
  <2>3. Place
    BY <1>2, <2>1, <2>2 DEF Place
  <2>4. Rest
    BY <1>3, <1>4, <1>20 DEF Unwind
  <2> QED
    BY <1>1, <1>20, <2>3, <2>4 DEF Unwind
<1>21. CASE UNCHANGED vars
  <2>1. Rest /\ Place
    BY <1>2, <1>3, <1>4, <1>21 DEF vars, Place
  <2> QED
    BY <1>1, <1>21, <2>1 DEF vars
<1> QED
  BY <1>7, <1>8, <1>9, <1>10, <1>11, <1>12, <1>13, <1>14, <1>15, <1>16, <1>17, <1>18, <1>19, <1>20, <1>21 DEF Next, Ended

LEMMA CaseAlways == Spec => []CaseInv
BY CaseInit, CaseStep, PTL DEF Spec

-----------------------------------------------------------------------------
\* The theorems.

\* For every suite of handlers whose commands have a contract, whose exceptions the driver
\* knows and whose branches stay within the handler, the verdict is one of the driver's and
\* every command ends in an outcome, however the target deviates (run.py:265-299).
THEOREM ScenarioTypes == Spec => []TypeOK
<1>1. CaseInv => TypeOK
  BY DEF CaseInv
<1> QED
  BY CaseAlways, <1>1, PTL
=============================================================================
