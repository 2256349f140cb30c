------------------------------ MODULE Scenarios ------------------------------
(***************************************************************************)
(* A case of one of the scenario files: the handler's steps are taken in   *)
(* order against a target that keeps its contract except, possibly, in one *)
(* command.  The faults of that command are                                *)
(*   "lies"        it reports what the contract allows and changes nothing *)
(*   "fails"       it reports a failure and changes nothing                *)
(*   "accepts"     it reports success where it must refuse                 *)
(*   "options"     it behaves as if its options, or what must stop it, were  *)
(*                 not there                                               *)
(*   "limits"      it ignores masks, pins, filters, verification, opt-outs *)
(*   "elsewhere"   it acts on another installation                         *)
(*   "everywhere"  it acts on another installation too                     *)
(* and, not the target's doing,                                            *)
(*   "environment" the private namespace cannot do what it asks for        *)
(*   "bootstrap"   the private namespace is not set up for it              *)
(*   "hangs"       it does not end within the time limit                   *)
(*   "unprepared"  the inputs or tools of a Require step are missing, or a *)
(*                 tool that prepares them fails                           *)
(***************************************************************************)
EXTENDS Target

CONSTANTS
    Programs,   \* the steps of every scenario's handler
    Spread,     \* the scenarios that look at several installations
    Faults      \* how the target or its surroundings may deviate

ASSUME SpreadAssumption == Spread \subseteq DOMAIN Programs

Exceptions == {"failed", "setup-error", "unmet-prerequisite"}
Operations ==
    {"install", "install-from", "update", "update-install", "rebase", "uninstall", "preinstall",
     "remote-add", "remote-edit", "remote-delete", "repair", "partial", "attempt", "either",
     "restart", "pull", "prune", "set", "reject"}
TargetFaults == {"lies", "fails", "accepts", "options", "limits", "elsewhere", "everywhere"}

\* A step at place i of a program of n steps: its command has a contract, what it raises is
\* a failure the driver knows, and a branch stays within the program.
WellFormed(step, i, n) ==
    /\ step.kind = "do" => "op" \in DOMAIN step /\ step.op \in Operations
    /\ step.kind \in {"do", "see", "same", "nofailures"} => step.raises \in Exceptions
    /\ step.kind \in {"do", "see"} => step.cut \subseteq Exceptions
    /\ step.kind \in {"require", "finally"} => step.stops \subseteq Exceptions
    /\ step.kind = "finally" => step.arg \in 0..(i - 1)
    /\ step.kind = "if" => step.arg \in 0..(n - i)

WellFormedProgram(steps) ==
    /\ Len(steps) \in Nat /\ DOMAIN steps = 1..Len(steps)
    /\ \A i \in 1..Len(steps) : WellFormed(steps[i], i, Len(steps))

ASSUME ProgramsAssumption == \A n \in DOMAIN Programs : WellFormedProgram(Programs[n])
ASSUME FaultsAssumption == Faults \subseteq TargetFaults \union {"environment", "bootstrap", "hangs"}

NoFault == [at |-> 0, how |-> "none"]

VARIABLES
    name,       \* the scenario
    program,    \* the steps of its handler
    fault,      \* the command that breaks the contract and how
    pc,         \* index of the next step
    world,      \* the state of the target and of what the harness controls
    last,       \* outcome of the last command
    memo,       \* the answer a Note kept
    failures,   \* a Count found a failure
    untidy,     \* the clean-up step that fails when it is reached, or 0
    verdict,    \* how the scenario ended
    breached    \* history: the target broke its contract

vars == <<name, program, fault, pc, world, last, memo, failures, untidy, verdict, breached>>

Step == program[pc]
Over == pc > Len(program)

\* Queries that are commands of the target; the others look at files or at a service.
Asked == {"at", "refs", "tip", "offers", "remotes", "updates"}
Placed == {"environment", "bootstrap"}

\* Only some scenarios look at other installations, and only the commands of the private
\* namespace are exposed to its failures.
FaultsOf(step) ==
    CASE step.kind = "require" -> {"unprepared"}
      [] step.kind = "do" -> {h \in Faults : /\ h \in {"elsewhere", "everywhere"} => name \in Spread
                                             /\ h \in Placed => h \in step.exposed}
      [] step.kind = "see" /\ step.what \in Asked ->
            {h \in Faults \intersect (Placed \union {"hangs"}) : h \in Placed => h \in step.exposed}
      [] OTHER -> {}

-----------------------------------------------------------------------------
\* The target.

LimitKinds == {"hidden", "gpg", "nodeps", "disabled", "mask", "pin", "optout"}
Unlimited(w) == [k \in DOMAIN w |-> IF k[1] \in LimitKinds THEN "none" ELSE w[k]]
Limited(w, v) == [k \in {x \in DOMAIN w : x[1] \in LimitKinds} |-> w[k]] @@ v

\* The command as another installation would be given it.
Shifted(c, t) ==
    IF c.op # "set" THEN [c EXCEPT !.scope = t]
    ELSE LET back(k) == IF k[2] = t THEN [k EXCEPT ![2] = c.scope] ELSE k
             keys == {IF k[2] = c.scope THEN [k EXCEPT ![2] = t] ELSE k : k \in DOMAIN c.arg}
             moved == [k \in keys |-> c.arg[back(k)]]
         IN [c EXCEPT !.scope = t, !.arg = moved, !.plain = moved]
OtherScopes(c) == Scopes \ {c.scope}

\* Outcomes of a command that deviates.
Deviant(w, c, how) ==
    CASE how = "lies" -> {[o EXCEPT !.world = w] : o \in Contract(w, c)}
      [] how = "fails" -> Refusal(w, "failed", <<>>, <<>>)
      [] how = "accepts" -> {[o EXCEPT !.status = "ok"] : o \in Contract(w, c)}
      [] how = "options" ->
            IF c.op = "reject" /\ DOMAIN c.plain # {} THEN Done(w, c.plain, <<>>)
            ELSE Contract(w, [c EXCEPT !.opts = @ \intersect {"library"},
                                       !.arg = IF c.op \in {"set", "partial"} THEN c.plain ELSE @])
      [] how = "elsewhere" -> UNION {Contract(w, Shifted(c, t)) : t \in OtherScopes(c)}
      [] how = "everywhere" ->
            UNION {{[o EXCEPT !.world = x.world] : x \in Contract(o.world, Shifted(c, t))} :
                       o \in Contract(w, c), t \in OtherScopes(c)}
      [] how \in Placed -> Refusal(w, how, <<>>, <<>>)
      [] how = "limits" -> {[o EXCEPT !.world = Limited(w, @)] : o \in Contract(Unlimited(w), c)}

\* The outcome is the target's within the contract, or the namespace's.
Kept(w, c, o) ==
    \/ o.why \in Placed
    \/ \E x \in Contract(w, c) : [x EXCEPT !.why = IF c.why = "any" THEN o.why ELSE @] = o

-----------------------------------------------------------------------------
\* The handler.

OnStep(kind) == verdict = "none" /\ ~Over /\ Step.kind = kind
\* Mutant: the exit status is reported as the verdict.
GoesStatus(holds) == IF holds THEN pc' = pc + 1 /\ UNCHANGED verdict
                     ELSE verdict' = last.status /\ UNCHANGED pc

\* A check: the scenario goes on or raises.
Goes(holds) == IF holds THEN pc' = pc + 1 /\ UNCHANGED verdict
               ELSE verdict' = Step.raises /\ UNCHANGED pc

Hangs == pc = fault.at /\ fault.how = "hangs"

\* Mutant: the environment's failures are the target's.
DoBlames ==
    /\ OnStep("do") /\ ~Hangs
    /\ \E o \in IF pc = fault.at THEN Deviant(world, Step, fault.how) ELSE Contract(world, Step) :
        /\ last' = [o EXCEPT !.world = <<>>]
        /\ world' = o.world
        /\ breached' = (breached \/ ~Kept(world, Step, o))
        /\ Goes(Step.need \in {o.status, "any"} /\ Step.why \in {o.why, "any"})
    /\ UNCHANGED <<name, program, fault, untidy, memo, failures>>

\* A command is run and its exit status judged.
Do ==
    /\ OnStep("do") /\ ~Hangs
    /\ \E o \in IF pc = fault.at THEN Deviant(world, Step, fault.how) ELSE Contract(world, Step) :
        /\ last' = [o EXCEPT !.world = <<>>]
        /\ world' = o.world
        /\ breached' = (breached \/ ~Kept(world, Step, o))
        /\ IF o.why = "environment" THEN verdict' = "unmet-prerequisite" /\ UNCHANGED pc
           ELSE Goes(Step.need \in {o.status, "any"} /\ Step.why \in {o.why, "any"})
    /\ UNCHANGED <<name, program, fault, untidy, memo, failures>>

\* The command is killed before or after it had its effect.
TimeOut ==
    /\ OnStep("do") \/ OnStep("see")
    /\ Hangs
    /\ world' \in {world} \union (IF Step.kind = "do" THEN {o.world : o \in Contract(world, Step)} ELSE {})
    /\ verdict' \in Step.cut
    /\ UNCHANGED <<name, program, fault, untidy, pc, last, memo, failures, breached>>

\* The harness changes what it controls, or the target makes a choice it is free to make.
Assign ==
    /\ OnStep("env")
    /\ \E f \in Step.arg : world' = f @@ world
    /\ pc' = pc + 1
    /\ UNCHANGED <<name, program, fault, untidy, last, memo, failures, verdict, breached>>

\* A query is compared with what the scenario expects.
See ==
    /\ OnStep("see") /\ pc # fault.at
    /\ Goes(CASE Step.what = "plan" -> last.plan = Step.want
              [] Step.what = "new" -> last.new = Step.want
              [] Step.what = "done" -> last.done = Step.want
              [] OTHER -> Observe(world, Step) = Step.want)
    /\ UNCHANGED <<name, program, fault, untidy, world, last, memo, failures, breached>>

\* The namespace gives no answer to the query: the case is blocked where that is told
\* from the target's failure, and an absent ref looks the same.
NoAnswer ==
    /\ OnStep("see") /\ pc = fault.at /\ ~Hangs
    /\ IF fault.how = "environment" THEN verdict' = "unmet-prerequisite" /\ UNCHANGED pc
       ELSE Goes(Step.what = "at" /\ Step.want = "none")
    /\ UNCHANGED <<name, program, fault, untidy, world, last, memo, failures, breached>>

\* Without the prepared inputs the case is blocked, a setup error or, where the scenario
\* checks the tool like the target, failed.
Prepared ==
    /\ OnStep("require")
    /\ IF pc = fault.at THEN verdict' \in Step.stops /\ UNCHANGED pc
       ELSE pc' = pc + 1 /\ UNCHANGED verdict
    /\ UNCHANGED <<name, program, fault, untidy, world, last, memo, failures, breached>>

\* An answer is kept and compared with a later one.
Keep ==
    /\ OnStep("note")
    /\ memo' = At(world, Step.arg) /\ pc' = pc + 1
    /\ UNCHANGED <<name, program, fault, untidy, world, last, failures, verdict, breached>>

Compare ==
    /\ OnStep("same")
    /\ Goes(At(world, Step.arg) = memo)
    /\ UNCHANGED <<name, program, fault, untidy, world, last, memo, failures, breached>>

\* Mutant: only the exit status is counted.
TallyStatus ==
    /\ OnStep("count")
    /\ failures' = (failures \/ last.status # "ok")
    /\ pc' = pc + 1
    /\ UNCHANGED <<name, program, fault, untidy, world, last, memo, verdict, breached>>

\* A failure is counted and judged at the end.
Tally ==
    /\ OnStep("count")
    /\ failures' = (failures \/ last.status # "ok" \/ Observe(world, Step) # Step.want)
    /\ pc' = pc + 1
    /\ UNCHANGED <<name, program, fault, untidy, world, last, memo, verdict, breached>>

Total ==
    /\ OnStep("nofailures")
    /\ Goes(~failures)
    /\ UNCHANGED <<name, program, fault, untidy, world, last, memo, failures, breached>>

Branch ==
    /\ OnStep("if")
    /\ LET value == CASE Step.of = <<>> -> last.status
                      [] Step.of = <<"plan">> -> last.plan
                      [] OTHER -> At(world, Step.of)
       IN pc' = IF value = Step.when THEN pc + 1 ELSE pc + 1 + Step.arg
    /\ UNCHANGED <<name, program, fault, untidy, world, last, memo, failures, verdict, breached>>

\* The steps of a try block are over: its clean-up fails or not.
CleanUp ==
    /\ OnStep("finally")
    /\ IF pc = untidy THEN verdict' \in Step.stops /\ UNCHANGED pc
       ELSE pc' = pc + 1 /\ UNCHANGED verdict
    /\ UNCHANGED <<name, program, fault, untidy, world, last, memo, failures, breached>>

\* The clean-ups of the try blocks the next step is in, the innermost first.
Enclosing == {j \in DOMAIN program : /\ program[j].kind = "finally"
                                     /\ j - program[j].arg <= pc /\ pc < j}

\* The clean-up is reached with an exception; one of its own replaces it.
Unwind ==
    /\ verdict # "none"
    /\ \E j \in Enclosing :
        /\ \A k \in Enclosing : j <= k
        /\ pc' = j
        /\ IF j = untidy THEN verdict' \in program[j].stops ELSE UNCHANGED verdict
    /\ UNCHANGED <<name, program, fault, untidy, world, last, memo, failures, breached>>

Pass ==
    /\ verdict = "none" /\ Over
    /\ verdict' = "passed"
    /\ UNCHANGED <<name, program, fault, untidy, pc, world, last, memo, failures, breached>>

Ended == verdict # "none" /\ Enclosing = {} /\ UNCHANGED vars

Init ==
    /\ name \in DOMAIN Programs /\ program = Programs[name]
    /\ fault \in {NoFault} \union
          UNION {[at : {i}, how : FaultsOf(program[i])] : i \in DOMAIN program}
    /\ untidy \in {0} \union {i \in DOMAIN program : program[i].kind = "finally"}
    /\ pc = 1 /\ last = Outcome("ok", "none", <<>>, <<>>, <<>>, <<>>)
    /\ world = <<"env", "version">> :> "A"
    /\ memo = "none" /\ failures = FALSE /\ verdict = "none" /\ breached = FALSE

Next ==
    \/ Do \/ TimeOut \/ Assign \/ See \/ NoAnswer \/ Prepared \/ Keep \/ Compare \/ Tally \/ Total
    \/ Branch \/ CleanUp \/ Unwind \/ Pass \/ Ended

Spec == Init /\ [][Next]_vars

-----------------------------------------------------------------------------
\* Properties.

TypeOK ==
    /\ pc \in 1..(Len(program) + 1) /\ untidy \in 0..Len(program)
    /\ verdict \in {"none", "passed", "failed", "setup-error", "unmet-prerequisite"}
    /\ last.status \in {"ok", "refused"} /\ failures \in BOOLEAN /\ breached \in BOOLEAN

\* A case passes only if the target kept its contract in every command, whatever the
\* command did wrong and however long it takes to show: the handlers' checks after the
\* command (the info, list, remotes and location queries of the scenario files) notice
\* it, except for the faults a step is marked not to notice.
PassSound == verdict = "passed" /\ breached => fault.how \in program[fault.at].unseen

\* A case fails only if the target broke its contract: neither a command cut off at the
\* time limit (run.py:132-147), nor a missing or failing tool of the harness, nor what
\* the private namespace cannot do (system_selector_scenarios.py:284-293) is a mismatch.
\* The exceptions are named in the programs, where the code itself makes the mistake:
\* - the tools and services whose failure a scenario passes to Driver.check, the Blamed
\*   steps (oci_signature_scenarios.py:42-45, permission_scenarios.py:33, and the payload
\*   that _inspect_location runs, system_selector_scenarios.py:70-73, 323-329);
\* - a namespace that is not set up for a command (system_selector_scenarios.py:78-128);
\* - the limits of a script of its own (maintenance_scenarios.py:228, 284);
\* - a clean-up whose exception replaces the case's (document_scenarios.py:64-65,
\*   oci_signature_scenarios.py:144).
Excused ==
    (IF fault.how = "unprepared" THEN program[fault.at].stops ELSE {})
    \union (IF fault.how = "hangs" THEN program[fault.at].cut ELSE {})
    \union (IF fault.how = "environment" THEN {"unmet-prerequisite"} ELSE {})
    \union (IF fault.how = "bootstrap" THEN {"failed"} ELSE {})
    \union (IF untidy # 0 /\ pc >= untidy THEN program[untidy].stops ELSE {})
FailSound == verdict \notin {"none", "passed"} => breached \/ verdict \in Excused
=============================================================================
