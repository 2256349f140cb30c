------------------------------ MODULE History ------------------------------
(***************************************************************************)
(* The maintenance-history case (maintenance_scenarios.py, _journal): a    *)
(* private journald is started, the target changes three installations and *)
(* logs every change to it, and what `flatpak history' shows is compared   *)
(* with the changes.  journald stores what it is sent when it gets to it,  *)
(* and may die or hang at any time; the target may break its contract in   *)
(* one command.  The limit the run driver gives the script as a whole is   *)
(* a time-out of the one command that Scenarios.tla knows it as.           *)
(***************************************************************************)
EXTENDS Naturals, Sequences, FiniteSets, SequencesExt

CONSTANTS
    Polls,      \* how often the journal's socket is looked for
    Faults      \* how the target may break its contract

ASSUME PollsAssumption == Polls \in Nat \ {0}

Installations == {"user", "system", "alt"}

\* A row of the history: the lifecycle change of a ref, or an auxiliary event.
Row(inst, ref, change) == [inst |-> inst, ref |-> ref, change |-> change]
Rows == [inst : Installations \union {"path"}, ref : {"none", "runtime", "app"},
         change : {"auxiliary", "install", "update", "uninstall"}]
IsAuxiliary(row) == row.change = "auxiliary"

\* The rows that are wanted, in their order.
Select(rows, wanted) ==
    LET kept[i \in 0..Len(rows)] ==
            IF i = 0 THEN <<>>
            ELSE IF rows[i] \in wanted THEN Append(kept[i - 1], rows[i]) ELSE kept[i - 1]
    IN kept[Len(rows)]

\* The commands, each with the change it makes.
RemoteCommand(inst) == Row(inst, "none", "auxiliary")
Commands ==
    LET add(i) == <<RemoteCommand(i), Row(i, "runtime", "install"), Row(i, "app", "install")>>
        update(i) == <<RemoteCommand(i), Row(i, "app", "update")>>
    IN add("user") \o add("system") \o add("alt") \o update("user") \o update("alt")
       \o <<Row("user", "app", "uninstall")>>

\* The ordered steps required of an installation's history.
Required(inst) ==
    LET all == <<<<"runtime", "install">>, <<"app", "install">>, <<"app", "update">>, <<"app", "uninstall">>>>
    IN CASE inst = "user" -> all [] inst = "system" -> SubSeq(all, 1, 2) [] inst = "alt" -> SubSeq(all, 1, 3)

\* What the history is asked for, in this order.
Queries == <<"user", "system", "alt", "reverse", "since", "until">>

-----------------------------------------------------------------------------
\* The comparison.

Lifecycle(rows) ==
    LET own == Select(rows, {r \in Rows : ~IsAuxiliary(r)})
    IN [i \in DOMAIN own |-> <<own[i].ref, own[i].change>>]

\* Mutant: every step is looked for from the first event.
MatchesUnordered(events, steps) == \A n \in DOMAIN steps : \E i \in DOMAIN events : events[i] = steps[n]

\* One pass over the events: a step consumes the events up to the one it matches.
Matches(events, steps) ==
    LET scan[i \in 0..Len(events)] ==
            IF i = 0 THEN 0
            ELSE LET n == scan[i - 1]
                 IN IF n < Len(steps) /\ events[i] = steps[n + 1] THEN n + 1 ELSE n
    IN scan[Len(events)] = Len(steps)

\* A lifecycle row names the selected installation; an auxiliary one may name a
\* temporary repository instead, never another installation.
Sources(rows, inst) == \A i \in DOMAIN rows :
    rows[i].inst = inst \/ (IsAuxiliary(rows[i]) /\ rows[i].inst = "path")

history_contract(rows, inst, steps) == Sources(rows, inst) /\ Matches(Lifecycle(rows), steps)

-----------------------------------------------------------------------------
VARIABLES
    pc,         \* where the script is
    daemon,     \* journald
    socket,     \* the journal's socket exists
    tries,      \* looks for the socket so far
    step,       \* the next command, then the next query
    aux,        \* what the target logs of a remote's configuration
    fault,      \* the command or query in which the target breaks its contract, and how
    queue,      \* records sent to journald and not stored
    held,       \* a record the target has not sent yet
    stored,     \* the journal
    user,       \* the rows the first query showed
    verdict,    \* how the script ends: "passed", "blocked" (77) or "failed"
    breached,   \* history: the target broke its contract
    hung        \* history: a command or the journal did not answer in time

vars == <<pc, daemon, socket, tries, step, aux, fault, queue, held, stored, user, verdict, breached, hung>>

Alive == daemon \in {"starting", "ready", "hung"}
Here(kind) == fault.in = kind /\ fault.at = step

-----------------------------------------------------------------------------
\* journald (external).

Journald == <<pc, tries, step, aux, fault, held, user, verdict, breached, hung>>
Bind == /\ daemon = "starting" /\ daemon' = "ready" /\ socket' = TRUE
        /\ UNCHANGED <<queue, stored>> /\ UNCHANGED Journald
Store == /\ daemon = "ready" /\ queue # <<>>
         /\ stored' = Append(stored, Head(queue)) /\ queue' = Tail(queue)
         /\ UNCHANGED <<daemon, socket>> /\ UNCHANGED Journald
Die == /\ Alive /\ pc \notin {"terminated", "killed"}
       /\ daemon' = "dead" /\ queue' = <<>> /\ UNCHANGED <<socket, stored>> /\ UNCHANGED Journald
Hang == /\ daemon = "ready" /\ daemon' = "hung"
        /\ UNCHANGED <<socket, queue, stored>> /\ UNCHANGED Journald

-----------------------------------------------------------------------------
\* The script.

Leave(v) == pc' = "finally" /\ verdict' = v

\* Without journald the case is blocked before anything is started.
Start ==
    /\ pc = "start"
    /\ \/ pc' = "end" /\ verdict' = "blocked" /\ UNCHANGED daemon
       \/ pc' = "poll" /\ daemon' = "starting" /\ UNCHANGED verdict
    /\ UNCHANGED <<socket, tries, step, aux, fault, queue, held, stored, user, breached, hung>>

\* Mutants: the number of looks is not limited; the death of the daemon is not noticed.
PollUnlimited ==
    /\ pc = "poll"
    /\ IF socket THEN pc' = "call" /\ UNCHANGED <<tries, verdict>>
       ELSE IF daemon = "dead" THEN Leave("blocked") /\ UNCHANGED tries
       ELSE tries' = tries + 1 /\ UNCHANGED <<pc, verdict>>
    /\ UNCHANGED <<daemon, socket, step, aux, fault, queue, held, stored, user, breached, hung>>
PollForever ==
    /\ pc = "poll"
    /\ IF socket THEN pc' = "call" ELSE UNCHANGED pc
    /\ UNCHANGED <<daemon, socket, tries, step, aux, fault, queue, held, stored, user, verdict, breached, hung>>

Poll ==
    /\ pc = "poll"
    /\ IF socket THEN pc' = "call" /\ UNCHANGED <<tries, verdict>>
       ELSE IF daemon = "dead" \/ tries + 1 = Polls THEN Leave("blocked") /\ UNCHANGED tries
       ELSE tries' = tries + 1 /\ UNCHANGED <<pc, verdict>>
    /\ UNCHANGED <<daemon, socket, step, aux, fault, queue, held, stored, user, breached, hung>>

\* The records of a command in the order the target sends them.
Records(row) ==
    IF IsAuxiliary(row) THEN CASE aux = "none" -> <<>>
                               [] aux = "own" -> <<row>>
                               [] aux = "path" -> <<[row EXCEPT !.inst = "path"]>>
    ELSE IF ~Here("command") THEN <<row>>
    ELSE CASE fault.how = "omits" -> <<>>
           [] fault.how = "astray" -> <<[row EXCEPT !.inst = CHOOSE i \in Installations : i # row.inst]>>
           [] fault.how = "mislabels" -> <<[row EXCEPT !.change = "auxiliary"]>>
           [] fault.how \in {"late", "fails"} -> <<>>
           [] fault.how = "extra" -> <<row, [row EXCEPT !.change = "uninstall"]>>

\* A record out of order breaks the contract only within one installation, and one that
\* is never sent.
Disorders == \/ step = Len(Commands)
             \/ Commands[step + 1].inst = Commands[step].inst /\ ~IsAuxiliary(Commands[step + 1])
Breaches == Here("command") /\ (fault.how = "late" => Disorders)

Fails == Here("command") /\ fault.how = "fails"

\* The command succeeds, the environment stops it, or it fails against its contract.
Call ==
    /\ pc = "call" /\ step <= Len(Commands)
    /\ \/ ~Fails /\
          LET sent == Records(Commands[step]) \o held
          IN /\ queue' = IF daemon = "dead" THEN queue ELSE queue \o sent
             /\ held' = IF Here("command") /\ fault.how = "late" THEN <<Commands[step]>> ELSE <<>>
             /\ breached' = (breached \/ Breaches)
             /\ step' = step + 1 /\ UNCHANGED <<pc, verdict>>
       \/ Leave("blocked") /\ UNCHANGED <<step, queue, held, breached>>
       \/ Fails /\ Leave("failed") /\ breached' = TRUE /\ UNCHANGED <<step, queue, held>>
    /\ UNCHANGED <<daemon, socket, tries, aux, fault, stored, user, hung>>

\* Mutant: the history is read without waiting for what was sent.
SyncSkipped ==
    /\ pc = "call" /\ step > Len(Commands)
    /\ pc' = "query" /\ step' = 1
    /\ UNCHANGED <<daemon, socket, tries, aux, fault, queue, held, stored, user, verdict, breached, hung>>

\* journalctl --sync answers when everything sent is stored; a hung journald never does,
\* and the time limit of the call raises.
Sync ==
    /\ pc = "call" /\ step > Len(Commands)
    /\ CASE daemon = "ready" -> queue = <<>> /\ pc' = "query" /\ step' = 1 /\ UNCHANGED <<verdict, hung>>
         [] daemon = "hung" -> Leave("failed") /\ hung' = TRUE /\ UNCHANGED step
         [] OTHER -> Leave("blocked") /\ UNCHANGED <<step, hung>>
    /\ UNCHANGED <<daemon, socket, tries, aux, fault, queue, held, stored, user, breached>>

\* The rows of a query, and what they are when the target breaks its contract.
Shown(inst) == Select(stored, {r \in Rows : r.inst \in {inst, "path"}})
Answer(q) ==
    LET right == CASE q \in Installations -> Shown(q)
                   [] q = "reverse" -> Reverse(Shown("user"))
                   [] OTHER -> <<>>
        wrong == CASE q \in Installations -> stored [] OTHER -> Shown("user")
    IN IF Here("query") THEN wrong ELSE right

\* Mutant: the reversed history is compared without its order.
AcceptsAnyOrder(q, rows) ==
    CASE q \in Installations -> history_contract(rows, q, Required(q))
      [] q = "reverse" -> ToSet(rows) = ToSet(user)
      [] OTHER -> rows = <<>>

Accepts(q, rows) ==
    CASE q = "user" -> history_contract(rows, q, Required(q))
      [] q \in {"system", "alt"} -> history_contract(rows, q, Required(q))
                                    /\ ~history_contract(rows, "user", Required("user"))
      [] q = "reverse" -> rows = Reverse(user)
      [] OTHER -> rows = <<>>

Query ==
    /\ pc = "query"
    /\ \/ Leave("blocked") /\ UNCHANGED <<step, user, breached>>
       \/ LET q == Queries[step]
              rows == Answer(q)
          IN
          /\ user' = IF q = "user" THEN rows ELSE user
          /\ breached' = (breached \/ Here("query"))
          /\ IF ~Accepts(q, rows) THEN Leave("failed") /\ UNCHANGED step
             ELSE IF step = Len(Queries) THEN Leave("passed") /\ UNCHANGED step
             ELSE step' = step + 1 /\ UNCHANGED <<pc, verdict>>
    /\ UNCHANGED <<daemon, socket, tries, aux, fault, queue, held, stored, hung>>

\* A command, a query or journalctl exceeds the time limit the script itself gives it
\* (60 s, 15 s for the journal): TimeoutExpired leaves the script as a mismatch would.
\* What a killed command has logged is never read.
TimesOut ==
    /\ pc \in {"call", "query"}
    /\ Leave("failed") /\ hung' = TRUE
    /\ UNCHANGED <<daemon, socket, tries, step, aux, fault, queue, held, stored, user, breached>>

\* finally: terminate and wait; kill what does not end in time, and wait again.
Terminate ==
    /\ pc = "finally" /\ pc' = "terminated"
    /\ UNCHANGED <<daemon, socket, tries, step, aux, fault, queue, held, stored, user, verdict, breached, hung>>
\* Mutant: a daemon that does not end in time is left.
WaitOnce ==
    /\ pc \in {"terminated", "killed"}
    /\ pc' = "end" /\ daemon' = IF daemon = "hung" THEN daemon ELSE "reaped"
    /\ UNCHANGED <<socket, tries, step, aux, fault, queue, held, stored, user, verdict, breached, hung>>
Wait ==
    /\ pc \in {"terminated", "killed"}
    /\ IF daemon = "hung" /\ pc = "terminated" THEN pc' = "killed" /\ UNCHANGED daemon
       ELSE pc' = "end" /\ daemon' = "reaped"
    /\ UNCHANGED <<socket, tries, step, aux, fault, queue, held, stored, user, verdict, breached, hung>>

Done == pc = "end" /\ UNCHANGED vars

-----------------------------------------------------------------------------
CommandFaults == {"fails", "omits", "astray", "mislabels", "late", "extra"}
ChangeSteps == {i \in DOMAIN Commands : ~IsAuxiliary(Commands[i])}
FaultChoices ==
    {[in |-> "none", at |-> 0, how |-> "none"]}
    \union {[in |-> "command", at |-> i, how |-> h] : i \in ChangeSteps, h \in Faults \intersect CommandFaults}
    \union {[in |-> "query", at |-> i, how |-> h] : i \in DOMAIN Queries, h \in Faults \ CommandFaults}

Init ==
    /\ pc = "start" /\ daemon = "none" /\ socket = FALSE /\ tries = 0 /\ step = 1
    /\ aux \in {"none", "own", "path"} /\ fault \in FaultChoices
    /\ queue = <<>> /\ held = <<>> /\ stored = <<>> /\ user = <<>>
    /\ verdict = "none" /\ breached = FALSE /\ hung = FALSE

Script == Start \/ Poll \/ Call \/ Sync \/ Query \/ TimesOut \/ Terminate \/ Wait
Next == Bind \/ Store \/ Die \/ Hang \/ Script \/ Done

\* The script keeps running, and a journald that neither dies nor hangs stores.
Spec == Init /\ [][Next]_vars /\ WF_vars(Script) /\ WF_vars(Store)

-----------------------------------------------------------------------------
\* Properties.

Statuses == {"none", "passed", "blocked", "failed"}
TypeOK ==
    /\ pc \in {"start", "poll", "call", "query", "finally", "terminated", "killed", "end"}
    /\ daemon \in {"none", "starting", "ready", "hung", "dead", "reaped"}
    /\ socket \in BOOLEAN /\ tries \in 0..(Polls - 1) /\ step \in 1..(Len(Commands) + 1)
    /\ verdict \in Statuses /\ breached \in BOOLEAN /\ hung \in BOOLEAN
    /\ Len(queue) + Len(stored) <= Len(Commands) + 1 /\ Len(held) <= 1

\* The case passes only if the target kept its contract in every command and query, save
\* that a lifecycle event that did not happen is accepted among the others
\* (maintenance_scenarios.py:350-354 looks for the required steps only).
PassSound == verdict = "passed" /\ breached => fault.how = "extra"

\* A case fails only if the target broke its contract or something exceeded a time limit
\* of the script's own: 60 s for a command or query, 15 s for journalctl --sync
\* (maintenance_scenarios.py:422-423, 449-459).  Neither a journald that dies before,
\* between or after the commands nor one that stores late fails it.
FailSound == verdict = "failed" => breached \/ hung

\* The one-pass comparison (maintenance_scenarios.py:351-354) accepts exactly the histories
\* in which the required steps can be found in their order.
Embeds(events, steps) ==
    \E f \in [DOMAIN steps -> DOMAIN events] :
        /\ \A n \in DOMAIN steps : events[f[n]] = steps[n]
        /\ \A m, n \in DOMAIN steps : m < n => f[m] < f[n]
ContractExact == \A i \in Installations :
    Matches(Lifecycle(Shown(i)), Required(i)) <=> Embeds(Lifecycle(Shown(i)), Required(i))

\* However the script leaves the try block, the daemon it started is waited for
\* (maintenance_scenarios.py:480-486).
NothingLeft == pc = "end" => daemon \in {"none", "reaped"}

\* The case ends: the polling is bounded, a journald that is alive stores what the sync
\* waits for, and a dead or hung one is noticed.
Finishes == <>(pc = "end")
=============================================================================
