--------------------------- MODULE HistoryProofs ---------------------------
(***************************************************************************)
(* Proofs about the history case, for every number of polls and every set  *)
(* of faults: what is left of journald when the case ends, the types of    *)
(* the state with the bound on what is logged, the exactness of the one-   *)
(* pass comparison, and the soundness of the verdict both ways.            *)
(*                                                                         *)
(* HistoryInv is inductive by itself and gives the first two.  CaseInv     *)
(* adds what the log holds: each required step made so far is reached in   *)
(* its order, what a command kept back is nowhere, what it sent late is    *)
(* behind its successor.  Induction over the length of a log is done with  *)
(* the least number for which a statement fails (Least).                   *)
(***************************************************************************)
EXTENDS History, SequenceTheorems, WellFoundedInduction, TLAPS

-----------------------------------------------------------------------------
\* The inductive invariant.

PlaceInv ==
    /\ pc \in {"start", "poll", "call", "query", "finally", "terminated", "killed", "end"}
    /\ daemon \in {"none", "starting", "ready", "hung", "dead", "reaped"}
    /\ socket \in BOOLEAN /\ tries \in 0..(Polls - 1)
    /\ verdict \in Statuses /\ breached \in BOOLEAN /\ hung \in BOOLEAN

\* A daemon is started in the first step only, and waited for in the last.
DaemonInv ==
    /\ pc = "start" => daemon = "none"
    /\ pc = "end" => daemon \in {"none", "reaped"}

StepInv ==
    /\ step \in 1..(Len(Commands) + 1)
    /\ pc = "query" => step <= Len(Queries)

ChoiceInv == fault \in FaultChoices /\ aux \in {"none", "own", "path"}

RecordInv == queue \in Seq(Rows) /\ stored \in Seq(Rows) /\ held \in Seq(Rows)

\* One command more than its share may have been logged: the one with the extra record.
Surplus == IF fault.in = "command" /\ fault.at < step THEN 1 ELSE 0
CountInv ==
    /\ Len(held) <= 1
    /\ Len(queue) + Len(stored) <= Len(Commands) + 1
    /\ pc \in {"start", "poll", "call"} =>
          Len(queue) + Len(stored) + Len(held) <= step - 1 + Surplus

HistoryInv == PlaceInv /\ DaemonInv /\ StepInv /\ ChoiceInv /\ RecordInv /\ CountInv

-----------------------------------------------------------------------------
\* Facts about the model's constants.

\* Sequences over a set are closed under concatenation, and lengths add up.
LEMMA Joined ==
    ASSUME NEW S, NEW a \in Seq(S), NEW b \in Seq(S)
    PROVE  a \o b \in Seq(S) /\ Len(a \o b) = Len(a) + Len(b)
BY ConcatProperties

LEMMA SixJoined ==
    ASSUME NEW S, NEW a \in Seq(S), NEW b \in Seq(S), NEW c \in Seq(S), NEW d \in Seq(S),
           NEW e \in Seq(S), NEW f \in Seq(S)
    PROVE  /\ a \o b \o c \o d \o e \o f \in Seq(S)
           /\ Len(a \o b \o c \o d \o e \o f) = Len(a) + Len(b) + Len(c) + Len(d) + Len(e) + Len(f)
<1>1. a \o b \in Seq(S) /\ Len(a \o b) = Len(a) + Len(b)
  BY Joined
<1>2. a \o b \o c \in Seq(S) /\ Len(a \o b \o c) = Len(a) + Len(b) + Len(c)
  BY <1>1, Joined
<1>3. a \o b \o c \o d \in Seq(S) /\ Len(a \o b \o c \o d) = Len(a) + Len(b) + Len(c) + Len(d)
  BY <1>2, Joined
<1>4. /\ a \o b \o c \o d \o e \in Seq(S)
      /\ Len(a \o b \o c \o d \o e) = Len(a) + Len(b) + Len(c) + Len(d) + Len(e)
  BY <1>3, Joined
<1> QED
  BY <1>4, Joined

\* The commands of an installation, and of the script.
Adds(i) == <<RemoteCommand(i), Row(i, "runtime", "install"), Row(i, "app", "install")>>
Updates(i) == <<RemoteCommand(i), Row(i, "app", "update")>>
Removal == <<Row("user", "app", "uninstall")>>

LEMMA PartsShape ==
    /\ \A i \in Installations : /\ Adds(i) \in Seq(Rows) /\ Len(Adds(i)) = 3
                                /\ Updates(i) \in Seq(Rows) /\ Len(Updates(i)) = 2
    /\ Removal \in Seq(Rows) /\ Len(Removal) = 1
<1>1. \A i \in Installations : /\ RemoteCommand(i) \in Rows /\ Row(i, "runtime", "install") \in Rows
                               /\ Row(i, "app", "install") \in Rows /\ Row(i, "app", "update") \in Rows
                               /\ Row(i, "app", "uninstall") \in Rows
  BY DEF RemoteCommand, Row, Rows
<1>2. \A i \in Installations : Adds(i) \in Seq(Rows) /\ Len(Adds(i)) = 3
  BY <1>1 DEF Adds
<1>3. \A i \in Installations : Updates(i) \in Seq(Rows) /\ Len(Updates(i)) = 2
  BY <1>1 DEF Updates
<1>4. Removal \in Seq(Rows) /\ Len(Removal) = 1
  BY <1>1 DEF Installations, Removal
<1> QED
  BY <1>2, <1>3, <1>4

\* The script runs fourteen commands, each of which changes one installation.
LEMMA CommandsShape == Commands \in Seq(Rows) /\ Len(Commands) = 14
<1>1. "user" \in Installations /\ "system" \in Installations /\ "alt" \in Installations
  BY DEF Installations
<1>2. Commands = Adds("user") \o Adds("system") \o Adds("alt")
                 \o Updates("user") \o Updates("alt") \o Removal
  BY DEF Commands, Adds, Updates, Removal
<1>3. /\ Adds("user") \in Seq(Rows) /\ Adds("system") \in Seq(Rows) /\ Adds("alt") \in Seq(Rows)
      /\ Updates("user") \in Seq(Rows) /\ Updates("alt") \in Seq(Rows) /\ Removal \in Seq(Rows)
  BY <1>1, PartsShape
<1>4. /\ Len(Adds("user")) = 3 /\ Len(Adds("system")) = 3 /\ Len(Adds("alt")) = 3
      /\ Len(Updates("user")) = 2 /\ Len(Updates("alt")) = 2 /\ Len(Removal) = 1
  BY <1>1, PartsShape
<1> DEFINE all == Adds("user") \o Adds("system") \o Adds("alt")
                  \o Updates("user") \o Updates("alt") \o Removal
<1>5. /\ all \in Seq(Rows)
      /\ Len(all) = Len(Adds("user")) + Len(Adds("system")) + Len(Adds("alt"))
                     + Len(Updates("user")) + Len(Updates("alt")) + Len(Removal)
  BY <1>3, SixJoined
<1>6. Commands = all
  BY <1>2
<1> HIDE DEF all
<1>7. Len(all) = 3 + 3 + 3 + 2 + 2 + 1
  BY <1>4, <1>5, Zenon
<1>8. Len(all) = 14
  BY <1>7
<1> QED
  BY <1>5, <1>6, <1>8

LEMMA CommandIsRow == \A i \in 1..Len(Commands) : Commands[i] \in Rows
BY CommandsShape, ElementOfSeq

LEMMA QueriesShape == Len(Queries) = 6
BY DEF Queries

LEMMA FaultShape ==
    ASSUME NEW f \in FaultChoices
    PROVE  f.at \in Nat /\ (f.in = "command" => f.how \in CommandFaults)
<1>1. CASE f = [in |-> "none", at |-> 0, how |-> "none"]
  BY <1>1
<1>2. CASE f \in {[in |-> "command", at |-> i, how |-> h] : i \in ChangeSteps, h \in Faults \intersect CommandFaults}
  BY <1>2, CommandsShape DEF ChangeSteps
<1>3. CASE f \in {[in |-> "query", at |-> i, how |-> h] : i \in DOMAIN Queries, h \in Faults \ CommandFaults}
  BY <1>3 DEF Queries
<1> QED
  BY <1>1, <1>2, <1>3 DEF FaultChoices

\* A command sends at most one record, or two where it logs a change that did not happen.
LEMMA RecordsShape ==
    ASSUME ChoiceInv, NEW row \in Rows
    PROVE  /\ Records(row) \in Seq(Rows)
           /\ Len(Records(row)) <= IF Here("command") /\ fault.how # "late" THEN 2 ELSE 1
<1>1. CASE IsAuxiliary(row)
  <2>1. [row EXCEPT !.inst = "path"] \in Rows
    BY DEF Rows
  <2>2. aux \in {"none", "own", "path"}
    BY DEF ChoiceInv
  <2>3. CASE aux = "none"
    BY <1>1, <2>3 DEF Records
  <2>4. CASE aux = "own"
    BY <1>1, <2>4 DEF Records
  <2>5. CASE aux = "path"
    BY <1>1, <2>1, <2>5 DEF Records
  <2> QED
    BY <2>2, <2>3, <2>4, <2>5
<1>2. CASE ~IsAuxiliary(row) /\ ~Here("command")
  BY <1>2 DEF Records
<1>3. CASE ~IsAuxiliary(row) /\ Here("command")
  <2>1. fault.how \in CommandFaults
    BY <1>3, FaultShape DEF ChoiceInv, Here
  <2>2. \E i \in Installations : i # row.inst
    BY DEF Installations
  <2>3. (CHOOSE i \in Installations : i # row.inst) \in Installations
    BY <2>2
  <2>4. [row EXCEPT !.inst = CHOOSE i \in Installations : i # row.inst] \in Rows
    BY <2>3 DEF Rows
  <2>5. [row EXCEPT !.change = "auxiliary"] \in Rows /\ [row EXCEPT !.change = "uninstall"] \in Rows
    BY DEF Rows
  <2>6. CASE fault.how = "omits"
    BY <1>3, <2>6 DEF Records
  <2>7. CASE fault.how = "astray"
    BY <1>3, <2>4, <2>7 DEF Records
  <2>8. CASE fault.how = "mislabels"
    BY <1>3, <2>5, <2>8 DEF Records
  <2>9. CASE fault.how \in {"late", "fails"}
    BY <1>3, <2>9 DEF Records
  <2>10. CASE fault.how = "extra"
    BY <1>3, <2>5, <2>10 DEF Records
  <2> QED
    BY <2>1, <2>6, <2>7, <2>8, <2>9, <2>10 DEF CommandFaults
<1> QED
  BY <1>1, <1>2, <1>3

-----------------------------------------------------------------------------
\* The steps.

LEMMA InitHolds == Init => HistoryInv
<1> SUFFICES ASSUME Init PROVE HistoryInv
  OBVIOUS
<1>1. PlaceInv /\ DaemonInv
  <2>1. tries \in 0..(Polls - 1)
    BY PollsAssumption DEF Init
  <2>2. socket \in BOOLEAN /\ breached \in BOOLEAN /\ hung \in BOOLEAN
    BY DEF Init
  <2> QED
    BY <2>1, <2>2 DEF Init, PlaceInv, DaemonInv, Statuses
<1>2. StepInv
  BY CommandsShape DEF Init, StepInv
<1>3. ChoiceInv /\ RecordInv
  BY DEF Init, ChoiceInv, RecordInv
<1>4. CountInv
  BY CommandsShape DEF Init, CountInv, Surplus
<1> QED
  BY <1>1, <1>2, <1>3, <1>4 DEF HistoryInv

LEMMA PlaceStep == HistoryInv /\ [Next]_vars => PlaceInv'
<1> SUFFICES ASSUME HistoryInv, [Next]_vars PROVE PlaceInv'
  OBVIOUS
<1> USE DEF HistoryInv, PlaceInv, Statuses
<1>1. CASE Bind \/ Store \/ Die \/ Hang
  BY <1>1 DEF Bind, Store, Die, Hang, Journald
<1>2. CASE Start
  BY <1>2 DEF Start
<1>3. CASE Poll
  BY <1>3, PollsAssumption DEF Poll, Leave
<1>4. CASE Call
  <2>1. breached' \in BOOLEAN
    BY <1>4 DEF Call
  <2>2. pc' \in {"call", "finally"} /\ verdict' \in Statuses
    BY <1>4 DEF Call, Leave
  <2>3. UNCHANGED <<daemon, socket, tries, hung>>
    BY <1>4 DEF Call
  <2> QED
    BY <2>1, <2>2, <2>3
<1>5. CASE Sync
  BY <1>5 DEF Sync, Leave
<1>6. CASE Query
  <2>1. breached' \in BOOLEAN
    BY <1>6 DEF Query
  <2>2. pc' \in {"query", "finally"} /\ verdict' \in Statuses
    BY <1>6 DEF Query, Leave
  <2>3. UNCHANGED <<daemon, socket, tries, hung>>
    BY <1>6 DEF Query
  <2> QED
    BY <2>1, <2>2, <2>3
<1>7. CASE TimesOut \/ Terminate \/ Wait
  BY <1>7 DEF TimesOut, Leave, Terminate, Wait
<1>8. CASE UNCHANGED vars
  BY <1>8 DEF vars
<1> QED
  BY <1>1, <1>2, <1>3, <1>4, <1>5, <1>6, <1>7, <1>8 DEF Next, Script, Done

\* Nothing revives a daemon that was waited for, and only Wait ends a script that started one.
LEMMA DaemonStep == HistoryInv /\ [Next]_vars => DaemonInv'
<1> SUFFICES ASSUME HistoryInv, [Next]_vars PROVE DaemonInv'
  OBVIOUS
<1> USE DEF HistoryInv, DaemonInv
<1>1. CASE Bind \/ Store \/ Die \/ Hang
  BY <1>1 DEF Bind, Store, Die, Hang, Alive, Journald
<1>2. CASE Start
  BY <1>2 DEF Start
<1>3. CASE Poll
  BY <1>3 DEF Poll, Leave
<1>4. CASE Call
  BY <1>4 DEF Call, Leave
<1>5. CASE Sync
  BY <1>5 DEF Sync, Leave
<1>6. CASE Query
  BY <1>6 DEF Query, Leave
<1>7. CASE TimesOut \/ Terminate \/ Wait
  BY <1>7 DEF TimesOut, Leave, Terminate, Wait
<1>8. CASE UNCHANGED vars
  BY <1>8 DEF vars
<1> QED
  BY <1>1, <1>2, <1>3, <1>4, <1>5, <1>6, <1>7, <1>8 DEF Next, Script, Done

LEMMA StepStep == HistoryInv /\ [Next]_vars => StepInv' /\ ChoiceInv'
<1> SUFFICES ASSUME HistoryInv, [Next]_vars PROVE StepInv' /\ ChoiceInv'
  OBVIOUS
<1>1. UNCHANGED <<aux, fault>>
  BY DEF Next, vars, Bind, Store, Die, Hang, Journald, Start, Poll, Call, Sync, Query, TimesOut, Script, Terminate, Wait, Done
<1>2. ChoiceInv'
  BY <1>1 DEF HistoryInv, ChoiceInv
<1>3. StepInv'
  <2> USE CommandsShape, QueriesShape DEF HistoryInv, StepInv
  <2>1. CASE Bind \/ Store \/ Die \/ Hang
    BY <2>1 DEF Bind, Store, Die, Hang, Journald
  <2>2. CASE Start
    BY <2>2 DEF Start
  <2>3. CASE Poll
    BY <2>3 DEF Poll, Leave
  <2>4. CASE Call
    <3>1. pc' \in {"call", "finally"}
      BY <2>4 DEF Call, Leave
    <3>2. step <= Len(Commands) /\ (step' = step \/ step' = step + 1)
      BY <2>4 DEF Call
    <3> QED
      BY <3>1, <3>2
  <2>5. CASE Sync
    BY <2>5 DEF Sync, Leave
  <2>6. CASE Query
    BY <2>6 DEF Query, Leave
  <2>7. CASE TimesOut \/ Terminate \/ Wait
    BY <2>7 DEF TimesOut, Leave, Terminate, Wait
  <2>8. CASE UNCHANGED vars
    BY <2>8 DEF vars
  <2> QED
    BY <2>1, <2>2, <2>3, <2>4, <2>5, <2>6, <2>7, <2>8 DEF Next, Script, Done
<1> QED
  BY <1>2, <1>3

LEMMA RecordStep == HistoryInv /\ [Next]_vars => RecordInv'
<1> SUFFICES ASSUME HistoryInv, [Next]_vars PROVE RecordInv'
  OBVIOUS
<1> USE DEF HistoryInv, RecordInv
<1>1. CASE Store
  <2>1. Head(queue) \in Rows /\ Tail(queue) \in Seq(Rows)
    BY <1>1 DEF Store
  <2>2. Append(stored, Head(queue)) \in Seq(Rows)
    BY <2>1
  <2> QED
    BY <1>1, <2>1, <2>2 DEF Store, Journald
<1>2. CASE Die
  BY <1>2 DEF Die, Journald
<1>3. CASE Call
  <2>0. step \in 1..Len(Commands)
    <3>1. step <= Len(Commands)
      BY <1>3 DEF Call
    <3> QED
      BY <3>1, CommandsShape DEF StepInv
  <2>1. Commands[step] \in Rows
    BY <2>0, CommandIsRow
  <2>2. Records(Commands[step]) \in Seq(Rows)
    BY <2>1, RecordsShape
  <2> DEFINE sent == Records(Commands[step]) \o held
  <2>3. sent \in Seq(Rows) /\ queue \o sent \in Seq(Rows)
    BY <2>2, Joined
  <2>4. <<Commands[step]>> \in Seq(Rows) /\ <<>> \in Seq(Rows)
    BY <2>1
  <2>5. queue' \in {queue, queue \o sent}
    BY <1>3 DEF Call
  <2>6. held' \in {held, <<Commands[step]>>, <<>>}
    BY <1>3 DEF Call
  <2>7. stored' = stored
    BY <1>3 DEF Call
  <2> HIDE DEF sent
  <2> QED
    BY <2>3, <2>4, <2>5, <2>6, <2>7
<1>4. CASE UNCHANGED <<queue, stored, held>>
  BY <1>4
<1> QED
  BY <1>1, <1>2, <1>3, <1>4
     DEF Next, vars, Bind, Hang, Journald, Start, Poll, Sync, Query, TimesOut, Script, Terminate, Wait, Done

LEMMA CountStep == HistoryInv /\ [Next]_vars => CountInv'
<1> SUFFICES ASSUME HistoryInv, [Next]_vars PROVE CountInv'
  OBVIOUS
<1> USE DEF HistoryInv
<1>0. /\ Len(queue) \in Nat /\ Len(stored) \in Nat /\ Len(held) \in Nat
      /\ step \in Nat /\ fault.at \in Nat /\ Surplus \in {0, 1}
  BY FaultShape, CommandsShape DEF RecordInv, StepInv, ChoiceInv, Surplus
<1>1. CASE Store
  <2>1. Len(queue') = Len(queue) - 1 /\ Len(stored') = Len(stored) + 1
    BY <1>1 DEF Store, RecordInv
  <2>2. held' = held /\ step' = step /\ pc' = pc /\ fault' = fault
    BY <1>1 DEF Store, Journald
  <2>3. Surplus' = Surplus
    BY <2>2 DEF Surplus
  <2> QED
    BY <1>0, <2>1, <2>2, <2>3 DEF CountInv
<1>2. CASE Die
  <2>1. Len(queue') = 0 /\ stored' = stored /\ held' = held /\ step' = step /\ pc' = pc /\ fault' = fault
    BY <1>2 DEF Die, Journald
  <2>2. Surplus' = Surplus
    BY <2>1 DEF Surplus
  <2> QED
    BY <1>0, <2>1, <2>2, CommandsShape DEF CountInv
<1>3. CASE Call /\ step' = step + 1
  <2>1. Commands[step] \in Rows /\ step <= Len(Commands)
    BY <1>3, CommandsShape DEF Call, StepInv
  <2>2. /\ Records(Commands[step]) \in Seq(Rows)
        /\ Len(Records(Commands[step])) <= IF Here("command") /\ fault.how # "late" THEN 2 ELSE 1
    BY <2>1, RecordsShape
  <2> DEFINE sent == Records(Commands[step]) \o held
  <2>3. sent \in Seq(Rows) /\ Len(sent) = Len(Records(Commands[step])) + Len(held)
    BY <2>2, Joined DEF RecordInv
  <2>4. Len(queue \o sent) = Len(queue) + Len(sent)
    BY <2>3, Joined DEF RecordInv
  <2>5. /\ queue' \in {queue, queue \o sent} /\ stored' = stored /\ pc = "call" /\ fault' = fault
        /\ held' = IF Here("command") /\ fault.how = "late" THEN <<Commands[step]>> ELSE <<>>
    BY <1>0, <1>3 DEF Call
  <2>6. Len(queue') <= Len(queue) + Len(Records(Commands[step])) + Len(held)
    <3> HIDE DEF sent
    <3> QED
      BY <1>0, <2>2, <2>3, <2>4, <2>5
  <2>7. Len(held') = IF Here("command") /\ fault.how = "late" THEN 1 ELSE 0
    BY <2>5
  <2>8. Len(queue) + Len(stored) + Len(held) <= step - 1 + Surplus /\ step' = step + 1
    BY <1>3, <2>5 DEF CountInv
  <2>9. Len(stored') = Len(stored) /\ Len(queue') \in Nat /\ Len(Records(Commands[step])) \in Nat
    <3>1. Len(queue') \in {Len(queue), Len(queue) + Len(sent)}
      BY <2>4, <2>5
    <3> HIDE DEF sent
    <3> QED
      BY <1>0, <2>2, <2>3, <2>5, <3>1
  <2> HIDE DEF sent
  <2>10. Len(Records(Commands[step])) + Len(held') <= IF Here("command") THEN 2 ELSE 1
    BY <2>2, <2>7, <2>9
  <2>11. Surplus + (IF Here("command") THEN 1 ELSE 0) <= Surplus' /\ Surplus' \in {0, 1}
    <3>1. step' = step + 1 /\ fault' = fault
      BY <2>5, <2>8
    <3> QED
      BY <1>0, <3>1 DEF Here, Surplus
  <2>12. Len(queue') + Len(stored') + Len(held') <= step' - 1 + Surplus'
    <3> HIDE DEF HistoryInv
    <3> QED
      BY <1>0, <2>6, <2>7, <2>8, <2>9, <2>10, <2>11
  <2>13. Len(queue') + Len(stored') <= Len(Commands) + 1
    <3>1. Len(held') \in {0, 1}
      BY <2>7
    <3> HIDE DEF HistoryInv
    <3> QED
      BY <1>0, <2>1, <2>8, <2>9, <2>11, <2>12, <3>1, CommandsShape
  <2> QED
    BY <2>7, <2>12, <2>13 DEF CountInv
<1>4. CASE /\ UNCHANGED <<queue, stored, held, fault>>
           /\ pc' \in {"start", "poll", "call"} => pc \in {"start", "poll", "call"} /\ step' = step
  <2>1. pc' \in {"start", "poll", "call"} => Surplus' = Surplus
    BY <1>4 DEF Surplus
  <2> QED
    BY <1>4, <2>1 DEF CountInv
<1>5. CASE Call /\ step' # step + 1
  <2>1. pc' = "finally" /\ UNCHANGED <<queue, stored, held, fault>>
    BY <1>5 DEF Call, Leave
  <2> QED
    BY <1>4, <2>1
<1>6. CASE Bind \/ Hang \/ Start \/ Poll
  BY <1>4, <1>6 DEF Bind, Hang, Journald, Start, Poll, Leave
<1>7. CASE Sync \/ Query \/ TimesOut \/ Terminate \/ Wait
  BY <1>4, <1>7 DEF Sync, Query, TimesOut, Leave, Terminate, Wait
<1>8. CASE UNCHANGED vars
  BY <1>4, <1>8 DEF vars
<1> QED
  BY <1>1, <1>2, <1>3, <1>5, <1>6, <1>7, <1>8 DEF Next, Script, Done

-----------------------------------------------------------------------------
\* The theorems.

LEMMA HistoryAlways == Spec => []HistoryInv
<1>1. HistoryInv /\ [Next]_vars => HistoryInv'
  BY PlaceStep, DaemonStep, StepStep, RecordStep, CountStep DEF HistoryInv
<1> QED
  BY InitHolds, <1>1, PTL DEF Spec

\* The script's places, its bounded polling, and the bound on what is logged: however the
\* target breaks its contract, at most one record more than there are commands is sent or
\* stored, and at most one is held back (maintenance_scenarios.py:356-486).
THEOREM HistoryTypes == Spec => []TypeOK
<1>1. HistoryInv => TypeOK
  BY DEF HistoryInv, PlaceInv, StepInv, CountInv, TypeOK
<1> QED
  BY HistoryAlways, <1>1, PTL

\* Whether the case passes, is blocked or fails, and whenever journald dies or hangs, it
\* is waited for before the case ends: the finally block of _journal terminates, kills and
\* reaps it (maintenance_scenarios.py:480-486).
THEOREM DaemonIsReaped == Spec => []NothingLeft
<1>1. HistoryInv => NothingLeft
  BY DEF HistoryInv, DaemonInv, NothingLeft
<1> QED
  BY HistoryAlways, <1>1, PTL
-----------------------------------------------------------------------------
\* Induction on the numbers, and functions defined by recursion.

LEMMA Least ==
    ASSUME NEW T \in SUBSET Nat, T # {}
    PROVE  \E n \in T : \A m \in T : n <= m
<1>1. PICK n \in T : \A m \in T : ~(<<m, n>> \in OpToRel(<, Nat))
  BY WFMin, NatLessThanWellFounded
<1>2. ASSUME NEW m \in T PROVE n <= m
  <2>1. ~(m < n)
    BY <1>1 DEF OpToRel
  <2> QED
    BY <2>1
<1> QED
  BY <1>2

LEMMA Induction ==
    ASSUME NEW A, 0 \in A, \A n \in Nat : n \in A => n + 1 \in A
    PROVE  \A n \in Nat : n \in A
<1> SUFFICES ASSUME NEW n \in Nat, n \notin A PROVE FALSE
  OBVIOUS
<1>1. PICK m \in Nat \ A : \A k \in Nat \ A : m <= k
  BY Least
<1>2. m - 1 \in Nat /\ m - 1 \in A
  BY <1>1
<1> QED
  BY <1>1, <1>2

Built(m, V, v, next) == \E f \in [0..m -> V] : f[0] = v /\ \A i \in 1..m : f[i] = next[<<i, f[i - 1]>>]

LEMMA Recursion ==
    ASSUME NEW n \in Nat, NEW V, NEW v \in V, NEW next \in [(1..n) \X V -> V]
    PROVE  Built(n, V, v, next)
<1> DEFINE A == {m \in Nat : m <= n => Built(m, V, v, next)}
<1>1. 0 \in A
  <2>1. [i \in 0..0 |-> v] \in [0..0 -> V] /\ [i \in 0..0 |-> v][0] = v
    OBVIOUS
  <2>2. Built(0, V, v, next)
    <3> DEFINE f == [i \in 0..0 |-> v]
    <3>1. f \in [0..0 -> V] /\ f[0] = v
      BY <2>1
    <3>2. \A i \in 1..0 : f[i] = next[<<i, f[i - 1]>>]
      <4>1. \A i \in 1..0 : FALSE
        OBVIOUS
      <4> QED
        BY <4>1
    <3> HIDE DEF f
    <3> QED
      BY <3>1, <3>2 DEF Built
  <2> QED
    BY <2>2
<1>2. ASSUME NEW m \in Nat, m \in A, m + 1 <= n PROVE Built(m + 1, V, v, next)
  <2>1. PICK f \in [0..m -> V] : f[0] = v /\ \A i \in 1..m : f[i] = next[<<i, f[i - 1]>>]
    BY <1>2 DEF Built
  <2> DEFINE g == [i \in 0..(m + 1) |-> IF i <= m THEN f[i] ELSE next[<<m + 1, f[m]>>]]
  <2>2. next[<<m + 1, f[m]>>] \in V
    BY <1>2, <2>1
  <2>3. g \in [0..(m + 1) -> V] /\ g[0] = v
    BY <2>1, <2>2
  <2>4. ASSUME NEW i \in 1..(m + 1) PROVE g[i] = next[<<i, g[i - 1]>>]
    <3>1. g[i - 1] = f[i - 1] /\ i \in 0..(m + 1)
      BY <2>4
    <3>2. CASE i <= m
      <4>1. g[i] = f[i] /\ i \in 1..m
        BY <3>1, <3>2
      <4> QED
        BY <2>1, <3>1, <4>1
    <3>3. CASE i = m + 1
      <4>1. i - 1 = m /\ ~(i <= m) /\ i \in 0..(m + 1)
        BY <3>3
      <4>2. g[i] = next[<<m + 1, f[m]>>]
        BY <4>1
      <4>3. g[i - 1] = f[m]
        BY <3>1, <4>1
      <4> HIDE DEF g
      <4> QED
        BY <3>3, <4>2, <4>3
    <3> QED
      BY <2>4, <3>2, <3>3
  <2> HIDE DEF g
  <2> QED
    BY <2>3, <2>4 DEF Built
<1>3. n \in A
  <2>1. \A m \in Nat : m \in A => m + 1 \in A
    BY <1>2
  <2> HIDE DEF A
  <2> QED
    BY <1>1, <2>1, Induction
<1> QED
  BY <1>3

\* The comparison and the selection are the functions their definitions say.
ScanRule(f, events, steps) ==
    [i \in 0..Len(events) |->
        IF i = 0 THEN 0
        ELSE LET n == f[i - 1]
             IN IF n < Len(steps) /\ events[i] = steps[n + 1] THEN n + 1 ELSE n]
ScanOf(events, steps) == CHOOSE f : f = ScanRule(f, events, steps)

LEMMA MatchesScan ==
    ASSUME NEW events, NEW steps
    PROVE  Matches(events, steps) <=> ScanOf(events, steps)[Len(events)] = Len(steps)
BY DEF Matches, ScanOf, ScanRule

KeptRule(f, rows, wanted) ==
    [i \in 0..Len(rows) |->
        IF i = 0 THEN <<>>
        ELSE IF rows[i] \in wanted THEN Append(f[i - 1], rows[i]) ELSE f[i - 1]]
KeptOf(rows, wanted) == CHOOSE f : f = KeptRule(f, rows, wanted)

LEMMA SelectKept ==
    ASSUME NEW rows, NEW wanted
    PROVE  Select(rows, wanted) = KeptOf(rows, wanted)[Len(rows)]
BY DEF Select, KeptOf, KeptRule

LEMMA ScanSteps ==
    ASSUME NEW S, NEW events \in Seq(S), NEW steps \in Seq(S)
    PROVE  LET f == ScanOf(events, steps) IN
           /\ f \in [0..Len(events) -> 0..Len(steps)] /\ f[0] = 0
           /\ \A i \in 1..Len(events) :
                 f[i] = IF f[i - 1] < Len(steps) /\ events[i] = steps[f[i - 1] + 1]
                        THEN f[i - 1] + 1 ELSE f[i - 1]
<1> DEFINE e == Len(events)
           m == Len(steps)
           next == [x \in (1..e) \X (0..m) |->
                       IF x[2] < m /\ events[x[1]] = steps[x[2] + 1] THEN x[2] + 1 ELSE x[2]]
<1>1. e \in Nat /\ m \in Nat
  BY LenProperties
<1> HIDE DEF e, m
<1>2. next \in [(1..e) \X (0..m) -> 0..m]
  BY <1>1
<1>3. 0 \in 0..m
  BY <1>1
<1>4. \A i \in 1..e, n \in 0..m :
         next[<<i, n>>] = IF n < m /\ events[i] = steps[n + 1] THEN n + 1 ELSE n
  BY <1>1
<1> HIDE DEF next
<1>5. PICK f \in [0..e -> 0..m] : f[0] = 0 /\ \A i \in 1..e : f[i] = next[<<i, f[i - 1]>>]
  <2> DEFINE V == 0..m
  <2>1. 0 \in V /\ next \in [(1..e) \X V -> V] /\ e \in Nat
    BY <1>1, <1>2, <1>3
  <2> HIDE DEF V
  <2>2. Built(e, V, 0, next)
    BY <2>1, Recursion, Zenon
  <2> QED
    BY <2>2 DEF V, Built
<1>6. ASSUME NEW i \in 1..e
      PROVE  f[i] = IF f[i - 1] < m /\ events[i] = steps[f[i - 1] + 1] THEN f[i - 1] + 1 ELSE f[i - 1]
  <2>1. f[i - 1] \in 0..m
    BY <1>1
  <2> QED
    BY <1>4, <1>5, <2>1
<1>7. f = ScanRule(f, events, steps)
  <2>1. ASSUME NEW i \in 0..e
        PROVE  f[i] = IF i = 0 THEN 0
                      ELSE LET n == f[i - 1]
                           IN IF n < m /\ events[i] = steps[n + 1] THEN n + 1 ELSE n
    <3>1. CASE i = 0
      BY <1>5, <3>1
    <3>2. CASE i # 0
      <4>1. i \in 1..e
        BY <1>1, <3>2
      <4> QED
        BY <1>6, <3>2, <4>1
    <3> QED
      BY <3>1, <3>2
  <2>2. f = [i \in 0..e |-> f[i]]
    BY <1>5
  <2> QED
    BY <2>1, <2>2 DEF ScanRule, e, m
<1>8. ScanOf(events, steps) = ScanRule(ScanOf(events, steps), events, steps)
  BY <1>7 DEF ScanOf
<1> DEFINE c == ScanOf(events, steps)
<1>9. c = [i \in 0..e |->
              IF i = 0 THEN 0
              ELSE LET n == c[i - 1]
                   IN IF n < m /\ events[i] = steps[n + 1] THEN n + 1 ELSE n]
  BY <1>8 DEF ScanRule, e, m
<1> HIDE DEF c
<1>10. c[0] = 0
  BY <1>1, <1>9
<1>11. ASSUME NEW i \in 1..e
       PROVE  c[i] = IF c[i - 1] < m /\ events[i] = steps[c[i - 1] + 1] THEN c[i - 1] + 1 ELSE c[i - 1]
  <2>1. i \in 0..e /\ i # 0
    BY <1>1
  <2> QED
    BY <1>9, <2>1
<1>12. \A i \in 0..e : c[i] \in 0..m
  <2> DEFINE A == {i \in Nat : i <= e => c[i] \in 0..m}
  <2>1. 0 \in A
    BY <1>1, <1>10
  <2>2. ASSUME NEW i \in Nat, i \in A PROVE i + 1 \in A
    <3>1. CASE i + 1 <= e
      <4>1. i + 1 \in 1..e /\ (i + 1) - 1 = i /\ c[i] \in 0..m
        BY <1>1, <2>2, <3>1
      <4>2. c[i + 1] = IF c[i] < m /\ events[i + 1] = steps[c[i] + 1] THEN c[i] + 1 ELSE c[i]
        BY <1>11, <4>1
      <4>3. c[i + 1] \in 0..m
        BY <1>1, <4>1, <4>2
      <4> QED
        BY <4>3
    <3>2. CASE ~(i + 1 <= e)
      BY <3>2
    <3> QED
      BY <3>1, <3>2
  <2> HIDE DEF A
  <2>3. \A i \in Nat : i \in A
    BY <2>1, <2>2, Induction
  <2> QED
    BY <1>1, <2>3 DEF A
<1>13. c \in [0..e -> 0..m]
  <2>1. DOMAIN c = 0..e /\ c = [i \in 0..e |-> c[i]]
    BY <1>9
  <2> QED
    BY <1>12, <2>1
<1> QED
  BY <1>10, <1>11, <1>13 DEF c, e, m

\* The first n steps are found, in their order, among the first i events.
Reaches(events, steps, i, n) ==
    \E g \in [1..n -> 1..i] : /\ \A k \in 1..n : events[g[k]] = steps[k]
                              /\ \A j, k \in 1..n : j < k => g[j] < g[k]

LEMMA ReachesNone ==
    ASSUME NEW events, NEW steps, NEW i \in Nat
    PROVE  Reaches(events, steps, i, 0)
<1>1. \A k \in 1..0 : FALSE
  OBVIOUS
<1> DEFINE g == [k \in 1..0 |-> 0]
<1>2. g \in [1..0 -> 1..i]
  BY <1>1
<1> HIDE DEF g
<1> QED
  BY <1>1, <1>2 DEF Reaches

LEMMA ReachesNothing ==
    ASSUME NEW events, NEW steps, NEW n \in Nat, Reaches(events, steps, 0, n)
    PROVE  n = 0
<1> SUFFICES ASSUME n # 0 PROVE FALSE
  OBVIOUS
<1>1. PICK g \in [1..n -> 1..0] : TRUE
  BY DEF Reaches
<1>2. 1 \in 1..n
  OBVIOUS
<1>3. g[1] \in 1..0
  BY <1>1, <1>2
<1> QED
  BY <1>3

\* The same events, and perhaps more of them.
LEMMA ReachesMore ==
    ASSUME NEW events, NEW more, NEW steps, NEW i \in Nat, NEW j \in Nat, NEW n \in Nat,
           i <= j, \A k \in 1..i : more[k] = events[k], Reaches(events, steps, i, n)
    PROVE  Reaches(more, steps, j, n)
<1>1. PICK g \in [1..n -> 1..i] : /\ \A k \in 1..n : events[g[k]] = steps[k]
                                  /\ \A p, k \in 1..n : p < k => g[p] < g[k]
  BY DEF Reaches
<1>2. g \in [1..n -> 1..j]
  BY <1>1
<1>3. \A k \in 1..n : more[g[k]] = steps[k]
  BY <1>1
<1> QED
  BY <1>1, <1>2, <1>3 DEF Reaches

\* The next event is the next step.
LEMMA ReachesNext ==
    ASSUME NEW events, NEW steps, NEW i \in Nat, NEW n \in Nat,
           Reaches(events, steps, i, n), events[i + 1] = steps[n + 1]
    PROVE  Reaches(events, steps, i + 1, n + 1)
<1>1. PICK g \in [1..n -> 1..i] : /\ \A k \in 1..n : events[g[k]] = steps[k]
                                  /\ \A j, k \in 1..n : j < k => g[j] < g[k]
  BY DEF Reaches
<1> DEFINE h == [k \in 1..(n + 1) |-> IF k <= n THEN g[k] ELSE i + 1]
<1>2. h \in [1..(n + 1) -> 1..(i + 1)]
  BY <1>1
<1>3. ASSUME NEW k \in 1..(n + 1) PROVE events[h[k]] = steps[k]
  <2>1. CASE k <= n
    <3>1. k \in 1..n /\ h[k] = g[k]
      BY <2>1
    <3> QED
      BY <1>1, <3>1
  <2>2. CASE k = n + 1
    <3>1. h[k] = i + 1
      BY <2>2
    <3> QED
      BY <2>2, <3>1
  <2> QED
    BY <2>1, <2>2
<1>4. ASSUME NEW j \in 1..(n + 1), NEW k \in 1..(n + 1), j < k PROVE h[j] < h[k]
  <2>1. j \in 1..n /\ h[j] = g[j] /\ g[j] \in 1..i
    BY <1>1, <1>4
  <2>2. CASE k <= n
    <3>1. k \in 1..n /\ h[k] = g[k]
      BY <2>2
    <3> HIDE DEF h
    <3> QED
      BY <1>1, <1>4, <2>1, <3>1
  <2>3. CASE k = n + 1
    <3>1. h[k] = i + 1
      BY <2>3
    <3> HIDE DEF h
    <3> QED
      BY <2>1, <3>1
  <2> QED
    BY <2>2, <2>3
<1> HIDE DEF h
<1> QED
  BY <1>2, <1>3, <1>4 DEF Reaches

\* The last event is the last step found, or is not needed.
LEMMA ReachesSplit ==
    ASSUME NEW events, NEW steps, NEW i \in Nat, NEW n \in Nat, n # 0,
           Reaches(events, steps, i + 1, n), ~Reaches(events, steps, i, n)
    PROVE  events[i + 1] = steps[n] /\ Reaches(events, steps, i, n - 1)
<1>1. PICK g \in [1..n -> 1..(i + 1)] : /\ \A k \in 1..n : events[g[k]] = steps[k]
                                        /\ \A j, k \in 1..n : j < k => g[j] < g[k]
  BY DEF Reaches
<1>2. n \in 1..n /\ g[n] \in 1..(i + 1)
  BY <1>1
<1>3. CASE g[n] <= i
  <2>1. ASSUME NEW k \in 1..n PROVE g[k] \in 1..i
    <3>1. k = n \/ g[k] < g[n]
      BY <1>1, <1>2
    <3> QED
      BY <1>1, <1>2, <1>3, <3>1
  <2>2. g \in [1..n -> 1..i]
    BY <1>1, <2>1
  <2> QED
    BY <1>1, <2>2 DEF Reaches
<1>4. CASE g[n] = i + 1
  <2>1. n - 1 \in 0..n /\ (n - 1) + 1 = n
    OBVIOUS
  <2>2. ASSUME NEW k \in 1..(n - 1) PROVE k \in 1..n /\ g[k] \in 1..i
    <3>1. k \in 1..n /\ k < n
      BY <2>1
    <3>2. g[k] < g[n] /\ g[k] \in 1..(i + 1)
      BY <1>1, <1>2, <3>1
    <3> QED
      BY <1>4, <3>1, <3>2
  <2> DEFINE h == [k \in 1..(n - 1) |-> g[k]]
  <2>3. h \in [1..(n - 1) -> 1..i] /\ \A k \in 1..(n - 1) : h[k] = g[k]
    BY <2>2
  <2> HIDE DEF h
  <2>4. \A k \in 1..(n - 1) : events[h[k]] = steps[k]
    BY <1>1, <2>2, <2>3
  <2>5. ASSUME NEW j \in 1..(n - 1), NEW k \in 1..(n - 1), j < k PROVE h[j] < h[k]
    <3>1. j \in 1..n /\ k \in 1..n /\ h[j] = g[j] /\ h[k] = g[k]
      BY <2>2, <2>3
    <3> QED
      BY <1>1, <2>5, <3>1
  <2>6. Reaches(events, steps, i, n - 1)
    BY <2>3, <2>4, <2>5 DEF Reaches
  <2> QED
    BY <1>1, <1>2, <1>4, <2>6
<1> QED
  BY <1>2, <1>3, <1>4

\* What the scan has counted has been found.
LEMMA ScanFinds ==
    ASSUME NEW S, NEW events \in Seq(S), NEW steps \in Seq(S)
    PROVE  \A i \in 0..Len(events) : Reaches(events, steps, i, ScanOf(events, steps)[i])
<1> DEFINE e == Len(events)
           m == Len(steps)
           f == ScanOf(events, steps)
           A == {i \in Nat : i <= e => Reaches(events, steps, i, f[i])}
<1>1. e \in Nat /\ m \in Nat
  BY LenProperties
<1>2. /\ f \in [0..e -> 0..m] /\ f[0] = 0
      /\ \A i \in 1..e : f[i] = IF f[i - 1] < m /\ events[i] = steps[f[i - 1] + 1]
                                THEN f[i - 1] + 1 ELSE f[i - 1]
  BY ScanSteps
<1> HIDE DEF e, m, f
<1>3. 0 \in A
  BY <1>2, ReachesNone
<1>4. ASSUME NEW i \in Nat, i \in A, i + 1 <= e PROVE Reaches(events, steps, i + 1, f[i + 1])
  <2>1. i + 1 \in 1..e /\ i \in 0..e /\ (i + 1) - 1 = i
    BY <1>1, <1>4
  <2>2. f[i + 1] = IF f[i] < m /\ events[i + 1] = steps[f[i] + 1] THEN f[i] + 1 ELSE f[i]
    BY <1>2, <2>1
  <2>3. f[i] \in Nat /\ Reaches(events, steps, i, f[i])
    BY <1>1, <1>2, <1>4, <2>1
  <2>4. CASE f[i + 1] = f[i]
    <3>1. Reaches(events, steps, i + 1, f[i])
      BY <2>3, ReachesMore
    <3> QED
      BY <2>4, <3>1
  <2>5. CASE f[i + 1] = f[i] + 1 /\ events[i + 1] = steps[f[i] + 1]
    <3>1. Reaches(events, steps, i + 1, f[i] + 1)
      BY <2>3, <2>5, ReachesNext
    <3> QED
      BY <2>5, <3>1
  <2> QED
    BY <2>2, <2>4, <2>5
<1>5. \A i \in Nat : i \in A
  <2>1. \A i \in Nat : i \in A => i + 1 \in A
    BY <1>4
  <2> HIDE DEF A
  <2> QED
    BY <1>3, <2>1, Induction
<1> QED
  BY <1>1, <1>5 DEF e, f

\* What can be found has been counted: the scan is never behind.
LEMMA ScanMisses ==
    ASSUME NEW S, NEW events \in Seq(S), NEW steps \in Seq(S)
    PROVE  \A i \in 0..Len(events), n \in 0..Len(steps) :
              Reaches(events, steps, i, n) => n <= ScanOf(events, steps)[i]
<1> DEFINE e == Len(events)
           m == Len(steps)
           f == ScanOf(events, steps)
           A == {i \in Nat : i <= e => \A n \in 0..m : Reaches(events, steps, i, n) => n <= f[i]}
<1>1. e \in Nat /\ m \in Nat
  BY LenProperties
<1>2. /\ f \in [0..e -> 0..m] /\ f[0] = 0
      /\ \A i \in 1..e : f[i] = IF f[i - 1] < m /\ events[i] = steps[f[i - 1] + 1]
                                THEN f[i - 1] + 1 ELSE f[i - 1]
  BY ScanSteps
<1> HIDE DEF e, m, f
<1>3. 0 \in A
  <2>1. ASSUME NEW n \in 0..m, Reaches(events, steps, 0, n) PROVE n = 0
    BY <1>1, <2>1, ReachesNothing
  <2> QED
    BY <1>1, <1>2, <2>1
<1>4. ASSUME NEW i \in Nat, i \in A, i + 1 <= e, NEW n \in 0..m, Reaches(events, steps, i + 1, n)
      PROVE  n <= f[i + 1]
  <2>1. i + 1 \in 1..e /\ i \in 0..e /\ (i + 1) - 1 = i
    BY <1>1, <1>4
  <2>2. f[i + 1] = IF f[i] < m /\ events[i + 1] = steps[f[i] + 1] THEN f[i] + 1 ELSE f[i]
    BY <1>2, <2>1
  <2>3. f[i] \in Nat /\ n \in Nat /\ f[i] <= f[i + 1] /\ f[i + 1] \in Nat
    <3>1. f[i] \in 0..m
      BY <1>2, <2>1
    <3> QED
      BY <1>1, <2>2, <3>1
  <2>4. \A p \in 0..m : Reaches(events, steps, i, p) => p <= f[i]
    BY <1>4, <2>1
  <2>5. CASE n = 0 \/ Reaches(events, steps, i, n)
    BY <2>3, <2>4, <2>5
  <2>6. CASE n # 0 /\ ~Reaches(events, steps, i, n)
    <3>1. events[i + 1] = steps[n] /\ Reaches(events, steps, i, n - 1)
      BY <1>4, <2>3, <2>6, ReachesSplit
    <3>2. n - 1 \in 0..m /\ n - 1 < m
      BY <1>1, <2>3, <2>6
    <3>3. n - 1 <= f[i]
      BY <2>4, <3>1, <3>2
    <3>4. CASE n - 1 = f[i]
      <4>1. f[i] < m /\ f[i] + 1 = n
        BY <2>3, <3>2, <3>4
      <4> QED
        BY <2>2, <2>3, <3>1, <4>1
    <3> QED
      BY <2>3, <3>3, <3>4
  <2> QED
    BY <2>5, <2>6
<1>5. \A i \in Nat : i \in A
  <2>1. \A i \in Nat : i \in A => i + 1 \in A
    BY <1>4
  <2> HIDE DEF A
  <2> QED
    BY <1>3, <2>1, Induction
<1> QED
  BY <1>1, <1>5 DEF e, m, f

\* The one pass is exact.
LEMMA MatchesExact ==
    ASSUME NEW S, NEW events \in Seq(S), NEW steps \in Seq(S)
    PROVE  Matches(events, steps) <=> Embeds(events, steps)
<1> DEFINE e == Len(events)
           m == Len(steps)
           c == ScanOf(events, steps)[e]
<1>1. e \in Nat /\ m \in Nat /\ DOMAIN events = 1..e /\ DOMAIN steps = 1..m
  BY LenProperties
<1>2. Matches(events, steps) <=> c = m
  BY MatchesScan
<1>3. e \in 0..e /\ m \in 0..m
  BY <1>1
<1>4. c \in 0..m
  <2>1. ScanOf(events, steps) \in [0..e -> 0..m]
    BY ScanSteps
  <2> QED
    BY <1>3, <2>1
<1>5. Reaches(events, steps, e, c)
  BY <1>3, ScanFinds
<1>6. Reaches(events, steps, e, m) => m <= c
  BY <1>3, ScanMisses
<1>7. Reaches(events, steps, e, m) <=> Embeds(events, steps)
  BY <1>1 DEF Reaches, Embeds
<1> HIDE DEF c, e, m
<1>8. c = m <=> Reaches(events, steps, e, m)
  BY <1>1, <1>4, <1>5, <1>6
<1> QED
  BY <1>2, <1>7, <1>8

\* The selection is built row by row.
LEMMA KeptSteps ==
    ASSUME NEW S, NEW rows \in Seq(S), NEW wanted
    PROVE  LET f == KeptOf(rows, wanted) IN
           /\ f \in [0..Len(rows) -> Seq(S)] /\ f[0] = <<>>
           /\ \A i \in 1..Len(rows) :
                 f[i] = IF rows[i] \in wanted THEN Append(f[i - 1], rows[i]) ELSE f[i - 1]
<1> DEFINE e == Len(rows)
           V == Seq(S)
           next == [x \in (1..e) \X V |-> IF rows[x[1]] \in wanted THEN Append(x[2], rows[x[1]]) ELSE x[2]]
<1>1. e \in Nat /\ \A i \in 1..e : rows[i] \in S
  BY LenProperties, ElementOfSeq
<1> HIDE DEF e
<1>2. next \in [(1..e) \X V -> V]
  <2>1. ASSUME NEW x \in (1..e) \X V
        PROVE  (IF rows[x[1]] \in wanted THEN Append(x[2], rows[x[1]]) ELSE x[2]) \in V
    <3>1. x[1] \in 1..e /\ x[2] \in Seq(S)
      BY <2>1
    <3>2. rows[x[1]] \in S
      BY <1>1, <3>1
    <3>3. Append(x[2], rows[x[1]]) \in Seq(S)
      BY <3>1, <3>2, AppendProperties
    <3> QED
      BY <3>1, <3>3
  <2> QED
    BY <2>1, Zenon
<1>3. <<>> \in V
  BY EmptySeq
<1>4. \A i \in 1..e, r \in V : next[<<i, r>>] = IF rows[i] \in wanted THEN Append(r, rows[i]) ELSE r
  OBVIOUS
<1> HIDE DEF next, V
<1>5. PICK f \in [0..e -> V] : f[0] = <<>> /\ \A i \in 1..e : f[i] = next[<<i, f[i - 1]>>]
  <2>1. Built(e, V, <<>>, next)
    BY <1>1, <1>2, <1>3, Recursion, Zenon
  <2> QED
    BY <2>1 DEF Built
<1>6. ASSUME NEW i \in 1..e
      PROVE  f[i] = IF rows[i] \in wanted THEN Append(f[i - 1], rows[i]) ELSE f[i - 1]
  <2>1. i - 1 \in 0..e
    BY <1>1
  <2>2. f[i - 1] \in V
    BY <1>5, <2>1
  <2>3. f[i] = next[<<i, f[i - 1]>>]
    BY <1>5
  <2> QED
    BY <1>4, <2>2, <2>3, Zenon
<1>7. f = KeptRule(f, rows, wanted)
  <2>1. ASSUME NEW i \in 0..e
        PROVE  f[i] = IF i = 0 THEN <<>>
                      ELSE IF rows[i] \in wanted THEN Append(f[i - 1], rows[i]) ELSE f[i - 1]
    <3>1. CASE i = 0
      BY <1>5, <3>1
    <3>2. CASE i # 0
      <4>1. i \in 1..e
        BY <1>1, <3>2
      <4> QED
        BY <1>6, <3>2, <4>1
    <3> QED
      BY <3>1, <3>2
  <2>2. f = [i \in 0..e |-> f[i]]
    BY <1>5
  <2> QED
    BY <2>1, <2>2 DEF KeptRule, e
<1>8. KeptOf(rows, wanted) = KeptRule(KeptOf(rows, wanted), rows, wanted)
  BY <1>7 DEF KeptOf
<1> DEFINE c == KeptOf(rows, wanted)
<1>9. c = [i \in 0..e |->
              IF i = 0 THEN <<>>
              ELSE IF rows[i] \in wanted THEN Append(c[i - 1], rows[i]) ELSE c[i - 1]]
  BY <1>8 DEF KeptRule, e
<1> HIDE DEF c
<1>10. c[0] = <<>>
  BY <1>1, <1>9
<1>11. ASSUME NEW i \in 1..e
       PROVE  c[i] = IF rows[i] \in wanted THEN Append(c[i - 1], rows[i]) ELSE c[i - 1]
  <2>1. i \in 0..e /\ i # 0
    BY <1>1
  <2> QED
    BY <1>9, <2>1
<1>12. \A i \in 0..e : c[i] \in V
  <2> DEFINE A == {i \in Nat : i <= e => c[i] \in V}
  <2>1. 0 \in A
    BY <1>3, <1>10
  <2>2. ASSUME NEW i \in Nat, i \in A PROVE i + 1 \in A
    <3>1. CASE i + 1 <= e
      <4>1. i + 1 \in 1..e /\ (i + 1) - 1 = i /\ c[i] \in V
        BY <1>1, <2>2, <3>1
      <4>2. c[i + 1] = IF rows[i + 1] \in wanted THEN Append(c[i], rows[i + 1]) ELSE c[i]
        BY <1>11, <4>1
      <4>3. Append(c[i], rows[i + 1]) \in V
        <5>1. rows[i + 1] \in S /\ c[i] \in Seq(S)
          BY <1>1, <4>1 DEF V
        <5> QED
          BY <5>1, AppendProperties DEF V
      <4> QED
        BY <4>1, <4>2, <4>3
    <3>2. CASE ~(i + 1 <= e)
      BY <3>2
    <3> QED
      BY <3>1, <3>2
  <2> HIDE DEF A
  <2>3. \A i \in Nat : i \in A
    BY <2>1, <2>2, Induction
  <2> QED
    BY <1>1, <2>3 DEF A
<1>13. c \in [0..e -> V]
  <2>1. DOMAIN c = 0..e /\ c = [i \in 0..e |-> c[i]]
    BY <1>9
  <2> QED
    BY <1>12, <2>1
<1> QED
  BY <1>10, <1>11, <1>13 DEF c, e, V

LEMMA SelectIsSeq ==
    ASSUME NEW S, NEW rows \in Seq(S), NEW wanted
    PROVE  Select(rows, wanted) \in Seq(S)
<1>1. Len(rows) \in 0..Len(rows)
  BY LenProperties
<1>2. KeptOf(rows, wanted) \in [0..Len(rows) -> Seq(S)]
  BY KeptSteps
<1> QED
  BY <1>1, <1>2, SelectKept

\* What is compared: sequences of steps.
Steps == [1..2 -> {"none", "runtime", "app", "auxiliary", "install", "update", "uninstall"}]
OwnRows == {r \in Rows : ~IsAuxiliary(r)}
ShownRows(inst) == {r \in Rows : r.inst \in {inst, "path"}}
LEMMA LifecycleIsSeq ==
    ASSUME NEW rows \in Seq(Rows)
    PROVE  /\ Select(rows, OwnRows) \in Seq(Rows)
           /\ Lifecycle(rows) = [i \in 1..Len(Select(rows, OwnRows)) |->
                 <<Select(rows, OwnRows)[i].ref, Select(rows, OwnRows)[i].change>>]
           /\ Lifecycle(rows) \in Seq(Steps)
           /\ Len(Lifecycle(rows)) = Len(Select(rows, OwnRows))
<1> DEFINE own == Select(rows, OwnRows)
<1>1. own \in Seq(Rows)
  BY SelectIsSeq
<1>2. Lifecycle(rows) = [i \in DOMAIN own |-> <<own[i].ref, own[i].change>>]
  BY DEF Lifecycle, OwnRows
<1> HIDE DEF own
<1>3. DOMAIN own = 1..Len(own) /\ Len(own) \in Nat
  BY <1>1, LenProperties
<1>4. ASSUME NEW i \in 1..Len(own) PROVE <<own[i].ref, own[i].change>> \in Steps
  <2>1. own[i] \in Rows
    BY <1>1, ElementOfSeq
  <2>2. own[i].ref \in {"none", "runtime", "app"} /\ own[i].change \in {"auxiliary", "install", "update", "uninstall"}
    BY <2>1 DEF Rows
  <2> QED
    BY <2>2 DEF Steps
<1>5. Lifecycle(rows) = [i \in 1..Len(own) |-> <<own[i].ref, own[i].change>>]
  BY <1>2, <1>3
<1>6. Lifecycle(rows) \in [1..Len(own) -> Steps]
  BY <1>4, <1>5
<1>7. Lifecycle(rows) \in Seq(Steps) /\ Len(Lifecycle(rows)) = Len(own)
  BY <1>3, <1>6, LenProperties
<1> QED
  BY <1>1, <1>5, <1>7 DEF own

AllSteps == <<<<"runtime", "install">>, <<"app", "install">>, <<"app", "update">>, <<"app", "uninstall">>>>
LEMMA Tuples ==
    ASSUME NEW S, NEW a \in S, NEW b \in S, NEW c \in S, NEW d \in S
    PROVE  <<a, b>> \in Seq(S) /\ <<a, b, c>> \in Seq(S) /\ <<a, b, c, d>> \in Seq(S)
OBVIOUS

LEMMA RequiredShape ==
    /\ Required("user") = AllSteps
    /\ Required("system") = <<<<"runtime", "install">>, <<"app", "install">>>>
    /\ Required("alt") = <<<<"runtime", "install">>, <<"app", "install">>, <<"app", "update">>>>
<1> DEFINE two == <<<<"runtime", "install">>, <<"app", "install">>>>
           three == <<<<"runtime", "install">>, <<"app", "install">>, <<"app", "update">>>>
<1>1. AllSteps \in Seq(Steps) /\ two \in Seq(Steps) /\ three \in Seq(Steps)
  BY DEF AllSteps, Steps
<1>2. Len(AllSteps) = 4 /\ Len(two) = 2 /\ Len(three) = 3
  BY DEF AllSteps
<1>3. /\ two[1] = AllSteps[1] /\ two[2] = AllSteps[2]
      /\ three[1] = AllSteps[1] /\ three[2] = AllSteps[2] /\ three[3] = AllSteps[3]
  BY DEF AllSteps
<1>4. SubSeq(AllSteps, 1, 2) = two
  <2> DEFINE c == SubSeq(AllSteps, 1, 2)
  <2>1. c \in Seq(Steps) /\ Len(c) = 2 /\ c[1] = AllSteps[1] /\ c[2] = AllSteps[2]
    BY <1>1, <1>2
  <2> HIDE DEF c, two
  <2>2. \A k \in 1..Len(c) : c[k] = two[k]
    BY <1>3, <2>1
  <2> QED
    BY <1>1, <1>2, <2>1, <2>2, SeqEqual DEF c
<1>5. SubSeq(AllSteps, 1, 3) = three
  <2> DEFINE c == SubSeq(AllSteps, 1, 3)
  <2>1. c \in Seq(Steps) /\ Len(c) = 3
    <3>1. \A i \in 1..3 : AllSteps[i] \in Steps
      <4>1. \A i \in 1..Len(AllSteps) : AllSteps[i] \in Steps
        BY <1>1, ElementOfSeq, Zenon
      <4> QED
        BY <1>2, <4>1
    <3> QED
      BY <3>1, SubSeqProperties
  <2>2. c[1] = AllSteps[1] /\ c[2] = AllSteps[2] /\ c[3] = AllSteps[3]
    BY <1>1, <1>2
  <2> HIDE DEF c, three
  <2>3. \A k \in 1..Len(c) : c[k] = three[k]
    BY <1>3, <2>1, <2>2
  <2> QED
    BY <1>1, <1>2, <2>1, <2>3, SeqEqual DEF c
<1> QED
  BY <1>4, <1>5 DEF Required, AllSteps

LEMMA RequiredIsSeq == \A q \in Installations : Required(q) \in Seq(Steps)
<1>1. <<"runtime", "install">> \in Steps /\ <<"app", "install">> \in Steps
      /\ <<"app", "update">> \in Steps /\ <<"app", "uninstall">> \in Steps
  BY DEF Steps
<1>2. Required("user") \in Seq(Steps)
  BY <1>1, RequiredShape, Tuples DEF AllSteps
<1>3. Required("system") \in Seq(Steps)
  BY <1>1, RequiredShape, Tuples
<1>4. Required("alt") \in Seq(Steps)
  BY <1>1, RequiredShape, Tuples
<1> QED
  BY <1>2, <1>3, <1>4 DEF Installations

\* What is found among the rows, and wanted, is found in the selection.
LEMMA SelectFinds ==
    ASSUME NEW S, NEW rows \in Seq(S), NEW steps \in Seq(S), NEW wanted,
           \A k \in 1..Len(steps) : steps[k] \in wanted
    PROVE  \A n \in 0..Len(steps) : Reaches(rows, steps, Len(rows), n) =>
              Reaches(Select(rows, wanted), steps, Len(Select(rows, wanted)), n)
<1> DEFINE e == Len(rows)
           m == Len(steps)
           f == KeptOf(rows, wanted)
           A == {i \in Nat : i <= e => \A n \in 0..m :
                    Reaches(rows, steps, i, n) => Reaches(f[i], steps, Len(f[i]), n)}
<1>1. e \in Nat /\ m \in Nat /\ \A i \in 1..e : rows[i] \in S
  BY LenProperties, ElementOfSeq
<1>2. /\ f \in [0..e -> Seq(S)] /\ f[0] = <<>>
      /\ \A i \in 1..e : f[i] = IF rows[i] \in wanted THEN Append(f[i - 1], rows[i]) ELSE f[i - 1]
  BY KeptSteps
<1>3. \A k \in 1..m : steps[k] \in wanted
  OBVIOUS
<1> HIDE DEF e, m, f
<1>4. 0 \in A
  <2>1. ASSUME NEW n \in 0..m, Reaches(rows, steps, 0, n) PROVE Reaches(f[0], steps, Len(f[0]), n)
    <3>1. n = 0
      BY <1>1, <2>1, ReachesNothing
    <3>2. f[0] \in Seq(S) /\ Len(f[0]) \in Nat
      BY <1>1, <1>2, LenProperties
    <3> QED
      BY <3>1, <3>2, ReachesNone
  <2> QED
    BY <2>1
<1>5. ASSUME NEW i \in Nat, i \in A, i + 1 <= e, NEW n \in 0..m, Reaches(rows, steps, i + 1, n)
      PROVE  Reaches(f[i + 1], steps, Len(f[i + 1]), n)
  <2>1. i + 1 \in 1..e /\ i \in 0..e /\ (i + 1) - 1 = i /\ i + 1 \in 0..e
    BY <1>1, <1>5
  <2>2. f[i + 1] = IF rows[i + 1] \in wanted THEN Append(f[i], rows[i + 1]) ELSE f[i]
    BY <1>2, <2>1
  <2>3. /\ f[i] \in Seq(S) /\ Len(f[i]) \in Nat /\ n \in Nat
        /\ f[i + 1] \in Seq(S) /\ Len(f[i + 1]) \in Nat
    BY <1>1, <1>2, <2>1, LenProperties
  <2>4. \A p \in 0..m : Reaches(rows, steps, i, p) => Reaches(f[i], steps, Len(f[i]), p)
    BY <1>5, <2>1
  <2> DEFINE t == Append(f[i], rows[i + 1])
             l == Len(f[i])
  <2>5. Len(t) = l + 1 /\ (\A k \in 1..l : t[k] = f[i][k]) /\ t[l + 1] = rows[i + 1]
    BY <1>1, <2>1, <2>3, AppendProperties
  <2>6. l \in Nat /\ (rows[i + 1] \in wanted => f[i + 1] = t)
    BY <2>2, <2>3
  <2>7. \A p \in 0..m : Reaches(rows, steps, i, p) => Reaches(f[i], steps, l, p)
    BY <2>4
  <2> HIDE DEF t
  <2>8. CASE Reaches(rows, steps, i, n)
    <3>1. Reaches(f[i], steps, l, n)
      BY <2>7, <2>8
    <3>2. CASE rows[i + 1] \in wanted
      <4> HIDE DEF l
      <4>1. Reaches(t, steps, l + 1, n)
        BY <2>3, <2>5, <2>6, <3>1, ReachesMore
      <4> QED
        BY <2>5, <2>6, <3>2, <4>1
    <3>3. CASE rows[i + 1] \notin wanted
      BY <2>2, <3>1, <3>3
    <3> QED
      BY <3>2, <3>3
  <2>9. CASE n = 0
    BY <2>3, <2>9, ReachesNone
  <2>10. CASE n # 0 /\ ~Reaches(rows, steps, i, n)
    <3> HIDE DEF l
    <3>1. rows[i + 1] = steps[n] /\ Reaches(rows, steps, i, n - 1)
      BY <1>5, <2>3, <2>10, ReachesSplit
    <3>2. n - 1 \in 0..m /\ n \in 1..m /\ n - 1 \in Nat /\ (n - 1) + 1 = n
      BY <1>1, <2>3, <2>10
    <3>3. rows[i + 1] \in wanted
      BY <1>3, <3>1, <3>2
    <3>4. Reaches(f[i], steps, l, n - 1)
      BY <2>7, <3>1, <3>2
    <3>5. Reaches(t, steps, l, n - 1)
      BY <2>5, <2>6, <3>2, <3>4, ReachesMore
    <3>6. Reaches(t, steps, l + 1, (n - 1) + 1)
      BY <2>5, <2>6, <3>1, <3>2, <3>5, ReachesNext
    <3> QED
      BY <2>5, <2>6, <3>2, <3>3, <3>6
  <2> QED
    BY <2>8, <2>9, <2>10
<1>6. \A i \in Nat : i \in A
  <2>1. \A i \in Nat : i \in A => i + 1 \in A
    BY <1>5
  <2> HIDE DEF A
  <2> QED
    BY <1>4, <2>1, Induction
<1>7. Select(rows, wanted) = f[e]
  BY SelectKept DEF e, f
<1> QED
  BY <1>1, <1>6, <1>7 DEF e, m

\* The rows of the selection are wanted, and are found among the rows in the same order.
LEMMA SelectWithin ==
    ASSUME NEW S, NEW rows \in Seq(S), NEW wanted
    PROVE  /\ Reaches(rows, Select(rows, wanted), Len(rows), Len(Select(rows, wanted)))
           /\ \A k \in 1..Len(Select(rows, wanted)) : Select(rows, wanted)[k] \in wanted
<1> DEFINE e == Len(rows)
           f == KeptOf(rows, wanted)
           A == {i \in Nat : i <= e =>
                    Reaches(rows, f[i], i, Len(f[i])) /\ \A k \in 1..Len(f[i]) : f[i][k] \in wanted}
<1>1. e \in Nat /\ \A i \in 1..e : rows[i] \in S
  BY LenProperties, ElementOfSeq
<1>2. /\ f \in [0..e -> Seq(S)] /\ f[0] = <<>>
      /\ \A i \in 1..e : f[i] = IF rows[i] \in wanted THEN Append(f[i - 1], rows[i]) ELSE f[i - 1]
  BY KeptSteps
<1> HIDE DEF e, f
<1>3. 0 \in A
  <2>1. Len(f[0]) = 0
    BY <1>2
  <2>2. \A k \in 1..0 : FALSE
    OBVIOUS
  <2> QED
    BY <2>1, <2>2, ReachesNone
<1>4. ASSUME NEW i \in Nat, i \in A, i + 1 <= e
      PROVE  Reaches(rows, f[i + 1], i + 1, Len(f[i + 1])) /\ \A k \in 1..Len(f[i + 1]) : f[i + 1][k] \in wanted
  <2>1. i + 1 \in 1..e /\ i \in 0..e /\ (i + 1) - 1 = i
    BY <1>1, <1>4
  <2>2. f[i + 1] = IF rows[i + 1] \in wanted THEN Append(f[i], rows[i + 1]) ELSE f[i]
    BY <1>2, <2>1
  <2>3. f[i] \in Seq(S) /\ Len(f[i]) \in Nat
    BY <1>2, <2>1, LenProperties
  <2>4. Reaches(rows, f[i], i, Len(f[i])) /\ \A k \in 1..Len(f[i]) : f[i][k] \in wanted
    BY <1>4, <2>1
  <2> DEFINE t == Append(f[i], rows[i + 1])
             p == Len(f[i])
  <2>5. Len(t) = p + 1 /\ (\A k \in 1..p : t[k] = f[i][k]) /\ t[p + 1] = rows[i + 1]
    BY <1>1, <2>1, <2>3, AppendProperties
  <2>6. CASE rows[i + 1] \in wanted
    <3>1. Reaches(rows, t, i, p)
      <4>1. PICK g \in [1..p -> 1..i] : /\ \A k \in 1..p : rows[g[k]] = f[i][k]
                                        /\ \A j, k \in 1..p : j < k => g[j] < g[k]
        BY <2>4 DEF Reaches
      <4> HIDE DEF t, p
      <4> QED
        BY <2>5, <4>1 DEF Reaches
    <3> HIDE DEF t, p
    <3>2. p \in Nat
      BY <2>3 DEF p
    <3>3. Reaches(rows, t, i + 1, p + 1)
      BY <2>5, <3>1, <3>2, ReachesNext
    <3>4. \A k \in 1..(p + 1) : t[k] \in wanted
      <4>1. \A k \in 1..p : f[i][k] \in wanted
        BY <2>4 DEF p
      <4>2. \A k \in 1..(p + 1) : k \in 1..p \/ k = p + 1
        BY <3>2
      <4> QED
        BY <2>5, <2>6, <4>1, <4>2
    <3>5. f[i + 1] = t
      BY <2>2, <2>6 DEF t
    <3> QED
      BY <2>5, <3>3, <3>4, <3>5
  <2>7. CASE rows[i + 1] \notin wanted
    <3>1. Reaches(rows, f[i], i + 1, Len(f[i]))
      BY <2>3, <2>4, ReachesMore
    <3> QED
      BY <2>2, <2>4, <2>7, <3>1
  <2> QED
    BY <2>6, <2>7
<1>5. \A i \in Nat : i \in A
  <2>1. \A i \in Nat : i \in A => i + 1 \in A
    BY <1>4
  <2> HIDE DEF A
  <2> QED
    BY <1>3, <2>1, Induction
<1>6. Select(rows, wanted) = f[e]
  BY SelectKept DEF e, f
<1> QED
  BY <1>1, <1>5, <1>6 DEF e

LEMMA JoinedAt ==
    ASSUME NEW S, NEW a \in Seq(S), NEW b \in Seq(S)
    PROVE  /\ a \o b \in Seq(S) /\ Len(a \o b) = Len(a) + Len(b)
           /\ \A i \in 1..Len(a) : (a \o b)[i] = a[i]
           /\ \A i \in 1..Len(b) : (a \o b)[Len(a) + i] = b[i]
<1> DEFINE n == Len(a)
           m == Len(b)
<1>1. n \in Nat /\ m \in Nat /\ \A i \in 1..(n + m) : (a \o b)[i] = IF i <= n THEN a[i] ELSE b[i - n]
  BY ConcatProperties, LenProperties
<1> HIDE DEF n, m
<1>2. ASSUME NEW i \in 1..m PROVE (a \o b)[n + i] = b[i]
  <2>1. n + i \in 1..(n + m) /\ ~(n + i <= n) /\ (n + i) - n = i
    BY <1>1
  <2> QED
    BY <1>1, <2>1
<1>3. ASSUME NEW i \in 1..n PROVE (a \o b)[i] = a[i]
  <2>1. i \in 1..(n + m) /\ i <= n
    BY <1>1
  <2> QED
    BY <1>1, <2>1
<1> QED
  BY <1>2, <1>3, ConcatProperties DEF n, m

\* The fourteen commands.
LEMMA CommandsAre ==
    /\ Commands[1] = RemoteCommand("user") /\ Commands[2] = Row("user", "runtime", "install")
    /\ Commands[3] = Row("user", "app", "install") /\ Commands[4] = RemoteCommand("system")
    /\ Commands[5] = Row("system", "runtime", "install") /\ Commands[6] = Row("system", "app", "install")
    /\ Commands[7] = RemoteCommand("alt") /\ Commands[8] = Row("alt", "runtime", "install")
    /\ Commands[9] = Row("alt", "app", "install") /\ Commands[10] = RemoteCommand("user")
    /\ Commands[11] = Row("user", "app", "update") /\ Commands[12] = RemoteCommand("alt")
    /\ Commands[13] = Row("alt", "app", "update") /\ Commands[14] = Row("user", "app", "uninstall")
<1> DEFINE a == Adds("user")
           b == Adds("system")
           c == Adds("alt")
           d == Updates("user")
           e == Updates("alt")
           f == Removal
<1>1. Commands = a \o b \o c \o d \o e \o f
  BY DEF Commands, Adds, Updates, Removal
<1>2. /\ a \in Seq(Rows) /\ Len(a) = 3 /\ b \in Seq(Rows) /\ Len(b) = 3 /\ c \in Seq(Rows) /\ Len(c) = 3
      /\ d \in Seq(Rows) /\ Len(d) = 2 /\ e \in Seq(Rows) /\ Len(e) = 2
      /\ f \in Seq(Rows) /\ Len(f) = 1
  BY PartsShape DEF Installations
<1>3. /\ a[1] = RemoteCommand("user") /\ a[2] = Row("user", "runtime", "install") /\ a[3] = Row("user", "app", "install")
      /\ b[1] = RemoteCommand("system") /\ b[2] = Row("system", "runtime", "install") /\ b[3] = Row("system", "app", "install")
      /\ c[1] = RemoteCommand("alt") /\ c[2] = Row("alt", "runtime", "install") /\ c[3] = Row("alt", "app", "install")
      /\ d[1] = RemoteCommand("user") /\ d[2] = Row("user", "app", "update")
      /\ e[1] = RemoteCommand("alt") /\ e[2] = Row("alt", "app", "update")
      /\ f[1] = Row("user", "app", "uninstall")
  BY DEF Adds, Updates, Removal
<1> HIDE DEF a, b, c, d, e, f
<1> DEFINE ab == a \o b
           abc == ab \o c
           abcd == abc \o d
           abcde == abcd \o e
           all == abcde \o f
<1>4. /\ ab \in Seq(Rows) /\ Len(ab) = 6
      /\ (\A i \in 1..3 : ab[i] = a[i]) /\ (\A i \in 1..3 : ab[3 + i] = b[i])
  <2>1. /\ ab \in Seq(Rows) /\ Len(ab) = Len(a) + Len(b)
        /\ (\A i \in 1..Len(a) : ab[i] = a[i]) /\ (\A i \in 1..Len(b) : ab[Len(a) + i] = b[i])
    <3>1. a \in Seq(Rows) /\ b \in Seq(Rows)
      BY <1>2
    <3>2. ab \in Seq(Rows) /\ Len(ab) = Len(a) + Len(b)
      BY <3>1, JoinedAt
    <3>3. \A i \in 1..Len(a) : ab[i] = a[i]
      BY <3>1, JoinedAt
    <3>4. \A i \in 1..Len(b) : ab[Len(a) + i] = b[i]
      BY <3>1, JoinedAt
    <3> QED
      BY <3>2, <3>3, <3>4
  <2> HIDE DEF ab
  <2>2. Len(a) = 3 /\ Len(b) = 3
    BY <1>2
  <2> QED
    BY <2>1, <2>2
<1> HIDE DEF ab
<1>5. /\ abc \in Seq(Rows) /\ Len(abc) = 9
      /\ (\A i \in 1..6 : abc[i] = ab[i]) /\ (\A i \in 1..3 : abc[6 + i] = c[i])
  <2>1. /\ abc \in Seq(Rows) /\ Len(abc) = Len(ab) + Len(c)
        /\ (\A i \in 1..Len(ab) : abc[i] = ab[i]) /\ (\A i \in 1..Len(c) : abc[Len(ab) + i] = c[i])
    <3>1. ab \in Seq(Rows) /\ c \in Seq(Rows)
      BY <1>2, <1>4
    <3>2. abc \in Seq(Rows) /\ Len(abc) = Len(ab) + Len(c)
      BY <3>1, JoinedAt
    <3>3. \A i \in 1..Len(ab) : abc[i] = ab[i]
      BY <3>1, JoinedAt
    <3>4. \A i \in 1..Len(c) : abc[Len(ab) + i] = c[i]
      BY <3>1, JoinedAt
    <3> QED
      BY <3>2, <3>3, <3>4
  <2> HIDE DEF abc
  <2>2. Len(ab) = 6 /\ Len(c) = 3
    BY <1>2, <1>4
  <2> QED
    BY <2>1, <2>2
<1> HIDE DEF abc
<1>6. /\ abcd \in Seq(Rows) /\ Len(abcd) = 11
      /\ (\A i \in 1..9 : abcd[i] = abc[i]) /\ (\A i \in 1..2 : abcd[9 + i] = d[i])
  <2>1. /\ abcd \in Seq(Rows) /\ Len(abcd) = Len(abc) + Len(d)
        /\ (\A i \in 1..Len(abc) : abcd[i] = abc[i]) /\ (\A i \in 1..Len(d) : abcd[Len(abc) + i] = d[i])
    <3>1. abc \in Seq(Rows) /\ d \in Seq(Rows)
      BY <1>2, <1>5
    <3>2. abcd \in Seq(Rows) /\ Len(abcd) = Len(abc) + Len(d)
      BY <3>1, JoinedAt
    <3>3. \A i \in 1..Len(abc) : abcd[i] = abc[i]
      BY <3>1, JoinedAt
    <3>4. \A i \in 1..Len(d) : abcd[Len(abc) + i] = d[i]
      BY <3>1, JoinedAt
    <3> QED
      BY <3>2, <3>3, <3>4
  <2> HIDE DEF abcd
  <2>2. Len(abc) = 9 /\ Len(d) = 2
    BY <1>2, <1>5
  <2> QED
    BY <2>1, <2>2
<1> HIDE DEF abcd
<1>7. /\ abcde \in Seq(Rows) /\ Len(abcde) = 13
      /\ (\A i \in 1..11 : abcde[i] = abcd[i]) /\ (\A i \in 1..2 : abcde[11 + i] = e[i])
  <2>1. /\ abcde \in Seq(Rows) /\ Len(abcde) = Len(abcd) + Len(e)
        /\ (\A i \in 1..Len(abcd) : abcde[i] = abcd[i]) /\ (\A i \in 1..Len(e) : abcde[Len(abcd) + i] = e[i])
    <3>1. abcd \in Seq(Rows) /\ e \in Seq(Rows)
      BY <1>2, <1>6
    <3>2. abcde \in Seq(Rows) /\ Len(abcde) = Len(abcd) + Len(e)
      BY <3>1, JoinedAt
    <3>3. \A i \in 1..Len(abcd) : abcde[i] = abcd[i]
      BY <3>1, JoinedAt
    <3>4. \A i \in 1..Len(e) : abcde[Len(abcd) + i] = e[i]
      BY <3>1, JoinedAt
    <3> QED
      BY <3>2, <3>3, <3>4
  <2> HIDE DEF abcde
  <2>2. Len(abcd) = 11 /\ Len(e) = 2
    BY <1>2, <1>6
  <2> QED
    BY <2>1, <2>2
<1> HIDE DEF abcde
<1>8. /\ all \in Seq(Rows) /\ Len(all) = 14
      /\ (\A i \in 1..13 : all[i] = abcde[i]) /\ (\A i \in 1..1 : all[13 + i] = f[i])
  <2>1. /\ all \in Seq(Rows) /\ Len(all) = Len(abcde) + Len(f)
        /\ (\A i \in 1..Len(abcde) : all[i] = abcde[i]) /\ (\A i \in 1..Len(f) : all[Len(abcde) + i] = f[i])
    <3>1. abcde \in Seq(Rows) /\ f \in Seq(Rows)
      BY <1>2, <1>7
    <3>2. all \in Seq(Rows) /\ Len(all) = Len(abcde) + Len(f)
      BY <3>1, JoinedAt
    <3>3. \A i \in 1..Len(abcde) : all[i] = abcde[i]
      BY <3>1, JoinedAt
    <3>4. \A i \in 1..Len(f) : all[Len(abcde) + i] = f[i]
      BY <3>1, JoinedAt
    <3> QED
      BY <3>2, <3>3, <3>4
  <2> HIDE DEF all
  <2>2. Len(abcde) = 13 /\ Len(f) = 1
    BY <1>2, <1>7
  <2> QED
    BY <2>1, <2>2
<1>9. Commands = all
  BY <1>1 DEF ab, abc, abcd, abcde
<1> HIDE DEF all
<1>10. /\ ab[1] = a[1] /\ ab[2] = a[2] /\ ab[3] = a[3] /\ ab[4] = b[1] /\ ab[5] = b[2] /\ ab[6] = b[3]
  BY <1>4
<1>11. /\ \A i \in 1..6 : all[i] = ab[i]
       /\ all[7] = c[1] /\ all[8] = c[2] /\ all[9] = c[3]
       /\ all[10] = d[1] /\ all[11] = d[2] /\ all[12] = e[1] /\ all[13] = e[2] /\ all[14] = f[1]
  <2>1. \A i \in 1..9 : all[i] = abc[i]
    BY <1>6, <1>7, <1>8
  <2>2. abc[7] = c[1] /\ abc[8] = c[2] /\ abc[9] = c[3]
    BY <1>5
  <2>3. abcd[10] = d[1] /\ abcd[11] = d[2]
    BY <1>6
  <2>4. abcde[12] = e[1] /\ abcde[13] = e[2]
    BY <1>7
  <2> QED
    BY <1>5, <1>7, <1>8, <2>1, <2>2, <2>3, <2>4
<1>12. all[1] = a[1] /\ all[2] = a[2] /\ all[3] = a[3] /\ all[4] = b[1] /\ all[5] = b[2] /\ all[6] = b[3]
  BY <1>10, <1>11
<1> QED
  BY <1>3, <1>9, <1>11, <1>12

-----------------------------------------------------------------------------
\* The comparison is exact in every state.
LEMMA ExactInvariant == HistoryInv => ContractExact
<1> SUFFICES ASSUME HistoryInv, NEW q \in Installations
             PROVE  Matches(Lifecycle(Shown(q)), Required(q)) <=> Embeds(Lifecycle(Shown(q)), Required(q))
  BY DEF ContractExact
<1>1. stored \in Seq(Rows)
  BY DEF HistoryInv, RecordInv
<1>2. Shown(q) \in Seq(Rows)
  BY <1>1, SelectIsSeq DEF Shown
<1>3. Lifecycle(Shown(q)) \in Seq(Steps) /\ Required(q) \in Seq(Steps)
  BY <1>2, LifecycleIsSeq, RequiredIsSeq
<1> QED
  BY <1>3, MatchesExact

-----------------------------------------------------------------------------
\* What the journal holds.

\* A record of no installation is auxiliary.
Good == {r \in Rows : r.inst = "path" => IsAuxiliary(r)}
GoodInv == queue \in Seq(Good) /\ stored \in Seq(Good) /\ held \in Seq(Good)

\* The rows of an installation's required steps, and how many of them the commands before
\* the s-th have made.
Wanted(q) == [k \in DOMAIN Required(q) |-> Row(q, Required(q)[k][1], Required(q)[k][2])]
Due(q, s) ==
    IF q = "user" THEN IF s <= 2 THEN 0 ELSE IF s <= 3 THEN 1 ELSE IF s <= 11 THEN 2 ELSE IF s <= 14 THEN 3 ELSE 4
    ELSE IF q = "system" THEN IF s <= 5 THEN 0 ELSE IF s <= 6 THEN 1 ELSE 2
    ELSE IF s <= 8 THEN 0 ELSE IF s <= 9 THEN 1 ELSE IF s <= 13 THEN 2 ELSE 3

\* The record that is held back before the s-th command, and whether holding it back, or
\* another fault of a command, breaks the contract.
IsLate == fault.in = "command" /\ fault.how = "late"
Late(s) == IF IsLate /\ s = fault.at + 1 THEN <<Commands[fault.at]>> ELSE <<>>
Disorder(i) == i = 14 \/ (Commands[i + 1].inst = Commands[i].inst /\ ~IsAuxiliary(Commands[i + 1]))
Breaking == fault.in = "command" /\ (fault.how = "late" => Disorder(fault.at))
Kept(s) == ~(Breaking /\ fault.at < s)

\* While the contract is kept, the required steps made so far are logged in their order,
\* save the one that is held back.
InOrder(log, s) == Kept(s) => \A q \in Installations :
    Reaches(log, Wanted(q), Len(log),
            IF Late(s) # <<>> /\ Commands[fault.at].inst = q THEN Due(q, s) - 1 ELSE Due(q, s))

\* What a command failed to log is not logged by another.
Lost == fault.in = "command" /\ \/ fault.how \in {"fails", "omits", "astray", "mislabels"}
                                \/ fault.how = "late" /\ fault.at = 14
Lacking(log) == Lost => \A i \in 1..Len(log) : log[i] # Commands[fault.at]

\* What is logged too late is logged after its successor.
Overtaken == IsLate /\ fault.at # 14 /\ Disorder(fault.at)
Misordered(log, s) == Overtaken =>
    \A i, j \in 1..Len(log) : log[i] = Commands[fault.at] =>
        s > fault.at + 1 /\ (log[j] = Commands[fault.at + 1] => j < i)
\* The successor is not there before its command.
Unborn(log, s) == Overtaken /\ s <= fault.at + 1 => \A j \in 1..Len(log) : log[j] # Commands[fault.at + 1]

\* Without a fault of a command, a lifecycle row is a command's, and is logged once.
Once(log, s) == fault.in # "command" =>
    /\ \A i \in 1..Len(log) : IsAuxiliary(log[i]) \/ \E c \in 1..(s - 1) : log[i] = Commands[c]
    /\ \A i, j \in 1..Len(log) : log[i] = log[j] /\ ~IsAuxiliary(log[i]) => i = j

LogOk(log, s) == InOrder(log, s) /\ Lacking(log) /\ Misordered(log, s) /\ Unborn(log, s) /\ Once(log, s)

Live == pc \in {"start", "poll", "call"} /\ daemon # "dead"
LogInv ==
    /\ Live => LogOk(stored \o queue, step)
    /\ pc \in {"start", "poll", "call"} => held = Late(step)
    /\ pc = "query" \/ verdict = "passed" => queue = <<>> /\ LogOk(stored, 15)

\* The queries that the history has passed, where none is answered wrongly.
Confirmed(q) == Reaches(stored, Wanted(q), Len(stored), Len(Wanted(q)))
QueryInv ==
    /\ fault.in = "command" =>
          /\ pc = "query" => \A k \in 1..3 : k < step => Confirmed(Queries[k])
          /\ verdict = "passed" => \A k \in 1..3 : Confirmed(Queries[k])
    /\ pc = "query" /\ step > 1 /\ ~breached => user = Shown("user")

\* Where the contract was broken, and what came of it.
BreachInv ==
    /\ breached => Breaking \/ (fault.in = "query" /\ verdict = "failed")
    /\ pc \in {"start", "poll", "call"} /\ ~breached => Kept(step)
    /\ pc = "query" /\ ~breached => Kept(15)
    /\ verdict # "none" => pc \in {"finally", "terminated", "killed", "end"}

CaseInv == HistoryInv /\ GoodInv /\ LogInv /\ QueryInv /\ BreachInv /\ FailSound

-----------------------------------------------------------------------------
\* Facts about the commands.

LifecycleSteps == {2, 3, 5, 6, 8, 9, 11, 13, 14}
StepOf(s) == IF s \in {4, 5, 6} THEN "system" ELSE IF s \in {7, 8, 9, 12, 13} THEN "alt" ELSE "user"
RefOf(s) == IF s \in {2, 5, 8} THEN "runtime" ELSE IF s \in LifecycleSteps THEN "app" ELSE "none"
ChangeOf(s) == IF s \in {2, 3, 5, 6, 8, 9} THEN "install"
               ELSE IF s \in {11, 13} THEN "update" ELSE IF s = 14 THEN "uninstall" ELSE "auxiliary"

LEMMA CommandTable == \A s \in 1..14 : Commands[s] = Row(StepOf(s), RefOf(s), ChangeOf(s))
<1> SUFFICES ASSUME NEW s \in 1..14 PROVE Commands[s] = Row(StepOf(s), RefOf(s), ChangeOf(s))
  OBVIOUS
<1> USE CommandsAre DEF RemoteCommand, StepOf, RefOf, ChangeOf, LifecycleSteps
<1>1. CASE s = 1
  BY <1>1
<1>2. CASE s = 2
  BY <1>2
<1>3. CASE s = 3
  BY <1>3
<1>4. CASE s = 4
  BY <1>4
<1>5. CASE s = 5
  BY <1>5
<1>6. CASE s = 6
  BY <1>6
<1>7. CASE s = 7
  BY <1>7
<1>8. CASE s = 8
  BY <1>8
<1>9. CASE s = 9
  BY <1>9
<1>10. CASE s = 10
  BY <1>10
<1>11. CASE s = 11
  BY <1>11
<1>12. CASE s = 12
  BY <1>12
<1>13. CASE s = 13
  BY <1>13
<1>14. CASE s = 14
  BY <1>14
<1> QED
  BY <1>1, <1>2, <1>3, <1>4, <1>5, <1>6, <1>7, <1>8, <1>9, <1>10, <1>11, <1>12, <1>13, <1>14

LEMMA CommandShape ==
    ASSUME NEW s \in 1..14
    PROVE  /\ Commands[s] \in Rows
           /\ Commands[s].inst = StepOf(s) /\ Commands[s].ref = RefOf(s) /\ Commands[s].change = ChangeOf(s)
           /\ IsAuxiliary(Commands[s]) <=> s \notin LifecycleSteps
           /\ StepOf(s) \in Installations
<1>1. Commands[s] = Row(StepOf(s), RefOf(s), ChangeOf(s))
  BY CommandTable
<1>2. Commands[s].inst = StepOf(s) /\ Commands[s].ref = RefOf(s) /\ Commands[s].change = ChangeOf(s)
  BY <1>1 DEF Row
<1>3. ChangeOf(s) = "auxiliary" <=> s \notin LifecycleSteps
  BY DEF ChangeOf, LifecycleSteps
<1>4. StepOf(s) \in Installations
  BY DEF StepOf, Installations
<1>5. Commands[s] \in Rows
  BY CommandIsRow, CommandsShape
<1> QED
  BY <1>2, <1>3, <1>4, <1>5 DEF IsAuxiliary

LEMMA CommandsDiffer ==
    ASSUME NEW s \in LifecycleSteps, NEW t \in 1..14, Commands[s] = Commands[t]
    PROVE  s = t
<1>1. s \in 1..14
  BY DEF LifecycleSteps
<1>2. StepOf(s) = StepOf(t) /\ RefOf(s) = RefOf(t) /\ ChangeOf(s) = ChangeOf(t)
  BY <1>1, CommandShape
<1>3. \/ t = 1 \/ t = 2 \/ t = 3 \/ t = 4 \/ t = 5 \/ t = 6 \/ t = 7
      \/ t = 8 \/ t = 9 \/ t = 10 \/ t = 11 \/ t = 12 \/ t = 13 \/ t = 14
  OBVIOUS
<1>4. ChangeOf(s) # "auxiliary"
  BY DEF ChangeOf, LifecycleSteps
<1>5. CASE t \in {1, 4, 7, 10, 12}
  BY <1>2, <1>4, <1>5 DEF ChangeOf
<1>6. CASE t \in {2, 3, 11, 14}
  BY <1>2, <1>6 DEF StepOf, RefOf, ChangeOf, LifecycleSteps
<1>7. CASE t \in {5, 6}
  BY <1>2, <1>7 DEF StepOf, RefOf, ChangeOf, LifecycleSteps
<1>8. CASE t \in {8, 9, 13}
  BY <1>2, <1>8 DEF StepOf, RefOf, ChangeOf, LifecycleSteps
<1> QED
  BY <1>3, <1>5, <1>6, <1>7, <1>8

\* What is required of an installation, as rows.
LEMMA WantedShape ==
    ASSUME NEW q \in Installations
    PROVE  /\ Wanted(q) \in Seq(Good) /\ Len(Wanted(q)) = Due(q, 15) /\ Len(Required(q)) = Due(q, 15)
           /\ \A k \in 1..Due(q, 15) : /\ Wanted(q)[k] = Row(q, Required(q)[k][1], Required(q)[k][2])
                                       /\ Wanted(q)[k].inst = q /\ ~IsAuxiliary(Wanted(q)[k])
                                       /\ Required(q)[k] = <<Wanted(q)[k].ref, Wanted(q)[k].change>>
<1>1. Required(q) \in Seq(Steps)
  BY RequiredIsSeq
<1>2. Len(Required(q)) = Due(q, 15) /\ Due(q, 15) \in Nat
  <2>1. CASE q = "user"
    BY <2>1, RequiredShape DEF Due, AllSteps
  <2>2. CASE q = "system"
    BY <2>2, RequiredShape DEF Due
  <2>3. CASE q = "alt"
    BY <2>3, RequiredShape DEF Due
  <2> QED
    BY <2>1, <2>2, <2>3 DEF Installations
<1>3. ASSUME NEW k \in 1..Due(q, 15)
      PROVE  \E r \in {"runtime", "app"}, c \in {"install", "update", "uninstall"} : Required(q)[k] = <<r, c>>
  <2>1. CASE q = "user"
    <3>1. k \in 1..4
      BY <2>1 DEF Due
    <3> QED
      BY <2>1, <3>1, RequiredShape DEF AllSteps
  <2>2. CASE q = "system"
    <3>1. k \in 1..2
      BY <2>2 DEF Due
    <3> QED
      BY <2>2, <3>1, RequiredShape
  <2>3. CASE q = "alt"
    <3>1. k \in 1..3
      BY <2>3 DEF Due
    <3> QED
      BY <2>3, <3>1, RequiredShape
  <2> QED
    BY <2>1, <2>2, <2>3 DEF Installations
<1>4. ASSUME NEW k \in 1..Due(q, 15)
      PROVE  LET w == Row(q, Required(q)[k][1], Required(q)[k][2])
             IN w \in Good /\ w.inst = q /\ ~IsAuxiliary(w) /\ Required(q)[k] = <<w.ref, w.change>>
  <2>1. PICK r \in {"runtime", "app"}, c \in {"install", "update", "uninstall"} : Required(q)[k] = <<r, c>>
    BY <1>3
  <2>2. Required(q)[k][1] = r /\ Required(q)[k][2] = c
    BY <2>1
  <2> DEFINE w == Row(q, r, c)
  <2>3. w \in Rows /\ w.inst = q /\ w.ref = r /\ w.change = c
    BY DEF Row, Rows
  <2>4. c # "auxiliary" /\ q # "path"
    BY DEF Installations
  <2>5. w \in Good /\ ~IsAuxiliary(w)
    BY <2>3, <2>4 DEF Good, IsAuxiliary
  <2> HIDE DEF w
  <2>6. Row(q, Required(q)[k][1], Required(q)[k][2]) = w
    BY <2>2 DEF w
  <2> QED
    BY <2>1, <2>3, <2>5, <2>6
<1>5. DOMAIN Required(q) = 1..Due(q, 15)
  BY <1>1, <1>2, LenProperties
<1>6. Wanted(q) = [k \in 1..Due(q, 15) |-> Row(q, Required(q)[k][1], Required(q)[k][2])]
  BY <1>5 DEF Wanted
<1>7. Wanted(q) \in [1..Due(q, 15) -> Good]
  BY <1>4, <1>6
<1>8. Wanted(q) \in Seq(Good) /\ Len(Wanted(q)) = Due(q, 15)
  BY <1>2, <1>7, LenProperties
<1> QED
  BY <1>2, <1>4, <1>6, <1>8

\* A lifecycle command makes the next step of its installation, and of no other.
LEMMA DueShape ==
    /\ \A q \in Installations, s \in 1..15 : Due(q, s) \in 0..Due(q, 15)
    /\ \A q \in Installations : Due(q, 1) = 0
    /\ \A q \in Installations, s \in 1..14 : s \notin LifecycleSteps \/ StepOf(s) # q => Due(q, s + 1) = Due(q, s)
    /\ \A s \in LifecycleSteps : Due(StepOf(s), s + 1) = Due(StepOf(s), s) + 1
BY DEF Due, Installations, LifecycleSteps, StepOf

LEMMA DueIsNext ==
    ASSUME NEW s \in LifecycleSteps
    PROVE  /\ Due(StepOf(s), s) + 1 \in 1..Due(StepOf(s), 15)
           /\ Wanted(StepOf(s))[Due(StepOf(s), s) + 1] = Commands[s]
<1> DEFINE q == StepOf(s)
           k == Due(q, s) + 1
<1>1. s \in 1..14 /\ q \in Installations
  BY DEF StepOf, Installations, LifecycleSteps
<1>2. k \in 1..Due(q, 15)
  BY DEF StepOf, Due, LifecycleSteps
<1>3. Required(q)[k] = <<RefOf(s), ChangeOf(s)>>
  <2>1. CASE s \in {2, 3, 11, 14}
    <3>1. q = "user"
      BY <2>1 DEF StepOf
    <3> QED
      BY <2>1, <3>1, RequiredShape DEF Due, RefOf, ChangeOf, AllSteps, LifecycleSteps
  <2>2. CASE s \in {5, 6}
    <3>1. q = "system"
      BY <2>2 DEF StepOf
    <3> QED
      BY <2>2, <3>1, RequiredShape DEF Due, RefOf, ChangeOf, LifecycleSteps
  <2>3. CASE s \in {8, 9, 13}
    <3>1. q = "alt"
      BY <2>3 DEF StepOf
    <3> QED
      BY <2>3, <3>1, RequiredShape DEF Due, RefOf, ChangeOf, LifecycleSteps
  <2> QED
    BY <2>1, <2>2, <2>3 DEF LifecycleSteps
<1> HIDE DEF q, k
<1>4. Wanted(q)[k] = Row(q, Required(q)[k][1], Required(q)[k][2])
  BY <1>1, <1>2, WantedShape
<1>5. Commands[s] = Row(q, RefOf(s), ChangeOf(s))
  BY <1>1, CommandTable DEF q
<1>6. Wanted(q)[k] = Commands[s]
  BY <1>3, <1>4, <1>5
<1> QED
  BY <1>2, <1>6 DEF q, k

-----------------------------------------------------------------------------
\* What a command adds to the log.

LEMMA FaultIsChange ==
    ASSUME ChoiceInv, fault.in = "command"
    PROVE  fault.at \in LifecycleSteps /\ fault.how \in CommandFaults
<1>1. fault \in {[in |-> "command", at |-> i, how |-> h] : i \in ChangeSteps, h \in Faults \intersect CommandFaults}
  <2>1. fault # [in |-> "none", at |-> 0, how |-> "none"]
    OBVIOUS
  <2>2. fault \notin {[in |-> "query", at |-> i, how |-> h] : i \in DOMAIN Queries, h \in Faults \ CommandFaults}
    OBVIOUS
  <2> QED
    BY <2>1, <2>2 DEF ChoiceInv, FaultChoices
<1>2. PICK i \in ChangeSteps, h \in Faults \intersect CommandFaults :
         fault = [in |-> "command", at |-> i, how |-> h]
  BY <1>1
<1>3. i \in 1..14 /\ ~IsAuxiliary(Commands[i])
  BY CommandsShape DEF ChangeSteps
<1>4. i \in LifecycleSteps
  BY <1>3, CommandShape
<1> QED
  BY <1>2, <1>4

LEMMA GoodRow ==
    /\ Good \in SUBSET Rows
    /\ \A s \in 1..14 : Commands[s] \in Good
<1>1. \A s \in 1..14 : Commands[s] \in Rows /\ Commands[s].inst # "path"
  BY CommandShape DEF Installations
<1> QED
  BY <1>1 DEF Good

\* What is sent of a command itself.
LEMMA RecordsAre ==
    ASSUME ChoiceInv, step \in 1..14, ~Fails
    PROVE  LET R == Records(Commands[step]) IN
           \/ R = <<>> /\ (step \in LifecycleSteps => Here("command"))
           \/ \E x \in Good : R = <<x>> /\ IsAuxiliary(x) /\ (step \in LifecycleSteps => Here("command") /\ ~IsLate)
           \/ R = <<Commands[step]>> /\ step \in LifecycleSteps /\ ~Here("command")
           \/ \E x \in Good : /\ R = <<x>> /\ x # Commands[step] /\ step \in LifecycleSteps
                              /\ Here("command") /\ fault.how = "astray"
           \/ \E x \in Good : R = <<Commands[step], x>> /\ Here("command") /\ fault.how = "extra"
<1> DEFINE row == Commands[step]
<1>1. /\ row \in Good /\ row \in Rows /\ row.inst \in Installations
      /\ IsAuxiliary(row) <=> step \notin LifecycleSteps
  BY CommandShape, GoodRow
<1> HIDE DEF row
<1>2. CASE IsAuxiliary(row)
  <2>1. aux \in {"none", "own", "path"}
    BY DEF ChoiceInv
  <2>2. CASE aux = "none"
    <3>1. Records(row) = <<>>
      BY <1>2, <2>2 DEF Records
    <3> QED
      BY <1>1, <1>2, <3>1 DEF row
  <2>3. CASE aux = "own"
    <3>1. Records(row) = <<row>>
      BY <1>2, <2>3 DEF Records
    <3> QED
      BY <1>1, <1>2, <3>1 DEF row
  <2>4. CASE aux = "path"
    <3> DEFINE x == [row EXCEPT !.inst = "path"]
    <3>1. Records(row) = <<x>>
      BY <1>2, <2>4 DEF Records
    <3>2. x \in Good /\ IsAuxiliary(x)
      BY <1>1, <1>2 DEF Good, Rows, IsAuxiliary
    <3> HIDE DEF x
    <3> QED
      BY <1>1, <1>2, <3>1, <3>2 DEF row
  <2> QED
    BY <2>1, <2>2, <2>3, <2>4
<1>3. CASE ~IsAuxiliary(row) /\ ~Here("command")
  <2>1. Records(row) = <<row>>
    BY <1>3 DEF Records
  <2> QED
    BY <1>1, <1>3, <2>1 DEF row
<1>4. CASE ~IsAuxiliary(row) /\ Here("command")
  <2>1. fault.in = "command" /\ fault.how \in CommandFaults /\ fault.how # "fails"
    BY <1>4, FaultIsChange DEF Here, Fails
  <2>2. CASE fault.how = "omits" \/ fault.how = "late"
    <3>1. Records(row) = <<>>
      BY <1>4, <2>2 DEF Records
    <3> QED
      BY <1>4, <3>1 DEF row
  <2>3. CASE fault.how = "astray"
    <3> DEFINE other == CHOOSE i \in Installations : i # row.inst
               x == [row EXCEPT !.inst = other]
    <3>1. other \in Installations /\ other # row.inst
      <4>1. \E i \in Installations : i # row.inst
        BY <1>1 DEF Installations
      <4> QED
        BY <4>1
    <3> HIDE DEF other
    <3>2. Records(row) = <<x>>
      BY <1>4, <2>3 DEF Records, other
    <3>3. x \in Rows /\ x.inst = other
      BY <1>1, <3>1 DEF Rows
    <3> HIDE DEF x
    <3>4. x \in Good /\ x # row
      BY <3>1, <3>3 DEF Good, Installations
    <3> QED
      BY <1>1, <1>4, <2>3, <3>2, <3>4 DEF row
  <2>4. CASE fault.how = "mislabels"
    <3> DEFINE x == [row EXCEPT !.change = "auxiliary"]
    <3>1. Records(row) = <<x>>
      BY <1>4, <2>4 DEF Records
    <3>2. x \in Good /\ IsAuxiliary(x)
      BY <1>1 DEF Good, Rows, IsAuxiliary
    <3>3. ~IsLate
      BY <2>4 DEF IsLate
    <3> HIDE DEF x
    <3> QED
      BY <1>4, <3>1, <3>2, <3>3 DEF row
  <2>5. CASE fault.how = "extra"
    <3> DEFINE x == [row EXCEPT !.change = "uninstall"]
    <3>1. Records(row) = <<row, x>>
      BY <1>4, <2>5 DEF Records
    <3>2. x \in Rows /\ x.inst = row.inst
      BY <1>1 DEF Rows
    <3> HIDE DEF x
    <3>3. x \in Good
      BY <1>1, <3>2 DEF Good, Installations
    <3> QED
      BY <1>4, <2>5, <3>1, <3>3 DEF row
  <2> QED
    BY <2>1, <2>2, <2>3, <2>4, <2>5 DEF CommandFaults
<1> QED
  BY <1>2, <1>3, <1>4

Sent == Records(Commands[step]) \o held
LEMMA LateShape ==
    ASSUME ChoiceInv, NEW s \in 1..15
    PROVE  /\ Late(s) \in Seq(Good)
           /\ Late(s) = <<>> \/ (Late(s) = <<Commands[fault.at]>> /\ IsLate /\ s = fault.at + 1)
           /\ Late(s) # <<>> <=> IsLate /\ s = fault.at + 1
           /\ IsLate => fault.at \in LifecycleSteps /\ fault.at \in 1..14 /\ Commands[fault.at] \in Good
<1>1. IsLate => fault.at \in LifecycleSteps /\ fault.at \in 1..14 /\ Commands[fault.at] \in Good
  <2>1. IsLate => fault.at \in LifecycleSteps
    BY FaultIsChange DEF IsLate
  <2> QED
    BY <2>1, GoodRow DEF LifecycleSteps
<1>2. CASE IsLate /\ s = fault.at + 1
  <2>1. Late(s) = <<Commands[fault.at]>>
    BY <1>2 DEF Late
  <2>2. <<Commands[fault.at]>> \in Seq(Good) /\ <<Commands[fault.at]>> # <<>>
    BY <1>1, <1>2
  <2> QED
    BY <1>1, <1>2, <2>1, <2>2
<1>3. CASE ~(IsLate /\ s = fault.at + 1)
  <2>1. Late(s) = <<>>
    BY <1>3 DEF Late
  <2> QED
    BY <1>1, <1>3, <2>1
<1> QED
  BY <1>2, <1>3

Blamed == fault.in = "command" /\ fault.at = step
LEMMA SentShape ==
    ASSUME ChoiceInv, step \in 1..14, ~Fails, held = Late(step)
    PROVE  /\ Sent \in Seq(Good)
           /\ \A k \in 1..Len(Sent) :
                 \/ IsAuxiliary(Sent[k])
                 \/ Sent[k] = Commands[step] /\ k = 1 /\ step \in LifecycleSteps /\ (Blamed => fault.how = "extra")
                 \/ Blamed /\ fault.how = "astray" /\ Sent[k] # Commands[step]
                 \/ Blamed /\ fault.how = "extra"
                 \/ Late(step) # <<>> /\ Sent[k] = Commands[fault.at] /\ k = Len(Sent)
           /\ step \in LifecycleSteps /\ ~Blamed => 1 <= Len(Sent) /\ Sent[1] = Commands[step]
           /\ Late(step) # <<>> => 1 <= Len(Sent) /\ Sent[Len(Sent)] = Commands[fault.at]
           /\ Blamed /\ IsLate => Sent = <<>>
<1> DEFINE R == Records(Commands[step])
<1>1. Commands[step] \in Good /\ step \in 1..15
  BY GoodRow
<1>2. Here("command") <=> Blamed
  BY DEF Here, Blamed
<1>3. R \in Seq(Good)
  <2>1. R = <<>> \/ (\E x \in Good : R = <<x>>) \/ (\E x, y \in Good : R = <<x, y>>)
    BY <1>1, RecordsAre
  <2> HIDE DEF R
  <2>2. CASE R = <<>>
    BY <2>2, EmptySeq
  <2>3. CASE \E x \in Good : R = <<x>>
    <3>1. PICK x \in Good : R = <<x>>
      BY <2>3
    <3> QED
      BY <3>1
  <2>4. CASE \E x, y \in Good : R = <<x, y>>
    <3>1. PICK x \in Good, y \in Good : R = <<x, y>>
      BY <2>4
    <3> QED
      BY <3>1, Tuples
  <2> QED
    BY <2>1, <2>2, <2>3, <2>4
<1>4. CASE held = <<>>
  <2>1. Sent = R
    BY <1>3, <1>4, ConcatEmptySeq DEF Sent
  <2>2. Late(step) = <<>>
    BY <1>4
  <2>3. CASE R = <<>> /\ (step \in LifecycleSteps => Here("command"))
    BY <1>2, <1>3, <2>1, <2>2, <2>3
  <2>4. CASE \E x \in Good : R = <<x>> /\ IsAuxiliary(x) /\ (step \in LifecycleSteps => Here("command") /\ ~IsLate)
    <3>1. PICK x \in Good : R = <<x>> /\ IsAuxiliary(x) /\ (step \in LifecycleSteps => Here("command") /\ ~IsLate)
      BY <2>4
    <3>2. Blamed /\ IsLate => FALSE
      <4>1. Blamed /\ IsLate => step \in LifecycleSteps
        BY LateShape, <1>1 DEF Blamed
      <4> QED
        BY <3>1, <4>1
    <3> HIDE DEF R
    <3>3. Len(R) = 1 /\ R[1] = x
      BY <3>1
    <3> QED
      BY <1>2, <1>3, <2>1, <2>2, <3>1, <3>2, <3>3
  <2>5. CASE R = <<Commands[step]>> /\ step \in LifecycleSteps /\ ~Here("command")
    <3> HIDE DEF R
    <3>1. Len(R) = 1 /\ R[1] = Commands[step]
      BY <2>5
    <3> QED
      BY <1>2, <1>3, <2>1, <2>2, <2>5, <3>1
  <2>6. CASE \E x \in Good : /\ R = <<x>> /\ x # Commands[step] /\ step \in LifecycleSteps
                             /\ Here("command") /\ fault.how = "astray"
    <3>1. PICK x \in Good : /\ R = <<x>> /\ x # Commands[step] /\ step \in LifecycleSteps
                            /\ Here("command") /\ fault.how = "astray"
      BY <2>6
    <3> HIDE DEF R
    <3>2. Len(R) = 1 /\ R[1] = x /\ ~IsLate
      BY <3>1 DEF IsLate
    <3> QED
      BY <1>2, <1>3, <2>1, <2>2, <3>1, <3>2
  <2>7. CASE \E x \in Good : R = <<Commands[step], x>> /\ Here("command") /\ fault.how = "extra"
    <3>1. Here("command") /\ fault.how = "extra" /\ ~IsLate
      BY <2>7 DEF IsLate
    <3> HIDE DEF R
    <3> QED
      BY <1>2, <1>3, <2>1, <2>2, <3>1
  <2> QED
    BY <2>3, <2>4, <2>5, <2>6, <2>7, RecordsAre
<1>5. CASE held # <<>>
  <2> DEFINE y == Commands[fault.at]
  <2>1. held = <<y>> /\ IsLate /\ step = fault.at + 1 /\ fault.at \in 1..14 /\ y \in Good
    BY <1>1, <1>5, LateShape
  <2>2. ~Blamed /\ Late(step) # <<>>
    BY <1>5, <2>1 DEF Blamed
  <2> HIDE DEF y
  <2>3. held \in Seq(Good) /\ Len(held) = 1 /\ held[1] = y
    BY <2>1
  <2>4. CASE R = <<>> /\ step \notin LifecycleSteps
    <3>1. Sent = held
      BY <2>3, <2>4, ConcatEmptySeq DEF Sent
    <3>2. Sent \in Seq(Good) /\ Len(Sent) = 1 /\ Sent[1] = y
      BY <2>3, <3>1
    <3>3. y = Commands[fault.at]
      BY DEF y
    <3>4. \A k \in 1..1 : k = 1
      OBVIOUS
    <3> QED
      BY <2>2, <2>4, <3>2, <3>3, <3>4
  <2>5. CASE \E x \in Good : R = <<x>> /\ \/ IsAuxiliary(x) /\ step \notin LifecycleSteps
                                          \/ x = Commands[step] /\ step \in LifecycleSteps
    <3>1. PICK x \in Good : R = <<x>> /\ \/ IsAuxiliary(x) /\ step \notin LifecycleSteps
                                         \/ x = Commands[step] /\ step \in LifecycleSteps
      BY <2>5
    <3> HIDE DEF R
    <3>2. Len(R) = 1 /\ R[1] = x
      BY <3>1
    <3>3. Sent = R \o held
      BY DEF Sent, R
    <3>4. Sent \in Seq(Good) /\ Len(Sent) = Len(R) + Len(held)
      BY <1>3, <2>3, <3>3, JoinedAt
    <3>5. /\ \A i \in 1..Len(R) : Sent[i] = R[i]
          /\ \A i \in 1..Len(held) : Sent[Len(R) + i] = held[i]
      <4>1. held \in Seq(Good)
        BY <2>3
      <4>2. \A i \in 1..Len(R) : (R \o held)[i] = R[i]
        BY <1>3, <4>1, JoinedAt
      <4>3. \A i \in 1..Len(held) : (R \o held)[Len(R) + i] = held[i]
        BY <1>3, <4>1, JoinedAt
      <4> QED
        BY <3>3, <4>2, <4>3
    <3>6. Len(Sent) = 2 /\ Sent[1] = x /\ Sent[2] = y
      BY <2>3, <3>2, <3>4, <3>5
    <3>7. \A k \in 1..2 : k = 1 \/ k = 2
      OBVIOUS
    <3>8. Late(step) # <<>> /\ Sent[2] = Commands[fault.at]
      BY <2>2, <3>6 DEF y
    <3>9. \/ IsAuxiliary(Sent[1])
          \/ Sent[1] = Commands[step] /\ step \in LifecycleSteps /\ (Blamed => fault.how = "extra")
      BY <2>2, <3>1, <3>6
    <3>10. step \in LifecycleSteps => Sent[1] = Commands[step]
      BY <3>1, <3>6
    <3>11. ASSUME NEW k \in 1..Len(Sent)
           PROVE  \/ IsAuxiliary(Sent[k])
                  \/ Sent[k] = Commands[step] /\ k = 1 /\ step \in LifecycleSteps /\ (Blamed => fault.how = "extra")
                  \/ Late(step) # <<>> /\ Sent[k] = Commands[fault.at] /\ k = Len(Sent)
      <4>1. k = 1 \/ k = 2
        BY <3>6
      <4>2. CASE k = 1
        BY <3>9, <4>2
      <4>3. CASE k = 2
        BY <3>6, <3>8, <4>3
      <4> QED
        BY <4>1, <4>2, <4>3
    <3>12. 1 <= Len(Sent) /\ Sent[Len(Sent)] = Commands[fault.at]
      BY <3>6, <3>8
    <3> QED
      BY <2>2, <3>4, <3>10, <3>11, <3>12
  <2> QED
    <3>1. IsAuxiliary(Commands[step]) <=> step \notin LifecycleSteps
      BY CommandShape
    <3> HIDE DEF R
    <3>2. \/ R = <<>> /\ step \notin LifecycleSteps
          \/ \E x \in Good : R = <<x>> /\ IsAuxiliary(x) /\ step \notin LifecycleSteps
          \/ R = <<Commands[step]>> /\ step \in LifecycleSteps
      BY <1>2, <2>2, RecordsAre DEF R
    <3>3. CASE R = <<>> /\ step \notin LifecycleSteps
      BY <2>4, <3>3
    <3>4. CASE \E x \in Good : R = <<x>> /\ IsAuxiliary(x) /\ step \notin LifecycleSteps
      BY <2>5, <3>4
    <3>5. CASE R = <<Commands[step]>> /\ step \in LifecycleSteps
      BY <1>1, <2>5, <3>5
    <3> QED
      BY <3>2, <3>3, <3>4, <3>5
<1> QED
  BY <1>4, <1>5

-----------------------------------------------------------------------------
\* A command keeps the log right.

\* What was reached stays reached, and what is sent may be the next step.
LEMMA ReachesJoined ==
    ASSUME NEW S, NEW a \in Seq(S), NEW b \in Seq(S), NEW steps, NEW n \in Nat, Reaches(a, steps, Len(a), n)
    PROVE  /\ Reaches(a \o b, steps, Len(a \o b), n)
           /\ \A k \in 1..Len(b) : b[k] = steps[n + 1] => Reaches(a \o b, steps, Len(a \o b), n + 1)
<1> DEFINE c == a \o b
           p == Len(a)
           r == Len(b)
<1>1. p \in Nat /\ r \in Nat /\ Len(c) = p + r
  BY JoinedAt, LenProperties
<1>2. \A i \in 1..p : c[i] = a[i]
  BY JoinedAt
<1>3. \A i \in 1..r : c[p + i] = b[i]
  BY JoinedAt
<1>4. Reaches(a, steps, p, n)
  OBVIOUS
<1> HIDE DEF c, p, r
<1>5. \A j \in Nat : p <= j => Reaches(c, steps, j, n)
  BY <1>1, <1>2, <1>4, ReachesMore
<1>6. ASSUME NEW k \in 1..r, b[k] = steps[n + 1] PROVE Reaches(c, steps, p + r, n + 1)
  <2> DEFINE j == p + k - 1
  <2>1. j \in Nat /\ p <= j /\ j + 1 = p + k /\ p + k <= p + r /\ p + k \in Nat /\ p + r \in Nat
    BY <1>1
  <2> HIDE DEF j
  <2>2. c[j + 1] = steps[n + 1] /\ Reaches(c, steps, j, n)
    BY <1>3, <1>5, <1>6, <2>1
  <2>3. Reaches(c, steps, p + k, n + 1)
    BY <2>1, <2>2, ReachesNext
  <2>4. n + 1 \in Nat
    OBVIOUS
  <2> QED
    BY <2>1, <2>3, <2>4, ReachesMore
<1> QED
  BY <1>1, <1>5, <1>6 DEF c, r

\* Where the records of the new log come from.
LEMMA JoinedElement ==
    ASSUME NEW S, NEW a \in Seq(S), NEW b \in Seq(S), NEW i \in 1..Len(a \o b)
    PROVE  \/ i \in 1..Len(a) /\ (a \o b)[i] = a[i]
           \/ i > Len(a) /\ \E k \in 1..Len(b) : i = Len(a) + k /\ (a \o b)[i] = b[k]
<1> DEFINE p == Len(a)
           r == Len(b)
<1>1. p \in Nat /\ r \in Nat /\ i \in 1..(p + r)
  BY JoinedAt, LenProperties
<1>2. \A j \in 1..p : (a \o b)[j] = a[j]
  BY JoinedAt
<1>3. \A j \in 1..r : (a \o b)[p + j] = b[j]
  BY JoinedAt
<1> HIDE DEF p, r
<1>4. CASE i <= p
  <2>1. i \in 1..p
    BY <1>1, <1>4
  <2> QED
    BY <1>2, <2>1 DEF p
<1>5. CASE ~(i <= p)
  <2>1. i - p \in 1..r /\ i = p + (i - p) /\ i > p
    BY <1>1, <1>5
  <2> QED
    BY <1>3, <2>1 DEF p, r
<1> QED
  BY <1>4, <1>5

LEMMA InOrderStep ==
    ASSUME ChoiceInv, step \in 1..14, ~Fails, held = Late(step), NEW log \in Seq(Good), InOrder(log, step)
    PROVE  InOrder(log \o Sent, step + 1)
<1> SUFFICES ASSUME Kept(step + 1), NEW q \in Installations
             PROVE  Reaches(log \o Sent, Wanted(q), Len(log \o Sent),
                        IF Late(step + 1) # <<>> /\ Commands[fault.at].inst = q
                        THEN Due(q, step + 1) - 1 ELSE Due(q, step + 1))
  BY DEF InOrder
<1>1. step \in 1..15 /\ step + 1 \in 1..15
  OBVIOUS
<1>2. Kept(step)
  <2>1. Breaking => fault.at \in Nat
    BY FaultIsChange DEF Breaking, LifecycleSteps
  <2> QED
    BY <2>1 DEF Kept
<1>3. Reaches(log, Wanted(q), Len(log),
              IF Late(step) # <<>> /\ Commands[fault.at].inst = q THEN Due(q, step) - 1 ELSE Due(q, step))
  BY <1>2 DEF InOrder
<1>4. Due(q, step) \in Nat /\ Due(q, step + 1) \in Nat
  <2>1. \A s \in 1..15 : Due(q, s) \in Nat
    BY DEF Due
  <2> QED
    BY <1>1, <2>1
<1>5. Sent \in Seq(Good)
  BY SentShape
<1> DEFINE new == log \o Sent
<1>6. \A n \in Nat : Reaches(log, Wanted(q), Len(log), n) => Reaches(new, Wanted(q), Len(new), n)
  BY <1>5, ReachesJoined
<1>7. ASSUME NEW n \in Nat, Reaches(log, Wanted(q), Len(log), n), NEW k \in 1..Len(Sent), Sent[k] = Wanted(q)[n + 1]
      PROVE  Reaches(new, Wanted(q), Len(new), n + 1)
  BY <1>5, <1>7, ReachesJoined
<1> HIDE DEF new
<1>8. CASE Blamed
  <2>1. step \in LifecycleSteps /\ fault.in = "command" /\ fault.at = step
    BY <1>8, FaultIsChange DEF Blamed
  <2>2. IsLate /\ ~Disorder(step)
    BY <2>1 DEF Kept, Breaking, IsLate
  <2>3. Late(step) = <<>> /\ Late(step + 1) # <<>>
    <3>1. step # fault.at + 1 /\ step + 1 = fault.at + 1
      BY <1>1, <2>1
    <3>2. Late(step) = <<>>
      BY <3>1 DEF Late
    <3>3. Late(step + 1) # <<>>
      BY <1>1, <2>2, <3>1, LateShape
    <3> QED
      BY <3>2, <3>3
  <2>4. Commands[fault.at].inst = StepOf(step)
    BY <2>1, CommandShape
  <2>5. Reaches(log, Wanted(q), Len(log), Due(q, step))
    BY <1>3, <2>3
  <2>6. Reaches(new, Wanted(q), Len(new), Due(q, step))
    BY <1>4, <1>6, <2>5
  <2>7. CASE q = StepOf(step)
    <3>1. Due(q, step + 1) - 1 = Due(q, step)
      <4>1. Due(q, step + 1) = Due(q, step) + 1
        BY <2>1, <2>7, DueShape
      <4> QED
        BY <1>4, <4>1
    <3> QED
      BY <2>3, <2>4, <2>6, <2>7, <3>1 DEF new
  <2>8. CASE q # StepOf(step)
    <3>1. Due(q, step + 1) = Due(q, step)
      BY <2>8, DueShape
    <3> QED
      BY <2>3, <2>4, <2>6, <2>8, <3>1 DEF new
  <2> QED
    BY <2>7, <2>8
<1>9. CASE ~Blamed /\ Late(step) = <<>>
  <2>1. Late(step + 1) = <<>>
    <3>1. ~(IsLate /\ step + 1 = fault.at + 1)
      <4>1. IsLate => fault.at \in 1..14
        BY <1>1, LateShape
      <4>2. IsLate => fault.at # step
        BY <1>9 DEF Blamed, IsLate
      <4> QED
        BY <4>1, <4>2
    <3> QED
      BY <1>1, <3>1, LateShape
  <2>2. Reaches(log, Wanted(q), Len(log), Due(q, step))
    BY <1>3, <1>9
  <2>3. CASE step \in LifecycleSteps /\ q = StepOf(step)
    <3>1. 1 \in 1..Len(Sent) /\ Sent[1] = Commands[step]
      <4>1. 1 <= Len(Sent) /\ Sent[1] = Commands[step]
        BY <1>9, <2>3, SentShape
      <4>2. Len(Sent) \in Nat
        BY <1>5, LenProperties
      <4> QED
        BY <4>1, <4>2
    <3>2. Sent[1] = Wanted(q)[Due(q, step) + 1]
      BY <2>3, <3>1, DueIsNext
    <3>3. Reaches(new, Wanted(q), Len(new), Due(q, step) + 1)
      BY <1>4, <1>7, <2>2, <3>1, <3>2
    <3>4. Due(q, step + 1) = Due(q, step) + 1
      BY <2>3, DueShape
    <3> QED
      BY <2>1, <3>3, <3>4 DEF new
  <2>4. CASE ~(step \in LifecycleSteps /\ q = StepOf(step))
    <3>1. Due(q, step + 1) = Due(q, step)
      BY <2>4, DueShape
    <3>2. Reaches(new, Wanted(q), Len(new), Due(q, step))
      BY <1>4, <1>6, <2>2
    <3> QED
      BY <2>1, <3>1, <3>2 DEF new
  <2> QED
    BY <2>3, <2>4
<1>10. CASE ~Blamed /\ Late(step) # <<>>
  <2> DEFINE a == fault.at
  <2>1. IsLate /\ step = a + 1 /\ a \in LifecycleSteps /\ a \in 1..14 /\ a \in 1..13
    <3>1. IsLate /\ step = a + 1
      BY <1>1, <1>10, LateShape
    <3>2. a \in LifecycleSteps /\ a \in 1..14
      BY <1>1, <3>1, LateShape
    <3> HIDE DEF a
    <3> QED
      BY <3>1, <3>2
  <2>2. Late(step + 1) = <<>>
    <3>1. step + 1 # fault.at + 1
      BY <2>1
    <3> QED
      BY <1>1, <3>1, LateShape
  <2>3. ~Disorder(a)
    BY <1>2, <2>1 DEF Kept, Breaking, IsLate
  <2>4. step \notin LifecycleSteps \/ StepOf(step) # StepOf(a)
    <3>1. Commands[a].inst = StepOf(a) /\ Commands[step].inst = StepOf(step)
          /\ (IsAuxiliary(Commands[step]) <=> step \notin LifecycleSteps)
      BY <2>1, CommandShape
    <3> QED
      BY <2>1, <2>3, <3>1 DEF Disorder
  <2>5. Commands[fault.at].inst = StepOf(a)
    BY <2>1, CommandShape
  <2>6. CASE q = StepOf(a)
    <3>1. Due(q, step + 1) = Due(q, step)
      BY <2>4, <2>6, DueShape
    <3>2. Due(q, step) = Due(q, a) + 1 /\ Wanted(q)[Due(q, a) + 1] = Commands[a]
      BY <2>1, <2>6, DueShape, DueIsNext
    <3>3. Due(q, a) \in Nat /\ Due(q, step) - 1 = Due(q, a)
      <4>1. Due(q, a) \in Nat
        BY <2>1 DEF Due
      <4> QED
        BY <3>2, <4>1
    <3>4. Reaches(log, Wanted(q), Len(log), Due(q, a))
      BY <1>3, <1>10, <2>5, <2>6, <3>3
    <3>5. Len(Sent) \in 1..Len(Sent) /\ Sent[Len(Sent)] = Commands[a]
      <4>1. 1 <= Len(Sent) /\ Sent[Len(Sent)] = Commands[a]
        BY <1>10, SentShape
      <4>2. Len(Sent) \in Nat
        BY <1>5, LenProperties
      <4> QED
        BY <4>1, <4>2
    <3>6. Reaches(new, Wanted(q), Len(new), Due(q, a) + 1)
      BY <1>7, <3>2, <3>3, <3>4, <3>5
    <3> QED
      BY <2>2, <3>1, <3>2, <3>6 DEF new
  <2>7. CASE q # StepOf(a)
    <3>1. Reaches(log, Wanted(q), Len(log), Due(q, step))
      BY <1>3, <2>5, <2>7
    <3>2. CASE step \in LifecycleSteps /\ q = StepOf(step)
      <4>1. 1 \in 1..Len(Sent) /\ Sent[1] = Commands[step]
        <5>1. 1 <= Len(Sent) /\ Sent[1] = Commands[step]
          BY <1>10, <3>2, SentShape
        <5>2. Len(Sent) \in Nat
          BY <1>5, LenProperties
        <5> QED
          BY <5>1, <5>2
      <4>2. Sent[1] = Wanted(q)[Due(q, step) + 1]
        BY <3>2, <4>1, DueIsNext
      <4>3. Reaches(new, Wanted(q), Len(new), Due(q, step) + 1)
        BY <1>4, <1>7, <3>1, <4>1, <4>2
      <4>4. Due(q, step + 1) = Due(q, step) + 1
        BY <3>2, DueShape
      <4> QED
        BY <2>2, <4>3, <4>4 DEF new
    <3>3. CASE ~(step \in LifecycleSteps /\ q = StepOf(step))
      <4>1. Due(q, step + 1) = Due(q, step)
        BY <3>3, DueShape
      <4>2. Reaches(new, Wanted(q), Len(new), Due(q, step))
        BY <1>4, <1>6, <3>1
      <4> QED
        BY <2>2, <4>1, <4>2 DEF new
    <3> QED
      BY <3>2, <3>3
  <2> QED
    BY <2>6, <2>7
<1> QED
  BY <1>8, <1>9, <1>10

LEMMA LackingStep ==
    ASSUME ChoiceInv, step \in 1..14, ~Fails, held = Late(step), NEW log \in Seq(Good), Lacking(log)
    PROVE  Lacking(log \o Sent)
<1> SUFFICES ASSUME Lost, NEW i \in 1..Len(log \o Sent) PROVE (log \o Sent)[i] # Commands[fault.at]
  BY DEF Lacking
<1>1. Sent \in Seq(Good)
  BY SentShape
<1>2. fault.in = "command" /\ fault.at \in LifecycleSteps
  BY FaultIsChange DEF Lost
<1>3. fault.at \in 1..14 /\ ~IsAuxiliary(Commands[fault.at])
  <2>1. fault.at \in 1..14
    BY <1>2 DEF LifecycleSteps
  <2> QED
    BY <1>2, <2>1, CommandShape
<1>4. fault.how # "extra" /\ (IsLate => fault.at = 14)
  BY DEF Lost, IsLate
<1>5. Late(step) = <<>>
  <2>1. ~(IsLate /\ step = fault.at + 1)
    BY <1>4
  <2> QED
    BY <2>1 DEF Late
<1>6. ASSUME NEW k \in 1..Len(Sent) PROVE Sent[k] # Commands[fault.at]
  <2>1. \/ IsAuxiliary(Sent[k])
        \/ Sent[k] = Commands[step] /\ ~Blamed
        \/ Blamed /\ Sent[k] # Commands[step]
    BY <1>4, <1>5, SentShape
  <2>2. CASE IsAuxiliary(Sent[k])
    BY <1>3, <2>2
  <2>3. CASE Sent[k] = Commands[step] /\ ~Blamed
    <3>1. step # fault.at
      BY <1>2, <2>3 DEF Blamed
    <3> QED
      BY <1>2, <2>3, <3>1, CommandsDiffer
  <2>4. CASE Blamed /\ Sent[k] # Commands[step]
    BY <2>4 DEF Blamed
  <2> QED
    BY <2>1, <2>2, <2>3, <2>4
<1>7. \A k \in 1..Len(log) : log[k] # Commands[fault.at]
  BY DEF Lacking
<1> QED
  BY <1>1, <1>6, <1>7, JoinedElement

LEMMA OvertakenShape ==
    ASSUME ChoiceInv, Overtaken
    PROVE  /\ IsLate /\ fault.at \in {2, 5, 8} /\ fault.at \in LifecycleSteps /\ fault.at + 1 \in LifecycleSteps
           /\ StepOf(fault.at + 1) = StepOf(fault.at)
           /\ ~IsAuxiliary(Commands[fault.at]) /\ ~IsAuxiliary(Commands[fault.at + 1])
           /\ Commands[fault.at] # Commands[fault.at + 1]
<1> DEFINE a == fault.at
<1>1. a \in LifecycleSteps /\ IsLate /\ a # 14 /\ Disorder(a)
  BY FaultIsChange DEF Overtaken, IsLate
<1>2. a \in 1..13 /\ a + 1 \in 1..14 /\ a \in 1..14
  BY <1>1 DEF LifecycleSteps
<1>3. Commands[a + 1].inst = Commands[a].inst /\ ~IsAuxiliary(Commands[a + 1])
  BY <1>1 DEF Disorder
<1>4. a + 1 \in LifecycleSteps
  BY <1>2, <1>3, CommandShape
<1>5. a \in {2, 5, 8, 13}
  BY <1>1, <1>4 DEF LifecycleSteps
<1>6. StepOf(a + 1) = StepOf(a)
  BY <1>2, <1>3, CommandShape
<1>7. a # 13
  BY <1>6 DEF StepOf
<1>8. ~IsAuxiliary(Commands[a])
  BY <1>1, <1>2, CommandShape
<1>9. Commands[a] # Commands[a + 1]
  <2>1. a # a + 1
    BY <1>2
  <2> QED
    BY <1>1, <1>2, <2>1, CommandsDiffer
<1> QED
  BY <1>1, <1>3, <1>4, <1>5, <1>6, <1>7, <1>8, <1>9

LEMMA MisorderedStep ==
    ASSUME ChoiceInv, step \in 1..14, ~Fails, held = Late(step), NEW log \in Seq(Good),
           Misordered(log, step), Unborn(log, step)
    PROVE  Misordered(log \o Sent, step + 1) /\ Unborn(log \o Sent, step + 1)
<1> SUFFICES ASSUME Overtaken PROVE Misordered(log \o Sent, step + 1) /\ Unborn(log \o Sent, step + 1)
  BY DEF Misordered, Unborn
<1> DEFINE a == fault.at
           x == Commands[a]
           y == Commands[a + 1]
           new == log \o Sent
<1>1. /\ IsLate /\ a \in {2, 5, 8} /\ a \in LifecycleSteps /\ a + 1 \in LifecycleSteps
      /\ ~IsAuxiliary(x) /\ ~IsAuxiliary(y) /\ x # y
  BY OvertakenShape
<1>2. Sent \in Seq(Good) /\ Len(Sent) \in Nat /\ Len(log) \in Nat
  BY SentShape, LenProperties
<1>3. \A i \in 1..Len(log) : /\ log[i] = x => step > a + 1
                             /\ \A j \in 1..Len(log) : log[i] = x /\ log[j] = y => j < i
                             /\ step <= a + 1 => log[i] # y
  BY DEF Misordered, Unborn
<1>4. fault.how = "late" /\ fault.in = "command"
  BY <1>1 DEF IsLate
<1>5. a = step => Sent = <<>>
  BY <1>1, <1>4, SentShape DEF Blamed
<1>6. ASSUME NEW k \in 1..Len(Sent)
      PROVE  /\ Sent[k] = x => step = a + 1 /\ k = Len(Sent)
             /\ Sent[k] = y => step = a + 1 /\ k = 1
  <2>1. \/ IsAuxiliary(Sent[k])
        \/ Sent[k] = Commands[step] /\ k = 1 /\ step \in LifecycleSteps /\ ~Blamed
        \/ Late(step) # <<>> /\ Sent[k] = x /\ k = Len(Sent)
    BY <1>4, SentShape
  <2>2. CASE IsAuxiliary(Sent[k])
    BY <1>1, <2>2
  <2>3. CASE Sent[k] = Commands[step] /\ k = 1 /\ step \in LifecycleSteps /\ ~Blamed
    <3>1. step # a /\ step \in 1..14
      BY <1>4, <2>3 DEF Blamed
    <3>2. Sent[k] # x
      BY <1>1, <2>3, <3>1, CommandsDiffer
    <3>3. Sent[k] = y => step = a + 1
      BY <1>1, <2>3, <3>1, CommandsDiffer
    <3> QED
      BY <2>3, <3>2, <3>3
  <2>4. CASE Late(step) # <<>> /\ Sent[k] = x /\ k = Len(Sent)
    <3>1. step = a + 1
      BY <2>4 DEF Late
    <3> QED
      BY <1>1, <2>4, <3>1
  <2> QED
    BY <2>1, <2>2, <2>3, <2>4
<1>7. ASSUME NEW i \in 1..Len(new)
      PROVE  \/ i \in 1..Len(log) /\ new[i] = log[i]
             \/ i > Len(log) /\ \E k \in 1..Len(Sent) : i = Len(log) + k /\ new[i] = Sent[k]
  BY <1>2, JoinedElement
<1> HIDE DEF new, x, y
<1>8. step = a + 1 => 1 # Len(Sent)
  <2> SUFFICES ASSUME step = a + 1, 1 = Len(Sent) PROVE FALSE
    OBVIOUS
  <2>1. ~Blamed /\ step \in LifecycleSteps
    <3>1. a # a + 1
      BY <1>1
    <3> QED
      BY <1>1, <3>1 DEF Blamed
  <2>2. Sent[1] = y
    BY <2>1, SentShape DEF y
  <2>3. Late(step) # <<>>
    <3>1. step \in 1..15
      OBVIOUS
    <3> QED
      BY <1>1, <3>1, LateShape
  <2>4. Sent[1] = x
    BY <2>3, SentShape DEF x
  <2> QED
    BY <1>1, <2>2, <2>4
<1>9. ASSUME NEW i \in 1..Len(new), new[i] = x PROVE step + 1 > a + 1
  <2>1. CASE i \in 1..Len(log) /\ new[i] = log[i]
    BY <1>1, <1>3, <1>9, <2>1
  <2>2. CASE \E k \in 1..Len(Sent) : i = Len(log) + k /\ new[i] = Sent[k]
    BY <1>1, <1>6, <1>9, <2>2
  <2> QED
    BY <1>7, <2>1, <2>2
<1>10. ASSUME NEW i \in 1..Len(new), NEW j \in 1..Len(new), new[i] = x, new[j] = y PROVE j < i
  <2>1. CASE i \in 1..Len(log) /\ new[i] = log[i]
    <3>1. log[i] = x /\ step > a + 1
      BY <1>3, <1>10, <2>1
    <3>2. CASE j \in 1..Len(log) /\ new[j] = log[j]
      BY <1>3, <1>10, <2>1, <3>1, <3>2
    <3>3. CASE \E k \in 1..Len(Sent) : j = Len(log) + k /\ new[j] = Sent[k]
      <4>1. step = a + 1
        BY <1>6, <1>10, <3>3
      <4> QED
        BY <1>1, <3>1, <4>1
    <3> QED
      BY <1>7, <3>2, <3>3
  <2>2. CASE i > Len(log) /\ \E k \in 1..Len(Sent) : i = Len(log) + k /\ new[i] = Sent[k]
    <3>1. PICK k \in 1..Len(Sent) : i = Len(log) + k /\ new[i] = Sent[k]
      BY <2>2
    <3>2. step = a + 1 /\ k = Len(Sent)
      BY <1>6, <1>10, <3>1
    <3>3. CASE j \in 1..Len(log) /\ new[j] = log[j]
      BY <1>2, <2>2, <3>3
    <3>4. CASE \E m \in 1..Len(Sent) : j = Len(log) + m /\ new[j] = Sent[m]
      <4>1. PICK m \in 1..Len(Sent) : j = Len(log) + m /\ new[j] = Sent[m]
        BY <3>4
      <4>2. m = 1
        BY <1>6, <1>10, <4>1
      <4>3. k > 1
        BY <1>2, <1>8, <3>2
      <4> QED
        BY <1>2, <3>1, <4>1, <4>2, <4>3
    <3> QED
      BY <1>7, <3>3, <3>4
  <2> QED
    BY <1>7, <2>1, <2>2
<1>11. ASSUME NEW j \in 1..Len(new), step + 1 <= a + 1 PROVE new[j] # y
  <2>1. step <= a + 1 /\ step # a + 1
    BY <1>1, <1>11
  <2>2. CASE j \in 1..Len(log) /\ new[j] = log[j]
    BY <1>3, <2>1, <2>2
  <2>3. CASE \E k \in 1..Len(Sent) : j = Len(log) + k /\ new[j] = Sent[k]
    BY <1>6, <2>1, <2>3
  <2> QED
    BY <1>7, <2>2, <2>3
<1>12. Misordered(new, step + 1)
  BY <1>9, <1>10 DEF Misordered, x, y
<1>13. Unborn(new, step + 1)
  BY <1>11 DEF Unborn, y
<1> QED
  BY <1>12, <1>13 DEF new

LEMMA OnceStep ==
    ASSUME ChoiceInv, step \in 1..14, ~Fails, held = Late(step), NEW log \in Seq(Good), Once(log, step)
    PROVE  Once(log \o Sent, step + 1)
<1> SUFFICES ASSUME fault.in # "command" PROVE Once(log \o Sent, step + 1)
  BY DEF Once
<1> DEFINE new == log \o Sent
<1>1. Sent \in Seq(Good) /\ Len(Sent) \in Nat /\ Len(log) \in Nat
  BY SentShape, LenProperties
<1>2. Late(step) = <<>> /\ ~Blamed
  BY DEF Late, IsLate, Blamed
<1>3. \A k \in 1..Len(Sent) : IsAuxiliary(Sent[k]) \/ (Sent[k] = Commands[step] /\ k = 1 /\ step \in LifecycleSteps)
  BY <1>2, SentShape
<1>4. /\ \A i \in 1..Len(log) : IsAuxiliary(log[i]) \/ \E c \in 1..(step - 1) : log[i] = Commands[c]
      /\ \A i, j \in 1..Len(log) : log[i] = log[j] /\ ~IsAuxiliary(log[i]) => i = j
  BY DEF Once
<1>5. ASSUME NEW i \in 1..Len(new)
      PROVE  \/ i \in 1..Len(log) /\ new[i] = log[i]
             \/ i > Len(log) /\ \E k \in 1..Len(Sent) : i = Len(log) + k /\ new[i] = Sent[k]
  BY <1>1, JoinedElement
<1> HIDE DEF new
<1>6. ASSUME NEW i \in 1..Len(log), NEW k \in 1..Len(Sent), log[i] = Sent[k] PROVE IsAuxiliary(log[i])
  <2> SUFFICES ASSUME ~IsAuxiliary(log[i]) PROVE FALSE
    OBVIOUS
  <2>1. Sent[k] = Commands[step] /\ step \in LifecycleSteps
    BY <1>3, <1>6
  <2>2. PICK c \in 1..(step - 1) : log[i] = Commands[c]
    BY <1>4
  <2>3. c \in 1..14 /\ c # step
    OBVIOUS
  <2> QED
    BY <1>6, <2>1, <2>2, <2>3, CommandsDiffer
<1>7. ASSUME NEW i \in 1..Len(new) PROVE IsAuxiliary(new[i]) \/ \E c \in 1..((step + 1) - 1) : new[i] = Commands[c]
  <2>1. \A c \in 1..(step - 1) : c \in 1..((step + 1) - 1)
    OBVIOUS
  <2>2. step \in 1..((step + 1) - 1)
    OBVIOUS
  <2>3. CASE i \in 1..Len(log) /\ new[i] = log[i]
    BY <1>4, <2>1, <2>3
  <2>4. CASE \E k \in 1..Len(Sent) : i = Len(log) + k /\ new[i] = Sent[k]
    BY <1>3, <2>2, <2>4
  <2> QED
    BY <1>5, <2>3, <2>4
<1>8. ASSUME NEW i \in 1..Len(new), NEW j \in 1..Len(new), new[i] = new[j], ~IsAuxiliary(new[i]) PROVE i = j
  <2>1. CASE i \in 1..Len(log) /\ new[i] = log[i] /\ j \in 1..Len(log) /\ new[j] = log[j]
    BY <1>4, <1>8, <2>1
  <2>2. CASE i \in 1..Len(log) /\ new[i] = log[i] /\ \E k \in 1..Len(Sent) : j = Len(log) + k /\ new[j] = Sent[k]
    BY <1>6, <1>8, <2>2
  <2>3. CASE j \in 1..Len(log) /\ new[j] = log[j] /\ \E k \in 1..Len(Sent) : i = Len(log) + k /\ new[i] = Sent[k]
    BY <1>6, <1>8, <2>3
  <2>4. CASE /\ \E k \in 1..Len(Sent) : i = Len(log) + k /\ new[i] = Sent[k]
             /\ \E k \in 1..Len(Sent) : j = Len(log) + k /\ new[j] = Sent[k]
    BY <1>3, <1>8, <2>4
  <2> QED
    BY <1>5, <2>1, <2>2, <2>3, <2>4
<1> QED
  BY <1>7, <1>8 DEF Once, new

LEMMA LogStep ==
    ASSUME ChoiceInv, step \in 1..14, ~Fails, held = Late(step), NEW log \in Seq(Good), LogOk(log, step)
    PROVE  LogOk(log \o Sent, step + 1)
BY InOrderStep, LackingStep, MisorderedStep, OnceStep DEF LogOk

-----------------------------------------------------------------------------
\* What the queries show of the journal.

\* What is found in a part is found in the whole.
LEMMA ReachesWithin ==
    ASSUME NEW a, NEW b, NEW steps, NEW i \in Nat, NEW j \in Nat, NEW n \in Nat,
           Reaches(a, b, i, j), Reaches(b, steps, j, n)
    PROVE  Reaches(a, steps, i, n)
<1>1. PICK g \in [1..j -> 1..i] : /\ \A k \in 1..j : a[g[k]] = b[k]
                                  /\ \A p, k \in 1..j : p < k => g[p] < g[k]
  BY DEF Reaches
<1>2. PICK h \in [1..n -> 1..j] : /\ \A k \in 1..n : b[h[k]] = steps[k]
                                  /\ \A p, k \in 1..n : p < k => h[p] < h[k]
  BY DEF Reaches
<1> DEFINE f == [k \in 1..n |-> g[h[k]]]
<1>3. \A k \in 1..n : h[k] \in 1..j /\ g[h[k]] \in 1..i
  BY <1>1, <1>2
<1>4. f \in [1..n -> 1..i] /\ \A k \in 1..n : f[k] = g[h[k]]
  BY <1>3
<1> HIDE DEF f
<1>5. \A k \in 1..n : a[f[k]] = steps[k]
  BY <1>1, <1>2, <1>3, <1>4
<1>6. ASSUME NEW p \in 1..n, NEW k \in 1..n, p < k PROVE f[p] < f[k]
  <2>1. h[p] < h[k] /\ h[p] \in 1..j /\ h[k] \in 1..j
    BY <1>2, <1>3, <1>6
  <2> QED
    BY <1>1, <1>4, <2>1
<1> QED
  BY <1>4, <1>5, <1>6 DEF Reaches

\* The rows shown of an installation, and its lifecycle rows among them.
OwnOf(q) == Select(Shown(q), OwnRows)
LEMMA ShownShape ==
    ASSUME stored \in Seq(Good), NEW q \in Installations
    PROVE  /\ Shown(q) \in Seq(Good) /\ Shown(q) \in Seq(Rows) /\ Len(Shown(q)) \in Nat
           /\ \A k \in 1..Len(Shown(q)) : Shown(q)[k] \in Good /\ Shown(q)[k].inst \in {q, "path"}
           /\ Reaches(stored, Shown(q), Len(stored), Len(Shown(q)))
           /\ OwnOf(q) \in Seq(Rows) /\ Len(OwnOf(q)) \in Nat
           /\ \A k \in 1..Len(OwnOf(q)) : OwnOf(q)[k] \in Rows /\ OwnOf(q)[k].inst = q
           /\ Reaches(Shown(q), OwnOf(q), Len(Shown(q)), Len(OwnOf(q)))
           /\ Lifecycle(Shown(q)) = [k \in 1..Len(OwnOf(q)) |-> <<OwnOf(q)[k].ref, OwnOf(q)[k].change>>]
           /\ Lifecycle(Shown(q)) \in Seq(Steps) /\ Len(Lifecycle(Shown(q))) = Len(OwnOf(q))
<1> DEFINE L == Shown(q)
           O == OwnOf(q)
           Part == {r \in Good : r.inst \in {q, "path"}}
<1>1. L = Select(stored, ShownRows(q)) /\ O = Select(L, OwnRows)
  BY DEF Shown, OwnOf, ShownRows
<1> HIDE DEF L, O
<1>2. L \in Seq(Good)
  BY <1>1, SelectIsSeq
<1>3. \A k \in 1..Len(L) : L[k] \in ShownRows(q) /\ L[k] \in Good
  BY <1>1, <1>2, SelectWithin, ElementOfSeq
<1>4. \A k \in 1..Len(L) : L[k] \in Part
  BY <1>3 DEF ShownRows
<1>5. L \in Seq(Part) /\ Len(L) \in Nat
  <2>1. L \in [1..Len(L) -> Good] /\ Len(L) \in Nat
    BY <1>2, LenProperties
  <2>2. L \in [1..Len(L) -> Part]
    BY <1>4, <2>1
  <2> HIDE DEF Part
  <2> QED
    BY <2>1, <2>2
<1>6. O \in Seq(Part) /\ Len(O) \in Nat
  <2> HIDE DEF Part
  <2> QED
    BY <1>1, <1>5, SelectIsSeq, LenProperties
<1>7. \A k \in 1..Len(O) : O[k] \in OwnRows
  BY <1>1, <1>5, SelectWithin
<1>8. ASSUME NEW k \in 1..Len(O) PROVE O[k] \in Rows /\ O[k].inst = q
  <2>1. O[k] \in Part
    <3> HIDE DEF Part
    <3> QED
      BY <1>6, ElementOfSeq
  <2>2. O[k] \in OwnRows
    BY <1>7
  <2> QED
    BY <2>1, <2>2 DEF OwnRows, Good
<1>9. L \in Seq(Rows)
  <2>1. L \in [1..Len(L) -> Rows]
    <3>1. L \in [1..Len(L) -> Good]
      BY <1>2, LenProperties
    <3> QED
      BY <3>1, GoodRow
  <2> QED
    BY <1>5, <2>1
<1>10. O \in Seq(Rows)
  BY <1>1, <1>9, SelectIsSeq
<1>11. Reaches(stored, L, Len(stored), Len(L)) /\ Reaches(L, O, Len(L), Len(O))
  BY <1>1, <1>2, SelectWithin
<1>12. /\ Lifecycle(L) = [k \in 1..Len(O) |-> <<O[k].ref, O[k].change>>]
       /\ Lifecycle(L) \in Seq(Steps) /\ Len(Lifecycle(L)) = Len(O)
  BY <1>1, <1>9, LifecycleIsSeq
<1>13. \A k \in 1..Len(L) : L[k] \in Good /\ L[k].inst \in {q, "path"}
  BY <1>4
<1> QED
  BY <1>2, <1>5, <1>6, <1>8, <1>9, <1>10, <1>11, <1>12, <1>13 DEF L, O

\* An installation whose steps are in the journal passes its query.
LEMMA ConfirmedPasses ==
    ASSUME stored \in Seq(Good), NEW q \in Installations, Confirmed(q)
    PROVE  /\ history_contract(Shown(q), q, Required(q))
           /\ Reaches(Shown(q), Wanted(q), Len(Shown(q)), Due(q, 15))
<1> DEFINE N == Due(q, 15)
           L == Shown(q)
           O == OwnOf(q)
           W == Wanted(q)
           E == Lifecycle(L)
           R == Required(q)
<1>1. /\ W \in Seq(Good) /\ Len(W) = N /\ R \in Seq(Steps) /\ Len(R) = N /\ N \in Nat
      /\ \A k \in 1..N : /\ W[k] \in Good /\ W[k].inst = q /\ ~IsAuxiliary(W[k])
                         /\ R[k] = <<W[k].ref, W[k].change>>
  <2>1. W \in Seq(Good) /\ Len(W) = N /\ Len(R) = N /\ R \in Seq(Steps)
    BY WantedShape, RequiredIsSeq
  <2>2. N \in Nat
    BY <2>1, LenProperties
  <2> QED
    BY <2>1, <2>2, WantedShape, ElementOfSeq
<1>2. /\ L \in Seq(Good) /\ L \in Seq(Rows) /\ Len(L) \in Nat
      /\ \A k \in 1..Len(L) : L[k] \in Good /\ L[k].inst \in {q, "path"}
      /\ O \in Seq(Rows) /\ Len(O) \in Nat
      /\ E = [k \in 1..Len(O) |-> <<O[k].ref, O[k].change>>] /\ E \in Seq(Steps) /\ Len(E) = Len(O)
  BY ShownShape
<1>3. L = Select(stored, ShownRows(q)) /\ O = Select(L, OwnRows)
  BY DEF Shown, OwnOf, ShownRows
<1>4. Reaches(stored, W, Len(stored), N)
  BY <1>1 DEF Confirmed
<1> HIDE DEF N, L, O, W, E, R
<1>5. N \in 0..N
  BY <1>1
<1>6. Reaches(L, W, Len(L), N)
  <2>1. \A k \in 1..Len(W) : W[k] \in ShownRows(q)
    BY <1>1 DEF ShownRows, Good
  <2> QED
    BY <1>1, <1>3, <1>4, <1>5, <2>1, SelectFinds
<1>7. Reaches(O, W, Len(O), N)
  <2>1. \A k \in 1..Len(W) : W[k] \in OwnRows
    BY <1>1 DEF OwnRows, Good
  <2> QED
    BY <1>1, <1>2, <1>3, <1>5, <1>6, <2>1, SelectFinds
<1>8. Embeds(E, R)
  <2>1. PICK g \in [1..N -> 1..Len(O)] : /\ \A k \in 1..N : O[g[k]] = W[k]
                                         /\ \A j, k \in 1..N : j < k => g[j] < g[k]
    BY <1>7 DEF Reaches
  <2>2. \A k \in 1..N : E[g[k]] = R[k]
    BY <1>1, <1>2, <2>1
  <2>3. DOMAIN E = 1..Len(O) /\ DOMAIN R = 1..N
    BY <1>1, <1>2, LenProperties
  <2> QED
    BY <2>1, <2>2, <2>3 DEF Embeds
<1>9. Matches(E, R)
  BY <1>1, <1>2, <1>8, MatchesExact
<1>10. Sources(L, q)
  <2>1. DOMAIN L = 1..Len(L)
    BY <1>2, LenProperties
  <2> QED
    BY <1>2, <2>1 DEF Sources, Good
<1> QED
  BY <1>6, <1>9, <1>10 DEF history_contract, E, L, N, R, W

\* A query is passed only where the installation's steps are in the journal.
LEMMA PassesConfirmed ==
    ASSUME stored \in Seq(Good), NEW q \in Installations, Matches(Lifecycle(Shown(q)), Required(q))
    PROVE  Confirmed(q)
<1> DEFINE N == Due(q, 15)
           L == Shown(q)
           O == OwnOf(q)
           W == Wanted(q)
           E == Lifecycle(L)
           R == Required(q)
<1>1. /\ Len(W) = N /\ R \in Seq(Steps) /\ Len(R) = N /\ N \in Nat
      /\ \A k \in 1..N : W[k] = Row(q, R[k][1], R[k][2])
  <2>1. W \in Seq(Good) /\ Len(W) = N /\ Len(R) = N /\ R \in Seq(Steps)
    BY WantedShape, RequiredIsSeq
  <2>2. N \in Nat
    BY <2>1, LenProperties
  <2> QED
    BY <2>1, <2>2, WantedShape
<1>2. /\ L \in Seq(Good) /\ Len(L) \in Nat /\ Reaches(stored, L, Len(stored), Len(L))
      /\ O \in Seq(Rows) /\ Len(O) \in Nat /\ Reaches(L, O, Len(L), Len(O))
      /\ \A k \in 1..Len(O) : O[k] \in Rows /\ O[k].inst = q
      /\ E = [k \in 1..Len(O) |-> <<O[k].ref, O[k].change>>] /\ E \in Seq(Steps) /\ Len(E) = Len(O)
  BY ShownShape
<1>3. Embeds(E, R)
  BY <1>1, <1>2, MatchesExact
<1>4. Len(stored) \in Nat
  BY LenProperties
<1> HIDE DEF N, L, O, W, E, R
<1>5. Reaches(O, W, Len(O), N)
  <2>1. DOMAIN E = 1..Len(O) /\ DOMAIN R = 1..N
    BY <1>1, <1>2, LenProperties
  <2>2. PICK f \in [1..N -> 1..Len(O)] : /\ \A n \in 1..N : E[f[n]] = R[n]
                                         /\ \A m, n \in 1..N : m < n => f[m] < f[n]
    BY <1>3, <2>1 DEF Embeds
  <2>3. ASSUME NEW k \in 1..N PROVE O[f[k]] = W[k]
    <3>1. f[k] \in 1..Len(O) /\ O[f[k]] \in Rows /\ O[f[k]].inst = q
      BY <1>2, <2>2
    <3>2. R[k] = <<O[f[k]].ref, O[f[k]].change>>
      BY <1>2, <2>2, <3>1
    <3>3. R[k][1] = O[f[k]].ref /\ R[k][2] = O[f[k]].change
      BY <3>2
    <3>4. W[k] = Row(O[f[k]].inst, O[f[k]].ref, O[f[k]].change)
      BY <1>1, <3>1, <3>3
    <3> HIDE DEF Rows
    <3>5. \A r \in Rows : r = Row(r.inst, r.ref, r.change)
      BY DEF Row, Rows
    <3> QED
      BY <3>1, <3>4, <3>5
  <2> QED
    BY <2>2, <2>3 DEF Reaches
<1>6. Reaches(L, W, Len(L), N)
  BY <1>1, <1>2, <1>5, ReachesWithin
<1>7. Reaches(stored, W, Len(stored), N)
  BY <1>1, <1>2, <1>4, <1>6, ReachesWithin
<1> QED
  BY <1>1, <1>7 DEF Confirmed, W

LEMMA FirstFound ==
    ASSUME NEW events, NEW q \in Installations, NEW i \in Nat, Reaches(events, Wanted(q), i, Due(q, 15))
    PROVE  \E k \in 1..i : events[k].inst = q /\ ~IsAuxiliary(events[k])
<1>1. 1 \in 1..Due(q, 15)
  BY DEF Due, Installations
<1>2. Wanted(q)[1].inst = q /\ ~IsAuxiliary(Wanted(q)[1])
  BY <1>1, WantedShape
<1>3. PICK g \in [1..Due(q, 15) -> 1..i] : \A k \in 1..Due(q, 15) : events[g[k]] = Wanted(q)[k]
  BY DEF Reaches
<1>4. g[1] \in 1..i /\ events[g[1]] = Wanted(q)[1]
  BY <1>1, <1>3
<1> QED
  BY <1>2, <1>4

LEMMA ForeignRow ==
    ASSUME NEW rows, NEW i \in Nat, DOMAIN rows = 1..i, NEW p \in Installations, NEW q \in Installations, p # q,
           Reaches(rows, Wanted(p), i, Due(p, 15))
    PROVE  ~Sources(rows, q)
<1>1. PICK k \in 1..i : rows[k].inst = p /\ ~IsAuxiliary(rows[k])
  BY FirstFound
<1> QED
  BY <1>1 DEF Sources

\* A contract that was kept to the end leaves all the steps in the journal.
LEMMA AllConfirmed ==
    ASSUME ChoiceInv, InOrder(stored, 15), Kept(15)
    PROVE  \A q \in Installations : Confirmed(q)
<1> SUFFICES ASSUME NEW q \in Installations PROVE Confirmed(q)
  OBVIOUS
<1>1. Late(15) = <<>>
  <2> SUFFICES ASSUME IsLate, 15 = fault.at + 1 PROVE FALSE
    BY DEF Late
  <2>1. fault.at \in 1..14
    BY FaultIsChange DEF IsLate, LifecycleSteps
  <2>2. fault.at = 14
    BY <2>1
  <2>3. Disorder(14)
    BY DEF Disorder
  <2> QED
    BY <2>2, <2>3 DEF Kept, Breaking, IsLate
<1>2. Reaches(stored, Wanted(q), Len(stored), Due(q, 15))
  BY <1>1 DEF InOrder
<1>3. Len(Wanted(q)) = Due(q, 15)
  BY WantedShape
<1> QED
  BY <1>2, <1>3 DEF Confirmed

LEMMA QueriesAre ==
    /\ Queries[1] = "user" /\ Queries[2] = "system" /\ Queries[3] = "alt" /\ Queries[4] = "reverse"
    /\ Queries[5] = "since" /\ Queries[6] = "until"
BY DEF Queries

\* A right answer is accepted.
LEMMA RightAccepted ==
    ASSUME ChoiceInv, stored \in Seq(Good), step \in 1..6, ~Here("query"), LogOk(stored, 15), Kept(15),
           step > 1 => user = Shown("user")
    PROVE  Accepts(Queries[step], Answer(Queries[step]))
<1>1. \A q \in Installations : Confirmed(q)
  BY AllConfirmed DEF LogOk
<1>2. \A q \in Installations : history_contract(Shown(q), q, Required(q))
  BY <1>1, ConfirmedPasses
<1>3. ASSUME NEW q \in Installations, q # "user" PROVE ~history_contract(Shown(q), "user", Required("user"))
  <2>1. Shown(q) \in Seq(Good) /\ Len(Shown(q)) \in Nat /\ Reaches(Shown(q), Wanted(q), Len(Shown(q)), Due(q, 15))
    BY <1>1, ShownShape, ConfirmedPasses
  <2>2. DOMAIN Shown(q) = 1..Len(Shown(q))
    BY <2>1, LenProperties
  <2>3. "user" \in Installations
    BY DEF Installations
  <2>4. ~Sources(Shown(q), "user")
    BY <1>3, <2>1, <2>2, <2>3, ForeignRow
  <2> QED
    BY <2>4 DEF history_contract
<1>4. step = 1 \/ step = 2 \/ step = 3 \/ step = 4 \/ step = 5 \/ step = 6
  OBVIOUS
<1>5. CASE step = 1
  <2>1. Queries[step] = "user" /\ "user" \in Installations
    BY <1>5, QueriesAre DEF Installations
  <2>2. Answer("user") = Shown("user")
    BY <2>1 DEF Answer
  <2> QED
    BY <1>2, <2>1, <2>2 DEF Accepts
<1>6. CASE step = 2
  <2>1. Queries[step] = "system" /\ "system" \in Installations
    BY <1>6, QueriesAre DEF Installations
  <2>2. Answer("system") = Shown("system")
    BY <2>1 DEF Answer
  <2> QED
    BY <1>2, <1>3, <2>1, <2>2 DEF Accepts
<1>7. CASE step = 3
  <2>1. Queries[step] = "alt" /\ "alt" \in Installations
    BY <1>7, QueriesAre DEF Installations
  <2>2. Answer("alt") = Shown("alt")
    BY <2>1 DEF Answer
  <2> QED
    BY <1>2, <1>3, <2>1, <2>2 DEF Accepts
<1>8. CASE step = 4
  <2>1. Queries[step] = "reverse" /\ user = Shown("user")
    BY <1>8, QueriesAre
  <2>2. Answer("reverse") = Reverse(Shown("user"))
    BY DEF Answer, Installations
  <2> QED
    BY <2>1, <2>2 DEF Accepts
<1>9. CASE step \in {5, 6}
  <2>1. Queries[step] \in {"since", "until"}
    BY <1>9, QueriesAre
  <2>2. Answer(Queries[step]) = <<>>
    BY <2>1 DEF Answer, Installations
  <2> QED
    BY <2>1, <2>2 DEF Accepts
<1> QED
  BY <1>4, <1>5, <1>6, <1>7, <1>8, <1>9

\* The user's history is not its own reverse.
LEMMA NotReversed ==
    ASSUME stored \in Seq(Good), Confirmed("user"), Once(stored, 15), fault.in # "command"
    PROVE  Shown("user") # Reverse(Shown("user")) /\ Shown("user") # <<>>
<1> DEFINE L == Shown("user")
           l == Len(L)
           W == Wanted("user")
<1>1. "user" \in Installations
  BY DEF Installations
<1>2. Due("user", 15) = 4
  BY DEF Due
<1>3. /\ L \in Seq(Good) /\ l \in Nat /\ Reaches(stored, L, Len(stored), l) /\ Reaches(L, W, l, 4)
  BY <1>1, <1>2, ShownShape, ConfirmedPasses
<1>4. W[1] = Commands[2] /\ W[2] = Commands[3] /\ ~IsAuxiliary(W[1]) /\ ~IsAuxiliary(W[2])
  <2>1. W[1] = Commands[2]
    <3>1. 2 \in LifecycleSteps /\ StepOf(2) = "user" /\ Due("user", 2) + 1 = 1
      BY DEF LifecycleSteps, StepOf, Due
    <3> QED
      BY <3>1, DueIsNext
  <2>2. W[2] = Commands[3]
    <3>1. 3 \in LifecycleSteps /\ StepOf(3) = "user" /\ Due("user", 3) + 1 = 2
      BY DEF LifecycleSteps, StepOf, Due
    <3> QED
      BY <3>1, DueIsNext
  <2>3. 1 \in 1..Due("user", 15) /\ 2 \in 1..Due("user", 15)
    BY <1>2
  <2> QED
    BY <1>1, <2>1, <2>2, <2>3, WantedShape
<1>5. PICK g \in [1..4 -> 1..l] : /\ \A k \in 1..4 : L[g[k]] = W[k]
                                  /\ \A j, k \in 1..4 : j < k => g[j] < g[k]
  BY <1>3 DEF Reaches
<1>6. PICK h \in [1..l -> 1..Len(stored)] : /\ \A k \in 1..l : stored[h[k]] = L[k]
                                            /\ \A j, k \in 1..l : j < k => h[j] < h[k]
  BY <1>3 DEF Reaches
<1> HIDE DEF L, l, W
<1>7. ASSUME NEW i \in 1..l, NEW j \in 1..l, L[i] = L[j], ~IsAuxiliary(L[i]) PROVE i = j
  <2>1. h[i] \in 1..Len(stored) /\ h[j] \in 1..Len(stored) /\ stored[h[i]] = stored[h[j]] /\ ~IsAuxiliary(stored[h[i]])
    BY <1>6, <1>7
  <2>2. h[i] = h[j]
    BY <2>1 DEF Once
  <2>3. ~(i < j) /\ ~(j < i)
    <3>1. Len(stored) \in Nat
      BY LenProperties
    <3> QED
      BY <1>6, <2>1, <2>2, <3>1
  <2> QED
    BY <1>3, <2>3
<1> DEFINE a == g[1]
           b == g[2]
<1>8. a \in 1..l /\ b \in 1..l /\ a < b /\ L[a] = W[1] /\ L[b] = W[2]
  BY <1>5
<1> HIDE DEF a, b
<1>9. L # Reverse(L)
  <2> SUFFICES ASSUME L = Reverse(L) PROVE FALSE
    OBVIOUS
  <2>1. \A i \in 1..l : L[i] = L[(l - i) + 1]
    BY DEF Reverse, l
  <2>2. (l - a) + 1 \in 1..l /\ (l - b) + 1 \in 1..l
    BY <1>3, <1>8
  <2>3. a = (l - a) + 1
    BY <1>4, <1>7, <1>8, <2>1, <2>2
  <2>4. b = (l - b) + 1
    BY <1>4, <1>7, <1>8, <2>1, <2>2
  <2> QED
    BY <1>3, <1>8, <2>3, <2>4
<1>10. L # <<>>
  <2> SUFFICES ASSUME L = <<>> PROVE FALSE
    OBVIOUS
  <2>1. l = 0
    BY DEF l
  <2> QED
    BY <1>8, <2>1
<1> QED
  BY <1>9, <1>10 DEF L

\* A wrong answer is rejected.
LEMMA WrongRejected ==
    ASSUME ChoiceInv, stored \in Seq(Good), step \in 1..6, Here("query"), LogOk(stored, 15),
           step > 1 => user = Shown("user")
    PROVE  ~Accepts(Queries[step], Answer(Queries[step]))
<1>1. fault.in = "query"
  BY DEF Here
<1>2. Kept(15)
  BY <1>1 DEF Kept, Breaking
<1>3. \A q \in Installations : Confirmed(q)
  BY <1>2, AllConfirmed DEF LogOk
<1>4. Shown("user") # Reverse(Shown("user")) /\ Shown("user") # <<>>
  BY <1>1, <1>3, NotReversed DEF LogOk, Installations
<1>5. ASSUME NEW q \in Installations PROVE ~Sources(stored, q)
  <2>1. PICK p \in Installations : p # q
    BY DEF Installations
  <2>2. Len(Wanted(p)) = Due(p, 15)
    BY WantedShape
  <2>3. Reaches(stored, Wanted(p), Len(stored), Due(p, 15))
    BY <1>3, <2>2 DEF Confirmed
  <2>4. DOMAIN stored = 1..Len(stored) /\ Len(stored) \in Nat
    BY LenProperties
  <2> QED
    BY <2>1, <2>3, <2>4, ForeignRow
<1>6. step = 1 \/ step = 2 \/ step = 3 \/ step = 4 \/ step = 5 \/ step = 6
  OBVIOUS
<1>7. CASE step \in {1, 2, 3}
  <2>1. Queries[step] \in Installations /\ Queries[step] \in {"user", "system", "alt"}
    BY <1>7, QueriesAre DEF Installations
  <2>2. Answer(Queries[step]) = stored
    BY <2>1 DEF Answer
  <2>3. ~history_contract(stored, Queries[step], Required(Queries[step]))
    BY <1>5, <2>1 DEF history_contract
  <2> QED
    BY <2>1, <2>2, <2>3 DEF Accepts
<1>8. CASE step = 4
  <2>1. Queries[step] = "reverse" /\ user = Shown("user")
    BY <1>8, QueriesAre
  <2>2. Answer("reverse") = Shown("user")
    BY DEF Answer, Installations
  <2> QED
    BY <1>4, <2>1, <2>2 DEF Accepts
<1>9. CASE step \in {5, 6}
  <2>1. Queries[step] \in {"since", "until"}
    BY <1>9, QueriesAre
  <2>2. Answer(Queries[step]) = Shown("user")
    BY <2>1 DEF Answer, Installations
  <2> QED
    BY <1>4, <2>1, <2>2 DEF Accepts
<1> QED
  BY <1>6, <1>7, <1>8, <1>9

-----------------------------------------------------------------------------
\* The steps of the case.

LEMMA FaultSame ==
    ASSUME fault' = fault
    PROVE  /\ LogOk(stored' \o queue', step') => LogOk(stored \o queue, step)'
           /\ LogOk(stored', 15) => LogOk(stored, 15)'
           /\ Late(step') = Late(step)' /\ Kept(step') = Kept(step)' /\ Kept(15)' = Kept(15)
           /\ Breaking' = Breaking
<1>1. IsLate' = IsLate /\ Breaking' = Breaking /\ Lost' = Lost /\ Overtaken' = Overtaken
  BY DEF IsLate, Breaking, Lost, Overtaken, Disorder
<1>2. Late(step') = Late(step)' /\ Kept(step') = Kept(step)' /\ Kept(15)' = Kept(15) /\ Late(15)' = Late(15)
  BY <1>1 DEF Late, Kept
<1>3. ASSUME LogOk(stored' \o queue', step') PROVE LogOk(stored \o queue, step)'
  <2>1. InOrder(stored \o queue, step)'
    BY <1>2, <1>3 DEF LogOk, InOrder
  <2>2. Lacking(stored \o queue)'
    BY <1>1, <1>3 DEF LogOk, Lacking
  <2>3. Misordered(stored \o queue, step)'
    BY <1>1, <1>3 DEF LogOk, Misordered
  <2>4. Unborn(stored \o queue, step)'
    BY <1>1, <1>3 DEF LogOk, Unborn
  <2>5. Once(stored \o queue, step)'
    BY <1>3 DEF LogOk, Once
  <2> QED
    BY <2>1, <2>2, <2>3, <2>4, <2>5 DEF LogOk
<1>4. ASSUME LogOk(stored', 15) PROVE LogOk(stored, 15)'
  <2>1. InOrder(stored, 15)'
    BY <1>2, <1>4 DEF LogOk, InOrder
  <2>2. Lacking(stored)'
    BY <1>1, <1>4 DEF LogOk, Lacking
  <2>3. Misordered(stored, 15)'
    BY <1>1, <1>4 DEF LogOk, Misordered
  <2>4. Unborn(stored, 15)'
    BY <1>1, <1>4 DEF LogOk, Unborn
  <2>5. Once(stored, 15)'
    BY <1>4 DEF LogOk, Once
  <2> QED
    BY <2>1, <2>2, <2>3, <2>4, <2>5 DEF LogOk
<1> QED
  BY <1>1, <1>2, <1>3, <1>4

LEMMA FaultKept ==
    ASSUME [Next]_vars
    PROVE  fault' = fault
<1> USE DEF Journald
<1>1. CASE Bind \/ Store \/ Die \/ Hang
  BY <1>1 DEF Bind, Store, Die, Hang
<1>2. CASE Start \/ Poll \/ Call \/ Sync
  BY <1>2 DEF Start, Poll, Call, Sync
<1>3. CASE Query \/ TimesOut \/ Terminate \/ Wait
  BY <1>3 DEF Query, TimesOut, Terminate, Wait
<1>4. CASE UNCHANGED vars
  BY <1>4 DEF vars
<1> QED
  BY <1>1, <1>2, <1>3, <1>4 DEF Next, Script, Done

\* A command, whole: what it sends or how it leaves the script.
LEMMA CallIs ==
    ASSUME CaseInv, Call
    PROVE  /\ step \in 1..14 /\ held = Late(step) /\ verdict = "none" /\ (Fails \/ Sent \in Seq(Good))
           /\ fault' = fault /\ daemon' = daemon /\ stored' = stored /\ user' = user /\ hung' = hung
           /\ \/ /\ ~Fails /\ queue' = (IF daemon = "dead" THEN queue ELSE queue \o Sent)
                 /\ held' = Late(step + 1) /\ step' = step + 1 /\ pc' = "call" /\ verdict' = verdict
                 /\ breached' = (breached \/ (Breaking /\ fault.at = step))
              \/ /\ pc' = "finally" /\ queue' = queue /\ held' = held /\ step' = step
                 /\ \/ verdict' = "blocked" /\ breached' = breached
                    \/ verdict' = "failed" /\ Fails /\ breached' = TRUE
<1>1. pc = "call" /\ step \in 1..14
  BY CommandsShape DEF Call, CaseInv, HistoryInv, StepInv
<1>2. ChoiceInv /\ held = Late(step) /\ verdict = "none"
  BY <1>1 DEF CaseInv, HistoryInv, LogInv, BreachInv
<1>3. Sent \in Seq(Good) \/ Fails
  BY <1>1, <1>2, SentShape
<1>4. fault' = fault /\ daemon' = daemon /\ stored' = stored /\ user' = user /\ hung' = hung
  BY DEF Call
<1>5. Here("command") <=> fault.in = "command" /\ fault.at = step
  BY DEF Here
<1>6. IsLate => fault.at \in 1..14
  BY FaultIsChange, <1>2 DEF IsLate, LifecycleSteps
<1>7. (IF Here("command") /\ fault.how = "late" THEN <<Commands[step]>> ELSE <<>>) = Late(step + 1)
  <2>1. CASE IsLate /\ fault.at = step
    BY <1>5, <2>1 DEF Late, IsLate
  <2>2. CASE ~(IsLate /\ fault.at = step)
    <3>1. ~(IsLate /\ step + 1 = fault.at + 1)
      BY <1>1, <1>6, <2>2
    <3> QED
      BY <1>5, <2>2, <3>1 DEF Late, IsLate
  <2> QED
    BY <2>1, <2>2
<1>8. Breaches <=> Breaking /\ fault.at = step
  <2>1. Disorders <=> Disorder(step)
    BY CommandsShape DEF Disorders, Disorder
  <2> QED
    BY <1>5, <2>1 DEF Breaches, Breaking
<1>9. \/ /\ ~Fails /\ queue' = (IF daemon = "dead" THEN queue ELSE queue \o Sent)
         /\ held' = Late(step + 1) /\ step' = step + 1 /\ pc' = "call" /\ verdict' = verdict
         /\ breached' = (breached \/ Breaches)
      \/ /\ pc' = "finally" /\ queue' = queue /\ held' = held /\ step' = step
         /\ \/ verdict' = "blocked" /\ breached' = breached
            \/ verdict' = "failed" /\ Fails /\ breached' = TRUE
  BY <1>1, <1>7 DEF Call, Leave, Sent
<1> QED
  BY <1>1, <1>2, <1>3, <1>4, <1>8, <1>9

LEMMA GoodStep == CaseInv /\ [Next]_vars => GoodInv'
<1> SUFFICES ASSUME CaseInv, [Next]_vars PROVE GoodInv'
  OBVIOUS
<1>1. queue \in Seq(Good) /\ stored \in Seq(Good) /\ held \in Seq(Good)
  BY DEF CaseInv, GoodInv
<1>2. CASE UNCHANGED <<queue, stored, held>>
  BY <1>1, <1>2 DEF GoodInv
<1>3. CASE Store
  <2>1. queue # <<>> /\ stored' = Append(stored, Head(queue)) /\ queue' = Tail(queue) /\ held' = held
    BY <1>3 DEF Store, Journald
  <2>2. Head(queue) \in Good /\ Tail(queue) \in Seq(Good)
    BY <1>1, <2>1, HeadTailProperties
  <2>3. Append(stored, Head(queue)) \in Seq(Good)
    BY <1>1, <2>2, AppendProperties
  <2> QED
    BY <1>1, <2>1, <2>2, <2>3 DEF GoodInv
<1>4. CASE Die
  BY <1>1, <1>4, EmptySeq DEF Die, Journald, GoodInv
<1>5. CASE Call
  <2>1. stored' = stored /\ ChoiceInv /\ step + 1 \in 1..15
    BY <1>5, CallIs DEF CaseInv, HistoryInv
  <2>2. CASE ~Fails /\ queue' = (IF daemon = "dead" THEN queue ELSE queue \o Sent) /\ held' = Late(step + 1)
    <3>1. Sent \in Seq(Good)
      BY <1>5, <2>2, CallIs
    <3>2. queue \o Sent \in Seq(Good)
      BY <1>1, <3>1, JoinedAt
    <3>3. Late(step + 1) \in Seq(Good)
      BY <2>1, LateShape
    <3> QED
      BY <1>1, <2>1, <2>2, <3>2, <3>3 DEF GoodInv
  <2>3. CASE queue' = queue /\ held' = held
    BY <1>2, <2>1, <2>3
  <2> QED
    BY <1>5, <2>2, <2>3, CallIs
<1>6. CASE Bind \/ Hang \/ Start \/ Poll
  BY <1>2, <1>6 DEF Bind, Hang, Journald, Start, Poll
<1>7. CASE Sync \/ Query \/ TimesOut \/ Terminate \/ Wait
  BY <1>2, <1>7 DEF Sync, Query, TimesOut, Terminate, Wait
<1>8. CASE UNCHANGED vars
  BY <1>2, <1>8 DEF vars
<1> QED
  BY <1>3, <1>4, <1>5, <1>6, <1>7, <1>8 DEF Next, Script, Done

\* Moving a record from the queue to the journal changes nothing of the log.
LEMMA StoredLog ==
    ASSUME NEW a \in Seq(Good), NEW b \in Seq(Good), b # <<>>
    PROVE  Append(a, Head(b)) \o Tail(b) = a \o b
<1>1. Head(b) \in Good /\ Tail(b) \in Seq(Good)
  BY HeadTailProperties
<1>2. Append(a, Head(b)) = a \o <<Head(b)>>
  BY <1>1, AppendIsConcat
<1>3. <<Head(b)>> \in Seq(Good)
  BY <1>1
<1>4. (a \o <<Head(b)>>) \o Tail(b) = a \o (<<Head(b)>> \o Tail(b))
  BY <1>1, <1>3, ConcatAssociative
<1>5. <<Head(b)>> \o Tail(b) = b
  <2> DEFINE h == <<Head(b)>>
             t == Tail(b)
             c == h \o t
  <2>1. Len(h) = 1 /\ h[1] = b[1]
    OBVIOUS
  <2>2. Len(b) \in Nat /\ Len(t) = Len(b) - 1 /\ \A i \in 1..Len(t) : t[i] = b[i + 1]
    BY HeadTailProperties, LenProperties
  <2>3. c \in Seq(Good) /\ Len(c) = Len(h) + Len(t)
    BY <1>1, <1>3, JoinedAt
  <2>4. \A i \in 1..Len(h) : c[i] = h[i]
    BY <1>1, <1>3, JoinedAt
  <2>5. \A i \in 1..Len(t) : c[Len(h) + i] = t[i]
    BY <1>1, <1>3, JoinedAt
  <2> HIDE DEF c, t, h
  <2>6. ASSUME NEW i \in 1..Len(c) PROVE c[i] = b[i]
    <3>1. CASE i = 1
      BY <2>1, <2>4, <3>1
    <3>2. CASE i # 1
      <4>1. i - 1 \in 1..Len(t) /\ 1 + (i - 1) = i /\ (i - 1) + 1 = i
        BY <2>1, <2>2, <2>3, <3>2
      <4>2. c[1 + (i - 1)] = t[i - 1] /\ t[i - 1] = b[(i - 1) + 1]
        BY <2>1, <2>2, <2>5, <4>1
      <4> QED
        BY <4>1, <4>2
    <3> QED
      BY <3>1, <3>2
  <2>7. Len(c) = Len(b)
    BY <2>1, <2>2, <2>3
  <2>8. c = b
    BY <2>3, <2>6, <2>7, SeqEqual
  <2> QED
    BY <2>8 DEF c, t, h
<1> QED
  BY <1>2, <1>4, <1>5

LEMMA LogInvStep == CaseInv /\ [Next]_vars => LogInv'
<1> SUFFICES ASSUME CaseInv, [Next]_vars
             PROVE  /\ Live' => LogOk(stored' \o queue', step')
                    /\ pc' \in {"start", "poll", "call"} => held' = Late(step')
                    /\ pc' = "query" \/ verdict' = "passed" => queue' = <<>> /\ LogOk(stored', 15)
  BY FaultKept, FaultSame DEF LogInv
<1>1. queue \in Seq(Good) /\ stored \in Seq(Good)
  BY DEF CaseInv, GoodInv
<1>2. /\ Live => LogOk(stored \o queue, step)
      /\ pc \in {"start", "poll", "call"} => held = Late(step)
      /\ pc = "query" \/ verdict = "passed" => queue = <<>> /\ LogOk(stored, 15)
  BY DEF CaseInv, LogInv
<1>3. verdict # "none" => pc \in {"finally", "terminated", "killed", "end"}
  BY DEF CaseInv, BreachInv
\* Nothing is logged or taken.
<1>4. CASE /\ UNCHANGED <<stored, queue, held>>
           /\ pc' \in {"start", "poll", "call"} => pc \in {"start", "poll", "call"} /\ step' = step
           /\ daemon' = "dead" \/ daemon # "dead" \/ pc' \notin {"start", "poll", "call"}
           /\ pc' = "query" \/ verdict' = "passed" => pc = "query" \/ verdict = "passed"
  BY <1>2, <1>4 DEF Live
<1>5. CASE Store
  <2>1. /\ queue # <<>> /\ stored' = Append(stored, Head(queue)) /\ queue' = Tail(queue)
        /\ UNCHANGED <<held, pc, step, verdict, daemon>>
    BY <1>5 DEF Store, Journald
  <2>2. stored' \o queue' = stored \o queue
    BY <1>1, <2>1, StoredLog
  <2>3. Live' => Live
    BY <2>1 DEF Live
  <2> QED
    BY <1>2, <2>1, <2>2, <2>3
<1>6. CASE Die
  <2>1. daemon' = "dead" /\ queue' = <<>> /\ UNCHANGED <<stored, held, pc, step, verdict>>
    BY <1>6 DEF Die, Journald
  <2>2. ~Live'
    BY <2>1 DEF Live
  <2> QED
    BY <1>2, <2>1, <2>2
<1>7. CASE Call
  <2>1. /\ step \in 1..14 /\ held = Late(step) /\ verdict = "none" /\ (Fails \/ Sent \in Seq(Good))
        /\ daemon' = daemon /\ stored' = stored /\ ChoiceInv /\ pc = "call"
    BY <1>7, CallIs DEF CaseInv, HistoryInv, Call
  <2>2. CASE /\ ~Fails /\ queue' = (IF daemon = "dead" THEN queue ELSE queue \o Sent)
             /\ held' = Late(step + 1) /\ step' = step + 1 /\ pc' = "call" /\ verdict' = verdict
    <3>1. ASSUME Live' PROVE LogOk(stored' \o queue', step')
      <4>1. daemon # "dead" /\ Live
        BY <2>1, <3>1 DEF Live
      <4>2. queue' = queue \o Sent /\ Sent \in Seq(Good)
        BY <2>1, <2>2, <4>1
      <4>3. stored \o queue \in Seq(Good)
        BY <1>1, JoinedAt
      <4>4. LogOk(stored \o queue, step)
        BY <1>2, <4>1
      <4>5. LogOk((stored \o queue) \o Sent, step + 1)
        BY <2>1, <2>2, <4>3, <4>4, LogStep
      <4>6. (stored \o queue) \o Sent = stored \o (queue \o Sent)
        BY <1>1, <4>2, ConcatAssociative
      <4>7. stored' \o queue' = (stored \o queue) \o Sent /\ step' = step + 1
        BY <2>1, <2>2, <4>2, <4>6
      <4> QED
        BY <4>5, <4>7
    <3>2. held' = Late(step') /\ pc' # "query" /\ verdict' # "passed"
      BY <2>1, <2>2
    <3> QED
      BY <3>1, <3>2
  <2>3. CASE pc' = "finally" /\ verdict' \in {"blocked", "failed"}
    BY <2>3 DEF Live
  <2> QED
    BY <1>7, <2>2, <2>3, CallIs
<1>8. CASE Sync
  <2>1. pc = "call" /\ step = 15 /\ UNCHANGED <<stored, queue, held>>
    BY <1>8, CommandsShape DEF Sync, CaseInv, HistoryInv, StepInv
  <2>2. CASE daemon = "ready"
    <3>1. queue = <<>> /\ pc' = "query" /\ verdict' = verdict
      BY <1>8, <2>2 DEF Sync
    <3>2. Live
      BY <2>1, <2>2 DEF Live
    <3>3. LogOk(stored \o <<>>, 15)
      BY <1>2, <2>1, <3>1, <3>2
    <3>4. stored \o <<>> = stored
      BY <1>1, ConcatEmptySeq
    <3>5. ~Live' /\ pc' \notin {"start", "poll", "call"}
      BY <3>1 DEF Live
    <3> QED
      BY <2>1, <3>1, <3>3, <3>4, <3>5
  <2>3. CASE daemon # "ready"
    <3>1. pc' = "finally" /\ verdict' \in {"failed", "blocked"}
      BY <1>8, <2>3 DEF Sync, Leave
    <3> QED
      BY <3>1 DEF Live
  <2> QED
    BY <2>2, <2>3
<1>9. CASE Bind \/ Hang
  <2>1. UNCHANGED <<stored, queue, held, pc, step, verdict>> /\ daemon # "dead"
    BY <1>9 DEF Bind, Hang, Journald
  <2> QED
    BY <1>4, <2>1
<1>10. CASE Start
  <2>1. /\ UNCHANGED <<stored, queue, held, step>> /\ daemon # "dead" /\ pc = "start" /\ pc' # "query"
        /\ verdict' \in {"blocked", verdict}
    BY <1>10 DEF Start, CaseInv, HistoryInv, DaemonInv
  <2> QED
    BY <1>4, <2>1
<1>11. CASE Poll
  <2>1. /\ UNCHANGED <<stored, queue, held, step, daemon>> /\ pc = "poll" /\ pc' # "query"
        /\ verdict' \in {"blocked", verdict}
    BY <1>11 DEF Poll, Leave
  <2> QED
    BY <1>4, <2>1
<1>12. CASE Query
  <2>1. /\ UNCHANGED <<stored, queue, held>> /\ pc = "query" /\ pc' \in {"query", "finally"}
    BY <1>12 DEF Query, Leave
  <2> QED
    BY <1>4, <2>1
<1>13. CASE Terminate \/ Wait
  <2>1. /\ UNCHANGED <<stored, queue, held, verdict>> /\ pc' \in {"terminated", "killed", "end"}
    BY <1>13 DEF Terminate, Wait
  <2> QED
    BY <1>4, <2>1
<1>14. CASE TimesOut
  <2>1. pc' = "finally" /\ verdict' = "failed" /\ UNCHANGED <<stored, queue, held, step, daemon>>
    BY <1>14 DEF TimesOut, Leave
  <2> QED
    BY <2>1 DEF Live
<1>15. CASE UNCHANGED vars
  <2>1. UNCHANGED <<stored, queue, held, verdict, pc, daemon, step>>
    BY <1>15 DEF vars
  <2> QED
    BY <1>4, <2>1
<1> QED
  BY <1>5, <1>6, <1>7, <1>8, <1>9, <1>10, <1>11, <1>12, <1>13, <1>14, <1>15 DEF Next, Script, Done

\* A query, whole.
LEMMA QueryIs ==
    ASSUME CaseInv, Query
    PROVE  /\ pc = "query" /\ step \in 1..6 /\ verdict = "none" /\ hung' = hung /\ stored' = stored /\ fault' = fault
           /\ \/ pc' = "finally" /\ verdict' = "blocked" /\ user' = user /\ breached' = breached
              \/ /\ user' = (IF Queries[step] = "user" THEN Answer(Queries[step]) ELSE user)
                 /\ breached' = (breached \/ Here("query"))
                 /\ \/ ~Accepts(Queries[step], Answer(Queries[step])) /\ pc' = "finally" /\ verdict' = "failed"
                    \/ /\ Accepts(Queries[step], Answer(Queries[step])) /\ step = 6
                       /\ pc' = "finally" /\ verdict' = "passed"
                    \/ /\ Accepts(Queries[step], Answer(Queries[step])) /\ step # 6
                       /\ pc' = "query" /\ step' = step + 1 /\ verdict' = verdict
<1>1. pc = "query" /\ step \in 1..6 /\ verdict = "none"
  BY QueriesShape, CommandsShape DEF Query, CaseInv, HistoryInv, StepInv, BreachInv
<1>2. hung' = hung /\ stored' = stored /\ fault' = fault
  BY DEF Query
<1>3. CASE Leave("blocked") /\ UNCHANGED <<step, user, breached>>
  BY <1>1, <1>2, <1>3 DEF Leave
<1>4. CASE LET q == Queries[step]
               rows == Answer(q)
           IN
           /\ user' = IF q = "user" THEN rows ELSE user
           /\ breached' = (breached \/ Here("query"))
           /\ IF ~Accepts(q, rows) THEN Leave("failed") /\ UNCHANGED step
              ELSE IF step = Len(Queries) THEN Leave("passed") /\ UNCHANGED step
              ELSE step' = step + 1 /\ UNCHANGED <<pc, verdict>>
  BY <1>1, <1>2, <1>4, QueriesShape DEF Leave
<1> QED
  BY <1>3, <1>4 DEF Query

LEMMA QueryInvStep == CaseInv /\ [Next]_vars => QueryInv'
<1> SUFFICES ASSUME CaseInv, [Next]_vars PROVE QueryInv'
  OBVIOUS
<1>1. fault' = fault
  BY FaultKept
<1>2. /\ fault.in = "command" =>
          /\ pc = "query" => \A k \in 1..3 : k < step => Confirmed(Queries[k])
          /\ verdict = "passed" => \A k \in 1..3 : Confirmed(Queries[k])
      /\ pc = "query" /\ step > 1 /\ ~breached => user = Shown("user")
  BY DEF CaseInv, QueryInv
<1>3. stored' = stored => Shown("user")' = Shown("user") /\ \A k \in 1..3 : Confirmed(Queries[k])' <=> Confirmed(Queries[k])
  BY DEF Shown, Confirmed
<1>4. CASE /\ stored' = stored /\ pc' # "query"
           /\ verdict' = "passed" => verdict = "passed"
  BY <1>1, <1>2, <1>3, <1>4 DEF QueryInv
<1>5. CASE UNCHANGED <<stored, pc, step, verdict, breached, user>>
  BY <1>1, <1>2, <1>3, <1>5 DEF QueryInv
<1>6. CASE Store
  <2>1. queue # <<>> /\ pc' = pc /\ verdict' = verdict
    BY <1>6 DEF Store, Journald
  <2>2. pc # "query" /\ verdict # "passed"
    BY <2>1 DEF CaseInv, LogInv
  <2> QED
    BY <2>1, <2>2 DEF QueryInv
<1>7. CASE Call
  <2>1. pc' \in {"call", "finally"} /\ verdict' \in {"none", "blocked", "failed"} /\ stored' = stored
    BY <1>7, CallIs
  <2> QED
    BY <1>4, <2>1
<1>8. CASE Sync
  <2>1. pc = "call" /\ verdict = "none" /\ stored' = stored
    BY <1>8 DEF Sync, CaseInv, BreachInv
  <2>2. (pc' = "query" /\ step' = 1 /\ verdict' = verdict) \/ (pc' = "finally" /\ verdict' \in {"failed", "blocked"})
    BY <1>8 DEF Sync, Leave
  <2>3. CASE pc' = "query" /\ step' = 1 /\ verdict' = verdict
    <3>1. \A k \in 1..3 : ~(k < 1)
      OBVIOUS
    <3> QED
      BY <2>1, <2>3, <3>1 DEF QueryInv
  <2>4. CASE pc' = "finally" /\ verdict' \in {"failed", "blocked"}
    BY <2>4 DEF QueryInv
  <2> QED
    BY <2>2, <2>3, <2>4
<1>9. CASE Query
  <2>1. /\ pc = "query" /\ step \in 1..6 /\ verdict = "none" /\ stored' = stored /\ stored \in Seq(Good)
    BY <1>9, QueryIs DEF CaseInv, GoodInv
  <2>2. CASE pc' = "finally" /\ verdict' \in {"blocked", "failed"}
    BY <1>4, <2>1, <2>2
  <2>3. CASE /\ user' = (IF Queries[step] = "user" THEN Answer(Queries[step]) ELSE user)
             /\ breached' = (breached \/ Here("query"))
             /\ Accepts(Queries[step], Answer(Queries[step]))
             /\ \/ step = 6 /\ pc' = "finally" /\ verdict' = "passed"
                \/ step # 6 /\ pc' = "query" /\ step' = step + 1 /\ verdict' = verdict
    <3>1. ASSUME fault.in = "command", NEW k \in 1..3, k <= step PROVE Confirmed(Queries[k])
      <4>1. CASE k < step
        BY <1>2, <2>1, <3>1, <4>1
      <4>2. CASE k = step
        <5>1. Queries[k] \in Installations /\ Queries[k] \in {"user", "system", "alt"}
          BY QueriesAre DEF Installations
        <5>2. Answer(Queries[k]) = Shown(Queries[k])
          BY <3>1, <5>1 DEF Answer, Here
        <5>3. history_contract(Shown(Queries[k]), Queries[k], Required(Queries[k]))
          BY <2>3, <4>2, <5>1, <5>2 DEF Accepts
        <5> QED
          BY <2>1, <5>1, <5>3, PassesConfirmed DEF history_contract
      <4> QED
        BY <2>1, <3>1, <4>1, <4>2
    <3>2. ASSUME fault.in = "command", pc' = "query", NEW k \in 1..3, k < step' PROVE Confirmed(Queries[k])'
      <4>1. k <= step
        BY <2>1, <2>3, <3>2
      <4> QED
        BY <1>3, <2>1, <3>1, <3>2, <4>1
    <3>3. ASSUME fault.in = "command", verdict' = "passed", NEW k \in 1..3 PROVE Confirmed(Queries[k])'
      <4>1. k <= step
        BY <2>1, <2>3, <3>3
      <4> QED
        BY <1>3, <2>1, <3>1, <3>3, <4>1
    <3>4. ASSUME pc' = "query", ~breached' PROVE user' = Shown("user")
      <4>1. ~breached /\ ~Here("query")
        BY <2>3, <3>4
      <4>2. CASE step = 1
        <5>1. Queries[step] = "user"
          BY <4>2, QueriesAre
        <5>2. Answer("user") = Shown("user")
          BY <4>1 DEF Answer, Installations
        <5> QED
          BY <2>3, <5>1, <5>2
      <4>3. CASE step # 1
        <5>1. Queries[step] # "user"
          <6>1. step \in {2, 3, 4, 5, 6}
            BY <2>1, <4>3
          <6> QED
            BY <6>1, QueriesAre
        <5>2. user = Shown("user")
          BY <1>2, <2>1, <4>1, <4>3
        <5> QED
          BY <2>3, <5>1, <5>2
      <4> QED
        BY <4>2, <4>3
    <3> QED
      BY <1>1, <1>3, <2>1, <3>2, <3>3, <3>4 DEF QueryInv
  <2> QED
    BY <1>9, <2>1, <2>2, <2>3, QueryIs
<1>10. CASE Bind \/ Die \/ Hang
  BY <1>5, <1>10 DEF Bind, Die, Hang, Journald
<1>11. CASE Start \/ Poll
  <2>1. stored' = stored /\ pc' # "query" /\ verdict' \in {verdict, "blocked"}
    BY <1>11 DEF Start, Poll, Leave
  <2> QED
    BY <1>4, <2>1
<1>12. CASE TimesOut \/ Terminate \/ Wait
  <2>1. stored' = stored /\ pc' # "query" /\ verdict' \in {verdict, "failed"}
    BY <1>12 DEF TimesOut, Leave, Terminate, Wait
  <2> QED
    BY <1>4, <2>1
<1>13. CASE UNCHANGED vars
  BY <1>5, <1>13 DEF vars
<1> QED
  BY <1>6, <1>7, <1>8, <1>9, <1>10, <1>11, <1>12, <1>13 DEF Next, Script, Done

LEMMA BreachStep == CaseInv /\ [Next]_vars => BreachInv' /\ FailSound'
<1> SUFFICES ASSUME CaseInv, [Next]_vars PROVE BreachInv' /\ FailSound'
  OBVIOUS
<1>1. fault' = fault /\ Breaking' = Breaking /\ Kept(step') = Kept(step)' /\ Kept(15)' = Kept(15)
  BY FaultKept, FaultSame
<1>2. /\ breached => Breaking \/ (fault.in = "query" /\ verdict = "failed")
      /\ pc \in {"start", "poll", "call"} /\ ~breached => Kept(step)
      /\ pc = "query" /\ ~breached => Kept(15)
      /\ verdict # "none" => pc \in {"finally", "terminated", "killed", "end"}
      /\ verdict = "failed" => breached \/ hung
  BY DEF CaseInv, BreachInv, FailSound
\* The contract, the verdict and the count of commands stay.
<1>3. CASE /\ breached' = breached /\ hung' = hung
           /\ pc' \in {"start", "poll", "call"} => pc \in {"start", "poll", "call"} /\ step' = step
           /\ pc' = "query" => pc = "query"
           /\ \/ verdict' = verdict
                 /\ (verdict # "none" => pc' \in {"finally", "terminated", "killed", "end"})
              \/ verdict = "none" /\ verdict' = "blocked" /\ pc' \in {"finally", "end"}
  <2>1. Kept(step') = Kept(step) \/ pc' \notin {"start", "poll", "call"}
    BY <1>3
  <2>2. BreachInv'
    BY <1>1, <1>2, <1>3, <2>1 DEF BreachInv
  <2>3. FailSound'
    BY <1>2, <1>3 DEF FailSound
  <2> QED
    BY <2>2, <2>3
<1>4. CASE Call
  <2>1. step \in 1..14 /\ verdict = "none" /\ hung' = hung /\ pc = "call"
    BY <1>4, CallIs DEF Call
  <2>2. CASE /\ step' = step + 1 /\ pc' = "call" /\ verdict' = verdict
             /\ breached' = (breached \/ (Breaking /\ fault.at = step))
    <3>1. ASSUME ~breached' PROVE Kept(step + 1)
      <4>1. Kept(step) /\ ~(Breaking /\ fault.at = step)
        BY <1>2, <2>1, <2>2, <3>1
      <4>2. Breaking => fault.at \in Nat
        BY FaultIsChange DEF Breaking, LifecycleSteps, CaseInv, HistoryInv
      <4> QED
        BY <2>1, <4>1, <4>2 DEF Kept
    <3>2. breached' => Breaking
      BY <1>2, <2>1, <2>2
    <3>3. BreachInv'
      BY <1>1, <2>1, <2>2, <3>1, <3>2 DEF BreachInv
    <3>4. FailSound'
      BY <2>1, <2>2 DEF FailSound
    <3> QED
      BY <3>3, <3>4
  <2>3. CASE pc' = "finally" /\ verdict' = "blocked" /\ breached' = breached
    BY <1>3, <2>1, <2>3
  <2>4. CASE pc' = "finally" /\ verdict' = "failed" /\ Fails /\ breached' = TRUE
    <3>1. Breaking
      BY <2>4 DEF Fails, Here, Breaking
    <3> QED
      BY <1>1, <2>4, <3>1 DEF BreachInv, FailSound
  <2> QED
    BY <1>4, <2>2, <2>3, <2>4, CallIs
<1>5. CASE Sync
  <2>1. pc = "call" /\ step = 15 /\ verdict = "none" /\ breached' = breached
    BY <1>2, <1>5, CommandsShape DEF Sync, CaseInv, HistoryInv, StepInv
  <2>2. CASE pc' = "query" /\ verdict' = verdict /\ hung' = hung
    <3>1. ~breached => Kept(15)
      BY <1>2, <2>1
    <3> QED
      BY <1>1, <1>2, <2>1, <2>2, <3>1 DEF BreachInv, FailSound
  <2>3. CASE pc' = "finally" /\ verdict' = "failed" /\ hung' = TRUE
    BY <1>1, <1>2, <2>1, <2>3 DEF BreachInv, FailSound
  <2>4. CASE pc' = "finally" /\ verdict' = "blocked" /\ hung' = hung
    BY <1>3, <2>1, <2>4
  <2> QED
    BY <1>5, <2>2, <2>3, <2>4 DEF Sync, Leave
<1>6. CASE Query
  <2>1. /\ pc = "query" /\ step \in 1..6 /\ verdict = "none" /\ hung' = hung /\ ChoiceInv
        /\ stored \in Seq(Good) /\ LogOk(stored, 15)
    BY <1>6, QueryIs DEF CaseInv, HistoryInv, GoodInv, LogInv
  <2>2. ~breached /\ step > 1 => user = Shown("user")
    BY <2>1 DEF CaseInv, QueryInv
  <2>3. CASE pc' = "finally" /\ verdict' = "blocked" /\ breached' = breached
    BY <1>3, <2>1, <2>3
  <2>4. Here("query") => fault.in = "query" /\ ~Breaking /\ ~breached
    BY <1>2, <2>1 DEF Here, Breaking
  <2>5. CASE ~Accepts(Queries[step], Answer(Queries[step])) /\ pc' = "finally" /\ verdict' = "failed"
             /\ breached' = (breached \/ Here("query"))
    <3>1. breached \/ Here("query")
      <4> SUFFICES ASSUME ~breached, ~Here("query") PROVE FALSE
        OBVIOUS
      <4>1. Kept(15)
        BY <1>2, <2>1
      <4> QED
        BY <2>1, <2>2, <2>5, <4>1, RightAccepted
    <3> QED
      BY <1>1, <1>2, <2>1, <2>4, <2>5, <3>1 DEF BreachInv, FailSound
  <2>6. CASE /\ Accepts(Queries[step], Answer(Queries[step])) /\ breached' = (breached \/ Here("query"))
             /\ \/ pc' = "finally" /\ verdict' = "passed"
                \/ pc' = "query" /\ verdict' = verdict
    <3>1. ~Here("query")
      BY <2>1, <2>2, <2>4, <2>6, WrongRejected
    <3>2. breached' = breached
      BY <2>6, <3>1 DEF CaseInv, HistoryInv, PlaceInv
    <3> QED
      BY <1>1, <1>2, <2>1, <2>6, <3>2 DEF BreachInv, FailSound
  <2> QED
    BY <1>6, <2>3, <2>5, <2>6, QueryIs
<1>7. CASE Bind \/ Store \/ Die \/ Hang
  BY <1>2, <1>3, <1>7 DEF Bind, Store, Die, Hang, Journald
<1>8. CASE Start \/ Poll
  <2>1. verdict = "none" /\ breached' = breached /\ hung' = hung /\ step' = step
    BY <1>2, <1>8 DEF Start, Poll
  <2>2. /\ pc \in {"start", "poll", "call"} /\ pc' # "query"
        /\ verdict' = verdict \/ (verdict' = "blocked" /\ pc' \in {"finally", "end"})
    BY <1>8 DEF Start, Poll, Leave
  <2> QED
    BY <1>3, <2>1, <2>2
<1>9. CASE Terminate \/ Wait
  BY <1>3, <1>9 DEF Terminate, Wait
<1>10. CASE TimesOut
  <2>1. /\ pc' = "finally" /\ verdict' = "failed" /\ hung' = TRUE /\ breached' = breached
        /\ verdict = "none"
    BY <1>2, <1>10 DEF TimesOut, Leave
  <2> QED
    BY <1>1, <1>2, <2>1 DEF BreachInv, FailSound
<1>11. CASE UNCHANGED vars
  BY <1>2, <1>3, <1>11 DEF vars
<1> QED
  BY <1>4, <1>5, <1>6, <1>7, <1>8, <1>9, <1>10, <1>11 DEF Next, Script, Done

LEMMA CaseInit == Init => CaseInv
<1> SUFFICES ASSUME Init PROVE CaseInv
  OBVIOUS
<1> USE DEF Init
<1>1. HistoryInv
  BY InitHolds
<1>2. GoodInv
  BY EmptySeq DEF GoodInv
<1>3. ChoiceInv /\ step = 1
  BY <1>1 DEF HistoryInv
<1>4. fault.in = "command" => fault.at \in LifecycleSteps /\ fault.at > 1
  BY <1>3, FaultIsChange DEF LifecycleSteps
<1>5. Late(1) = <<>>
  BY <1>4 DEF Late, IsLate, LifecycleSteps
<1>6. Kept(1)
  <2> SUFFICES ASSUME fault.in = "command", fault.at < 1 PROVE FALSE
    BY DEF Kept, Breaking
  <2>1. fault.at \in {2, 3, 5, 6, 8, 9, 11, 13, 14}
    BY <1>4 DEF LifecycleSteps
  <2>2. \A n \in {2, 3, 5, 6, 8, 9, 11, 13, 14} : ~(n < 1)
    OBVIOUS
  <2> QED
    BY <2>1, <2>2
<1>7. LogOk(<<>>, 1)
  <2>1. \A i \in 1..0 : FALSE
    OBVIOUS
  <2>2. Len(<<>>) = 0
    OBVIOUS
  <2>3. InOrder(<<>>, 1)
    <3>1. \A q \in Installations : Due(q, 1) = 0
      BY DueShape
    <3>2. \A q \in Installations : Reaches(<<>>, Wanted(q), 0, 0)
      BY ReachesNone
    <3> QED
      BY <1>5, <2>2, <3>1, <3>2 DEF InOrder
  <2>4. Lacking(<<>>) /\ Misordered(<<>>, 1) /\ Unborn(<<>>, 1) /\ Once(<<>>, 1)
    BY <2>1, <2>2 DEF Lacking, Misordered, Unborn, Once
  <2> QED
    BY <2>3, <2>4 DEF LogOk
<1>8. LogInv
  <2>1. stored \o queue = <<>>
    BY ConcatEmptySeq, EmptySeq
  <2> QED
    BY <1>3, <1>5, <1>7, <2>1 DEF LogInv
<1>9. QueryInv /\ FailSound
  BY DEF QueryInv, FailSound
<1>10. BreachInv
  BY <1>3, <1>6 DEF BreachInv
<1> QED
  BY <1>1, <1>2, <1>8, <1>9, <1>10 DEF CaseInv

LEMMA CaseStep == CaseInv /\ [Next]_vars => CaseInv'
<1>1. HistoryInv /\ [Next]_vars => HistoryInv'
  BY PlaceStep, DaemonStep, StepStep, RecordStep, CountStep DEF HistoryInv
<1> QED
  BY <1>1, GoodStep, LogInvStep, QueryInvStep, BreachStep DEF CaseInv

\* A case that passes has seen every step of every installation in its order, so that no
\* command lost its record or logged it too late.
LEMMA NothingMissed ==
    ASSUME CaseInv, verdict = "passed", fault.in = "command"
    PROVE  ~Lost /\ ~Overtaken
<1>1. ChoiceInv /\ stored \in Seq(Good) /\ Lacking(stored) /\ Misordered(stored, 15)
  BY DEF CaseInv, HistoryInv, GoodInv, LogInv, LogOk
<1>2. \A q \in Installations : Confirmed(q)
  <2>1. Confirmed(Queries[1]) /\ Confirmed(Queries[2]) /\ Confirmed(Queries[3])
    BY DEF CaseInv, QueryInv
  <2> QED
    BY <2>1, QueriesAre DEF Installations
<1> DEFINE a == fault.at
           q == StepOf(a)
           n == Due(q, a) + 1
<1>3. a \in LifecycleSteps /\ q \in Installations
  BY <1>1, FaultIsChange DEF StepOf, Installations
<1>4. n \in 1..Due(q, 15) /\ Wanted(q)[n] = Commands[a]
  BY <1>3, DueIsNext
<1>5. PICK g \in [1..Due(q, 15) -> 1..Len(stored)] :
         /\ \A k \in 1..Due(q, 15) : stored[g[k]] = Wanted(q)[k]
         /\ \A j, k \in 1..Due(q, 15) : j < k => g[j] < g[k]
  <2>1. Len(Wanted(q)) = Due(q, 15)
    BY <1>3, WantedShape
  <2> QED
    BY <1>2, <1>3, <2>1 DEF Confirmed, Reaches
<1>6. g[n] \in 1..Len(stored) /\ stored[g[n]] = Commands[a]
  BY <1>4, <1>5
<1>7. ~Lost
  BY <1>1, <1>6 DEF Lacking
<1>8. ~Overtaken
  <2> SUFFICES ASSUME Overtaken PROVE FALSE
    OBVIOUS
  <2>1. a + 1 \in LifecycleSteps /\ StepOf(a + 1) = q /\ a \in {2, 5, 8}
    BY <1>1, OvertakenShape
  <2>2. Due(q, a + 1) = n
    BY <1>3, DueShape
  <2>3. n + 1 \in 1..Due(q, 15) /\ Wanted(q)[n + 1] = Commands[a + 1]
    BY <2>1, <2>2, DueIsNext
  <2>4. g[n + 1] \in 1..Len(stored) /\ stored[g[n + 1]] = Commands[a + 1]
    BY <1>5, <2>3
  <2>5. g[n] < g[n + 1]
    <3>1. n \in Nat /\ n < n + 1
      <4>1. Due(q, a) \in Nat
        BY DEF Due
      <4> QED
        BY <4>1
    <3> QED
      BY <1>4, <1>5, <2>3, <3>1
  <2>6. g[n + 1] < g[n]
    BY <1>1, <1>6, <2>4 DEF Misordered
  <2>7. Len(stored) \in Nat
    BY <1>1, LenProperties
  <2> HIDE DEF n, q
  <2> QED
    BY <1>6, <2>4, <2>5, <2>6, <2>7
<1> QED
  BY <1>7, <1>8

LEMMA CaseAlways == Spec => []CaseInv
BY CaseInit, CaseStep, PTL DEF Spec

-----------------------------------------------------------------------------
\* The verdict.

\* A case that passes saw every command's record where it had to be and every query's answer
\* right: a target that omits a record, sends it for another installation, as an auxiliary
\* event or after its successor, or answers a query wrongly, fails the case, whatever journald
\* does (maintenance_scenarios.py:350-354, 462-478).
THEOREM PassIsSound == Spec => []PassSound
<1>1. CaseInv => PassSound
  <2> SUFFICES ASSUME CaseInv, verdict = "passed", breached, fault.how # "extra" PROVE FALSE
    BY DEF PassSound
  <2>1. Breaking
    BY DEF CaseInv, BreachInv
  <2>2. fault.in = "command" /\ (fault.how = "late" => Disorder(fault.at))
    BY <2>1 DEF Breaking
  <2>3. ~Lost /\ ~Overtaken
    BY <2>2, NothingMissed
  <2>4. fault.how \in CommandFaults
    BY <2>2, FaultIsChange DEF CaseInv, HistoryInv
  <2>5. fault.how = "late"
    BY <2>2, <2>3, <2>4 DEF CommandFaults, Lost
  <2> QED
    BY <2>2, <2>3, <2>5 DEF Lost, Overtaken, IsLate
<1> QED
  BY CaseAlways, <1>1, PTL

\* The target is blamed only for what it did: while it keeps its contract the required steps
\* reach the journal in their order, the sync waits for them, and every query is answered and
\* accepted; only a journald that hangs fails the case too (maintenance_scenarios.py:449-478).
THEOREM FailIsSound == Spec => []FailSound
<1>1. CaseInv => FailSound
  BY DEF CaseInv
<1> QED
  BY CaseAlways, <1>1, PTL

\* In every state, whatever was stored, the one-pass comparison of the shown rows with the
\* required steps accepts exactly when the steps occur in their order
\* (maintenance_scenarios.py:351-354).
THEOREM ContractIsExact == Spec => []ContractExact
BY HistoryAlways, ExactInvariant, PTL

=============================================================================
