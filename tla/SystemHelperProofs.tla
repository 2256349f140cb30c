------------------------- MODULE SystemHelperProofs -------------------------
(***************************************************************************)
(* SystemHelper.tla: the polkit policy of the machine is lost only where a *)
(* copy or the removal of the copy is cut short, cases do not meet each    *)
(* other, and a cleanup that succeeds restores the machine unless an       *)
(* exposed operation was cut short, for any number of cases and of         *)
(* provisioning rounds.                                                    *)
(***************************************************************************)
EXTENDS SystemHelper, TLAPS

Places == {"idle", "lock", "reset", "mkdir", "scenario", "restore", "mkdir again", "ended"}

\* A machine before provisioning.
Untouched(h) == h \in {Pristine(policy, account) :
                          policy \in {"none", "original"}, account \in {"none", "present"}}

\* A program counts its own operations.
StepInv ==
    /\ phase = "start" => step \in 1..23 /\ (step > 1 => m.state)
    /\ phase = "stop" => step \in 1..8 /\ m.state
    /\ phase \in {"start", "probe", "run"} => starts # 0
    /\ starts = 0 => phase = "fresh"
    /\ Untouched(before)

\* Without a state directory nothing is on record.
StateInv ==
    ~ m.state => /\ m.lists = {} /\ m.createdFiles = {} /\ m.createdUsers = {} /\ m.marks = {}
                 /\ m.saved = "none" /\ m.pid = "none"

\* Where the original policy is at each operation: in place until it is saved, saved
\* until the cleanup has put it back.
CopyWhole == cut \intersect {"save policy", "rmtree state"} = {}
PolicyInv ==
    before.policy = "original" /\ CopyWhole =>
        /\ m.policy = "original" \/ m.saved = "original"
        /\ m.saved \in {"none", "original"}
        /\ phase = "start" => IF step <= 14 THEN m.policy = "original" ELSE m.saved = "original"
        /\ POLKIT_POLICY \in m.createdFiles => m.saved = "original"
        /\ phase = "stop" /\ step > 3 => m.policy = "original"

\* Where a case holds the lock of its round, and which rounds there are.
InLock == {"reset", "mkdir", "scenario", "restore", "mkdir again"}
LockInv ==
    \A p \in Procs :
        /\ pc[p] # "idle" => round[p] \in 1..starts
        /\ pc[p] \in InLock => lock[round[p]] = p
        /\ starts <= 1 /\ phase \in {"fresh", "start", "probe"} => pc[p] = "idle"

\* run.py knows of every case, unless it may abandon one.
QuietInv ==
    "orphan" \notin faults =>
        /\ orphan = {}
        /\ phase # "run" => \A p \in Procs : ~ Active(p)
        /\ \A p, q \in Procs : Active(p) /\ Active(q) => p = q

\* What a case finds.
CaseInv ==
    "orphan" \notin faults \/ starts = 1 => \A p \in Procs :
        pc[p] = "scenario" => m.installation \in {"clean", "absent", p}

\* The machine is as it was before provisioning, its service account aside.
Undone ==
    /\ m.files = {} /\ m.users = {} /\ m.installation = "absent" /\ ~ m.helper
    /\ m.policy = before.policy /\ ~ m.state

\* What start() has created and is about to record.
BeingRecorded ==
    IF phase # "start" THEN {}
    ELSE IF step = 11 THEN {CONFIG}
    ELSE IF step = 13 THEN {BUS_POLICY}
    ELSE IF step = 19 THEN {RULES} ELSE {}

\* Whatever start() did is on record, except for the operation it is at, and what stop()
\* has passed is undone.
Sheltered == "orphan" \notin faults /\ cut = {}
RestoreInv ==
    Sheltered =>
        /\ m.users \subseteq m.createdUsers
        /\ phase = "start" /\ step = 3 => WRITER \in m.createdUsers
        /\ phase = "start" /\ step = 5 => READER \in m.createdUsers
        /\ m.files \subseteq m.createdFiles \union BeingRecorded
        /\ m.installation # "absent" =>
              "installation-created" \in m.marks \/ (phase = "start" /\ step = 9)
        /\ (phase = "start" /\ step > 9) \/ phase \in {"probe", "run"} =>
              "installation-created" \in m.marks
        /\ m.helper => m.pid = "written" \/ (phase = "start" /\ step = 22)
        /\ before.policy = "none" =>
              /\ m.saved = "none"
              /\ m.policy # "none" =>
                    m.policy = "test" /\ (POLKIT_POLICY \in m.createdFiles
                                            \/ (phase = "start" /\ step = 17))
              /\ phase = "start" /\ step <= 16 => m.policy = "none"
        /\ phase = "stop" =>
              /\ step > 1 => ~ m.helper
              /\ step > 2 => m.files = {} /\ (before.policy = "none" => m.policy = "none")
              /\ step > 5 => m.installation = "absent"
              /\ step > 6 => m.users = {}
        /\ phase \in {"fresh", "stopped"} \/ (phase = "start" /\ step = 1) => Undone

HelperInv == TypeOK /\ StepInv /\ StateInv /\ PolicyInv /\ LockInv /\ QuietInv /\ CaseInv
             /\ RestoreInv

-----------------------------------------------------------------------------
\* The two programs, operation by operation.

\* start() is twenty-three operations.
LEMMA StartProgramIs ==
    /\ Len(StartProgram) = 23
    /\ StartProgram[1] = Op("mkdir state", "")
    /\ StartProgram[2] = Op("record user", WRITER) /\ StartProgram[3] = Op("useradd", WRITER)
    /\ StartProgram[4] = Op("record user", READER) /\ StartProgram[5] = Op("useradd", READER)
    /\ StartProgram[6] = Op("sysusers", "") /\ StartProgram[7] = Op("mark account", "")
    /\ StartProgram[8] = Op("mkdir installation", "")
    /\ StartProgram[9] = Op("mark", "installation-created")
    /\ StartProgram[10] = Op("create", CONFIG) /\ StartProgram[11] = Op("record", CONFIG)
    /\ StartProgram[12] = Op("create", BUS_POLICY) /\ StartProgram[13] = Op("record", BUS_POLICY)
    /\ StartProgram[14] = Op("save policy", "") /\ StartProgram[15] = Op("unlink policy", "")
    /\ StartProgram[16] = Op("create", POLKIT_POLICY)
    /\ StartProgram[17] = Op("record", POLKIT_POLICY)
    /\ StartProgram[18] = Op("create", RULES) /\ StartProgram[19] = Op("record", RULES)
    /\ StartProgram[20] = Op("reload", "") /\ StartProgram[21] = Op("spawn", "")
    /\ StartProgram[22] = Op("write pid", "") /\ StartProgram[23] = Op("await name", "")
  BY DEF StartProgram

LEMMA StopProgramIs ==
    /\ Len(StopProgram) = 8
    /\ StopProgram[1] = Op("kill", "") /\ StopProgram[2] = Op("unlink recorded", "")
    /\ StopProgram[3] = Op("restore policy", "") /\ StopProgram[4] = Op("reload", "")
    /\ StopProgram[5] = Op("rmtree installation", "") /\ StopProgram[6] = Op("userdel", "")
    /\ StopProgram[7] = Op("userdel account", "") /\ StopProgram[8] = Op("rmtree state", "")
  BY DEF StopProgram

LEMMA StartOps ==
    /\ StartProgram[1].op = "mkdir state"
    /\ StartProgram[2].op = "record user" /\ StartProgram[3].op = "useradd"
    /\ StartProgram[4].op = "record user" /\ StartProgram[5].op = "useradd"
    /\ StartProgram[6].op = "sysusers" /\ StartProgram[7].op = "mark account"
    /\ StartProgram[8].op = "mkdir installation" /\ StartProgram[9].op = "mark"
    /\ StartProgram[10].op = "create" /\ StartProgram[11].op = "record"
    /\ StartProgram[12].op = "create" /\ StartProgram[13].op = "record"
    /\ StartProgram[14].op = "save policy" /\ StartProgram[15].op = "unlink policy"
    /\ StartProgram[16].op = "create" /\ StartProgram[17].op = "record"
    /\ StartProgram[18].op = "create" /\ StartProgram[19].op = "record"
    /\ StartProgram[20].op = "reload" /\ StartProgram[21].op = "spawn"
    /\ StartProgram[22].op = "write pid" /\ StartProgram[23].op = "await name"
  BY DEF StartProgram, Op

LEMMA StopOps ==
    /\ StopProgram[1].op = "kill" /\ StopProgram[2].op = "unlink recorded"
    /\ StopProgram[3].op = "restore policy" /\ StopProgram[4].op = "reload"
    /\ StopProgram[5].op = "rmtree installation" /\ StopProgram[6].op = "userdel"
    /\ StopProgram[7].op = "userdel account" /\ StopProgram[8].op = "rmtree state"
  BY DEF StopProgram, Op

\* What operation s of start() makes of machine h.
StartMoves(s, h, g) ==
    /\ g \in MachineType
    /\ IF s = 1 THEN g.state ELSE g.state = h.state
    /\ g.createdUsers = IF s = 2 THEN h.createdUsers \union {WRITER}
                        ELSE IF s = 4 THEN h.createdUsers \union {READER} ELSE h.createdUsers
    /\ g.users = IF s = 3 THEN h.users \union {WRITER}
                 ELSE IF s = 5 THEN h.users \union {READER} ELSE h.users
    /\ g.installation = IF s = 8 THEN "clean" ELSE h.installation
    /\ h.marks \subseteq g.marks /\ (s = 9 => "installation-created" \in g.marks)
    /\ s \notin {7, 9} => g.marks = h.marks
    /\ g.files = IF s = 10 THEN h.files \union {CONFIG}
                 ELSE IF s = 12 THEN h.files \union {BUS_POLICY}
                 ELSE IF s = 18 THEN h.files \union {RULES} ELSE h.files
    /\ g.createdFiles = IF s = 11 THEN h.createdFiles \union {CONFIG}
                        ELSE IF s = 13 THEN h.createdFiles \union {BUS_POLICY}
                        ELSE IF s = 17 THEN h.createdFiles \union {POLKIT_POLICY}
                        ELSE IF s = 19 THEN h.createdFiles \union {RULES} ELSE h.createdFiles
    /\ g.saved = IF s = 14 THEN h.policy ELSE h.saved
    /\ g.policy = IF s = 15 THEN "none" ELSE IF s = 16 THEN "test" ELSE h.policy
    /\ IF s = 21 THEN g.helper ELSE g.helper = h.helper
    /\ g.pid = IF s = 22 THEN "written" ELSE h.pid

LEMMA StartEffect ==
    ASSUME NEW h \in MachineType, NEW busy, NEW s \in 1..23
    PROVE  StartMoves(s, h, Effect(StartProgram[s], h, busy))
  <1>1. CASE s = 1
    <2> DEFINE g == [h EXCEPT !.state = TRUE, !.lists = {"created-files", "created-users"}]
    <2>1. Effect(Op("mkdir state", ""), h, busy) = g
      BY DEF Effect, Op
    <2>2. g \in MachineType /\ g.state
      BY DEF MachineType
    <2>3. /\ g.files = h.files /\ g.policy = h.policy /\ g.users = h.users
          /\ g.installation = h.installation /\ g.helper = h.helper /\ g.createdFiles = h.createdFiles
          /\ g.createdUsers = h.createdUsers /\ g.marks = h.marks
          /\ g.saved = h.saved /\ g.pid = h.pid
      BY DEF MachineType
    <2> HIDE DEF g
    <2>4. StartMoves(1, h, g)
      BY <2>2, <2>3 DEF StartMoves
    <2> QED
      BY <1>1, <2>1, <2>4, StartProgramIs DEF g
  <1>2. CASE s = 2
    <2>1. Effect(Op("record user", WRITER), h, busy) = [h EXCEPT !.createdUsers = @ \union {WRITER}]
      BY DEF Effect, Op, recordUser
    <2>2. StartMoves(2, h, [h EXCEPT !.createdUsers = @ \union {WRITER}])
      BY DEF StartMoves, MachineType, Users
    <2> QED
      BY <1>2, <2>1, <2>2, StartProgramIs
  <1>3. CASE s = 3
    <2>1. Effect(Op("useradd", WRITER), h, busy) = [h EXCEPT !.users = @ \union {WRITER}]
      BY DEF Effect, Op
    <2>2. StartMoves(3, h, [h EXCEPT !.users = @ \union {WRITER}])
      BY DEF StartMoves, MachineType, Users
    <2> QED
      BY <1>3, <2>1, <2>2, StartProgramIs
  <1>4. CASE s = 4
    <2>1. Effect(Op("record user", READER), h, busy) = [h EXCEPT !.createdUsers = @ \union {READER}]
      BY DEF Effect, Op, recordUser
    <2>2. StartMoves(4, h, [h EXCEPT !.createdUsers = @ \union {READER}])
      BY DEF StartMoves, MachineType, Users
    <2> QED
      BY <1>4, <2>1, <2>2, StartProgramIs
  <1>5. CASE s = 5
    <2>1. Effect(Op("useradd", READER), h, busy) = [h EXCEPT !.users = @ \union {READER}]
      BY DEF Effect, Op
    <2>2. StartMoves(5, h, [h EXCEPT !.users = @ \union {READER}])
      BY DEF StartMoves, MachineType, Users
    <2> QED
      BY <1>5, <2>1, <2>2, StartProgramIs
  <1>6. CASE s = 6
    <2>1. Effect(Op("sysusers", ""), h, busy) = 
            IF h.account = "none" THEN [h EXCEPT !.account = "new"] ELSE h
      BY DEF Effect, Op
    <2>2. StartMoves(6, h, IF h.account = "none" THEN [h EXCEPT !.account = "new"] ELSE h)
      BY DEF StartMoves, MachineType
    <2> QED
      BY <1>6, <2>1, <2>2, StartProgramIs
  <1>7. CASE s = 7
    <2>1. Effect(Op("mark account", ""), h, busy) = 
            IF h.account = "new" THEN [h EXCEPT !.marks = @ \union {"helper-user-created"}] ELSE h
      BY DEF Effect, Op
    <2>2. StartMoves(7, h, IF h.account = "new" 
                              THEN [h EXCEPT !.marks = @ \union {"helper-user-created"}] ELSE h)
      BY DEF StartMoves, MachineType
    <2> QED
      BY <1>7, <2>1, <2>2, StartProgramIs
  <1>8. CASE s = 8
    <2>1. Effect(Op("mkdir installation", ""), h, busy) = [h EXCEPT !.installation = "clean"]
      BY DEF Effect, Op
    <2>2. StartMoves(8, h, [h EXCEPT !.installation = "clean"])
      BY DEF StartMoves, MachineType
    <2> QED
      BY <1>8, <2>1, <2>2, StartProgramIs
  <1>9. CASE s = 9
    <2>1. Effect(Op("mark", "installation-created"), h, busy) = [h EXCEPT !.marks = @ \union {"installation-created"}]
      BY DEF Effect, Op
    <2>2. StartMoves(9, h, [h EXCEPT !.marks = @ \union {"installation-created"}])
      BY DEF StartMoves, MachineType
    <2> QED
      BY <1>9, <2>1, <2>2, StartProgramIs
  <1>10. CASE s = 10
    <2> DEFINE g == [h EXCEPT !.dirs = @ \union {CONFIG}, !.files = @ \union {CONFIG}]
    <2>1. Effect(Op("create", CONFIG), h, busy) = g
      BY DEF Effect, Op, CONFIG, POLKIT_POLICY
    <2>2. g \in MachineType /\ g.files = h.files \union {CONFIG}
      BY DEF MachineType
    <2>3. /\ g.policy = h.policy /\ g.users = h.users /\ g.installation = h.installation
          /\ g.helper = h.helper /\ g.state = h.state /\ g.createdFiles = h.createdFiles
          /\ g.createdUsers = h.createdUsers /\ g.marks = h.marks /\ g.saved = h.saved
          /\ g.pid = h.pid
      BY DEF MachineType
    <2> HIDE DEF g
    <2>4. StartMoves(10, h, g)
      BY <2>2, <2>3 DEF StartMoves
    <2> QED
      BY <1>10, <2>1, <2>4, StartProgramIs
  <1>11. CASE s = 11
    <2>1. Effect(Op("record", CONFIG), h, busy) = [h EXCEPT !.createdFiles = @ \union {CONFIG}]
      BY DEF Effect, Op, recordFile
    <2>2. StartMoves(11, h, [h EXCEPT !.createdFiles = @ \union {CONFIG}])
      BY DEF StartMoves, MachineType
    <2> QED
      BY <1>11, <2>1, <2>2, StartProgramIs
  <1>12. CASE s = 12
    <2> DEFINE g == [h EXCEPT !.dirs = @ \union {BUS_POLICY}, !.files = @ \union {BUS_POLICY}]
    <2>1. Effect(Op("create", BUS_POLICY), h, busy) = g
      BY DEF Effect, Op, BUS_POLICY, POLKIT_POLICY
    <2>2. g \in MachineType /\ g.files = h.files \union {BUS_POLICY}
      BY DEF MachineType
    <2>3. /\ g.policy = h.policy /\ g.users = h.users /\ g.installation = h.installation
          /\ g.helper = h.helper /\ g.state = h.state /\ g.createdFiles = h.createdFiles
          /\ g.createdUsers = h.createdUsers /\ g.marks = h.marks /\ g.saved = h.saved
          /\ g.pid = h.pid
      BY DEF MachineType
    <2> HIDE DEF g
    <2>4. StartMoves(12, h, g)
      BY <2>2, <2>3 DEF StartMoves
    <2> QED
      BY <1>12, <2>1, <2>4, StartProgramIs
  <1>13. CASE s = 13
    <2>1. Effect(Op("record", BUS_POLICY), h, busy) = [h EXCEPT !.createdFiles = @ \union {BUS_POLICY}]
      BY DEF Effect, Op, recordFile
    <2>2. StartMoves(13, h, [h EXCEPT !.createdFiles = @ \union {BUS_POLICY}])
      BY DEF StartMoves, MachineType
    <2> QED
      BY <1>13, <2>1, <2>2, StartProgramIs
  <1>14. CASE s = 14
    <2>1. Effect(Op("save policy", ""), h, busy) = [h EXCEPT !.saved = h.policy]
      BY DEF Effect, Op
    <2>2. StartMoves(14, h, [h EXCEPT !.saved = h.policy])
      BY DEF StartMoves, MachineType
    <2> QED
      BY <1>14, <2>1, <2>2, StartProgramIs
  <1>15. CASE s = 15
    <2>1. Effect(Op("unlink policy", ""), h, busy) = [h EXCEPT !.policy = "none"]
      BY DEF Effect, Op
    <2>2. StartMoves(15, h, [h EXCEPT !.policy = "none"])
      BY DEF StartMoves, MachineType
    <2> QED
      BY <1>15, <2>1, <2>2, StartProgramIs
  <1>16. CASE s = 16
    <2> DEFINE g == [h EXCEPT !.dirs = @ \union {POLKIT_POLICY}, !.policy = "test"]
    <2>1. Effect(Op("create", POLKIT_POLICY), h, busy) = g
      BY DEF Effect, Op
    <2>2. g \in MachineType /\ g.policy = "test"
      BY DEF MachineType
    <2>3. /\ g.files = h.files /\ g.users = h.users /\ g.installation = h.installation
          /\ g.helper = h.helper /\ g.state = h.state /\ g.createdFiles = h.createdFiles
          /\ g.createdUsers = h.createdUsers /\ g.marks = h.marks /\ g.saved = h.saved
          /\ g.pid = h.pid
      BY DEF MachineType
    <2> HIDE DEF g
    <2>4. StartMoves(16, h, g)
      BY <2>2, <2>3 DEF StartMoves
    <2> QED
      BY <1>16, <2>1, <2>4, StartProgramIs
  <1>17. CASE s = 17
    <2>1. Effect(Op("record", POLKIT_POLICY), h, busy) = [h EXCEPT !.createdFiles = @ \union {POLKIT_POLICY}]
      BY DEF Effect, Op, recordFile
    <2>2. StartMoves(17, h, [h EXCEPT !.createdFiles = @ \union {POLKIT_POLICY}])
      BY DEF StartMoves, MachineType
    <2> QED
      BY <1>17, <2>1, <2>2, StartProgramIs
  <1>18. CASE s = 18
    <2> DEFINE g == [h EXCEPT !.dirs = @ \union {RULES}, !.files = @ \union {RULES}]
    <2>1. Effect(Op("create", RULES), h, busy) = g
      BY DEF Effect, Op, RULES, POLKIT_POLICY
    <2>2. g \in MachineType /\ g.files = h.files \union {RULES}
      BY DEF MachineType
    <2>3. /\ g.policy = h.policy /\ g.users = h.users /\ g.installation = h.installation
          /\ g.helper = h.helper /\ g.state = h.state /\ g.createdFiles = h.createdFiles
          /\ g.createdUsers = h.createdUsers /\ g.marks = h.marks /\ g.saved = h.saved
          /\ g.pid = h.pid
      BY DEF MachineType
    <2> HIDE DEF g
    <2>4. StartMoves(18, h, g)
      BY <2>2, <2>3 DEF StartMoves
    <2> QED
      BY <1>18, <2>1, <2>4, StartProgramIs
  <1>19. CASE s = 19
    <2>1. Effect(Op("record", RULES), h, busy) = [h EXCEPT !.createdFiles = @ \union {RULES}]
      BY DEF Effect, Op, recordFile
    <2>2. StartMoves(19, h, [h EXCEPT !.createdFiles = @ \union {RULES}])
      BY DEF StartMoves, MachineType
    <2> QED
      BY <1>19, <2>1, <2>2, StartProgramIs
  <1>20. CASE s = 20
    <2>1. Effect(Op("reload", ""), h, busy) = h
      BY DEF Effect, Op
    <2>2. StartMoves(20, h, h)
      BY DEF StartMoves, MachineType
    <2> QED
      BY <1>20, <2>1, <2>2, StartProgramIs
  <1>21. CASE s = 21
    <2>1. Effect(Op("spawn", ""), h, busy) = [h EXCEPT !.helper = TRUE]
      BY DEF Effect, Op
    <2> DEFINE g == [h EXCEPT !.helper = TRUE]
    <2>2. g \in MachineType /\ g.helper
      BY DEF MachineType
    <2>3. /\ g.files = h.files /\ g.policy = h.policy /\ g.users = h.users
          /\ g.installation = h.installation /\ g.state = h.state /\ g.createdFiles = h.createdFiles
          /\ g.createdUsers = h.createdUsers /\ g.marks = h.marks
          /\ g.saved = h.saved /\ g.pid = h.pid
      BY DEF MachineType
    <2> HIDE DEF g
    <2>4. StartMoves(21, h, g)
      BY <2>2, <2>3 DEF StartMoves
    <2> QED
      BY <1>21, <2>1, <2>4, StartProgramIs DEF g
  <1>22. CASE s = 22
    <2>1. Effect(Op("write pid", ""), h, busy) = [h EXCEPT !.pid = "written"]
      BY DEF Effect, Op
    <2>2. StartMoves(22, h, [h EXCEPT !.pid = "written"])
      BY DEF StartMoves, MachineType
    <2> QED
      BY <1>22, <2>1, <2>2, StartProgramIs
  <1>23. CASE s = 23
    <2>1. Effect(Op("await name", ""), h, busy) = h
      BY DEF Effect, Op
    <2>2. StartMoves(23, h, h)
      BY DEF StartMoves, MachineType
    <2> QED
      BY <1>23, <2>1, <2>2, StartProgramIs
  <1> QED
    BY <1>1, <1>2, <1>3, <1>4, <1>5, <1>6, <1>7, <1>8, <1>9, <1>10, <1>11, <1>12,
       <1>13, <1>14, <1>15, <1>16, <1>17, <1>18, <1>19, <1>20, <1>21, <1>22, <1>23

\* What operation s of stop() makes of machine h.
StopMoves(s, h, busy, g) ==
    /\ g \in MachineType
    /\ IF s = 1 /\ h.pid = "written" THEN ~ g.helper ELSE g.helper = h.helper
    /\ g.files = IF s = 2 THEN h.files \ h.createdFiles ELSE h.files
    /\ g.policy = IF s = 2 /\ POLKIT_POLICY \in h.createdFiles THEN "none"
                  ELSE IF s = 3 /\ h.saved # "none" THEN h.saved ELSE h.policy
    /\ g.installation = IF s = 5 /\ "installation-created" \in h.marks THEN "absent"
                        ELSE h.installation
    /\ g.users = IF s = 6 /\ ~ busy THEN h.users \ h.createdUsers ELSE h.users
    /\ s # 8 => /\ g.state = h.state /\ g.createdFiles = h.createdFiles /\ g.marks = h.marks
                /\ g.createdUsers = h.createdUsers /\ g.saved = h.saved /\ g.pid = h.pid
                /\ g.lists = h.lists
    /\ s = 8 => /\ ~ g.state /\ g.lists = {} /\ g.createdFiles = {} /\ g.marks = {}
                /\ g.createdUsers = {} /\ g.saved = "none" /\ g.pid = "none"

LEMMA StopEffect ==
    ASSUME NEW h \in MachineType, NEW busy \in BOOLEAN, NEW s \in 1..8
    PROVE  StopMoves(s, h, busy, Effect(StopProgram[s], h, busy))
  <1>1. CASE s = 1
    <2> DEFINE g == IF h.pid = "written" THEN [h EXCEPT !.helper = FALSE] ELSE h
    <2>1. Effect(Op("kill", ""), h, busy) = g
      BY DEF Effect, Op
    <2>2. g \in MachineType
      <3>1. [h EXCEPT !.helper = FALSE] \in MachineType
        BY DEF MachineType
      <3> QED
        BY <3>1, Zenon
    <2>5. IF h.pid = "written" THEN ~ g.helper ELSE g.helper = h.helper
      <3>1. ~ [h EXCEPT !.helper = FALSE].helper
        BY DEF MachineType
      <3>2. CASE h.pid = "written"
        BY <3>1, <3>2, Zenon
      <3>3. CASE h.pid # "written"
        BY <3>3, Zenon
      <3> QED
        BY <3>2, <3>3
    <2>3. /\ g.files = h.files /\ g.policy = h.policy /\ g.users = h.users
          /\ g.installation = h.installation /\ g.state = h.state /\ g.createdFiles = h.createdFiles
          /\ g.createdUsers = h.createdUsers /\ g.marks = h.marks
          /\ g.saved = h.saved /\ g.pid = h.pid /\ g.lists = h.lists
      BY DEF MachineType
    <2> HIDE DEF g
    <2>4. StopMoves(1, h, busy, g)
      BY <2>2, <2>3, <2>5 DEF StopMoves
    <2> QED
      BY <1>1, <2>1, <2>4, StopProgramIs
  <1>2. CASE s = 2
    <2> DEFINE g == [h EXCEPT !.files = @ \ h.createdFiles,
                      !.policy = IF POLKIT_POLICY \in h.createdFiles THEN "none" ELSE @]
    <2>1. Effect(Op("unlink recorded", ""), h, busy) = g
      BY DEF Effect, Op, Unlinked
    <2>2. g \in MachineType
      BY DEF MachineType
    <2>3. /\ g.files = h.files \ h.createdFiles
          /\ g.policy = IF POLKIT_POLICY \in h.createdFiles THEN "none" ELSE h.policy
          /\ g.users = h.users /\ g.installation = h.installation /\ g.helper = h.helper
          /\ g.state = h.state /\ g.createdFiles = h.createdFiles
          /\ g.createdUsers = h.createdUsers /\ g.marks = h.marks
          /\ g.saved = h.saved /\ g.pid = h.pid /\ g.lists = h.lists
      BY DEF MachineType
    <2> HIDE DEF g
    <2>4. StopMoves(2, h, busy, g)
      BY <2>2, <2>3 DEF StopMoves
    <2> QED
      BY <1>2, <2>1, <2>4, StopProgramIs
  <1>3. CASE s = 3
    <2> DEFINE g == IF h.saved # "none" THEN [h EXCEPT !.policy = h.saved] ELSE h
    <2>1. Effect(Op("restore policy", ""), h, busy) = g
      BY DEF Effect, Op
    <2>2. StopMoves(3, h, busy, g)
      BY DEF StopMoves, MachineType
    <2> HIDE DEF g
    <2> QED
      BY <1>3, <2>1, <2>2, StopProgramIs
  <1>4. CASE s = 4
    <2> DEFINE g == h
    <2>1. Effect(Op("reload", ""), h, busy) = g
      BY DEF Effect, Op
    <2>2. StopMoves(4, h, busy, g)
      BY DEF StopMoves, MachineType
    <2> HIDE DEF g
    <2> QED
      BY <1>4, <2>1, <2>2, StopProgramIs
  <1>5. CASE s = 5
    <2> DEFINE g == IF "installation-created" \in h.marks
            THEN [h EXCEPT !.installation = "absent"] ELSE h
    <2>1. Effect(Op("rmtree installation", ""), h, busy) = g
      BY DEF Effect, Op
    <2>2. StopMoves(5, h, busy, g)
      BY DEF StopMoves, MachineType
    <2> HIDE DEF g
    <2> QED
      BY <1>5, <2>1, <2>2, StopProgramIs
  <1>6. CASE s = 6
    <2> DEFINE g == [h EXCEPT !.users = IF busy THEN @ ELSE @ \ h.createdUsers]
    <2>1. Effect(Op("userdel", ""), h, busy) = g
      BY DEF Effect, Op
    <2>2. StopMoves(6, h, busy, g)
      BY DEF StopMoves, MachineType
    <2> HIDE DEF g
    <2> QED
      BY <1>6, <2>1, <2>2, StopProgramIs
  <1>7. CASE s = 7
    <2> DEFINE g == IF "helper-user-created" \in h.marks
            THEN [h EXCEPT !.account = "none"] ELSE h
    <2>1. Effect(Op("userdel account", ""), h, busy) = g
      BY DEF Effect, Op
    <2>2. StopMoves(7, h, busy, g)
      BY DEF StopMoves, MachineType
    <2> HIDE DEF g
    <2> QED
      BY <1>7, <2>1, <2>2, StopProgramIs
  <1>8. CASE s = 8
    <2> DEFINE g == [h EXCEPT !.state = FALSE, !.lists = {}, !.createdFiles = {},
                              !.createdUsers = {}, !.marks = {}, !.saved = "none", !.pid = "none"]
    <2>1. Effect(Op("rmtree state", ""), h, busy) = g
      BY DEF Effect, Op
    <2>2. /\ g \in MachineType /\ ~ g.state /\ g.lists = {} /\ g.createdFiles = {} /\ g.marks = {}
          /\ g.createdUsers = {} /\ g.saved = "none" /\ g.pid = "none"
      BY DEF MachineType
    <2>3. /\ g.files = h.files /\ g.policy = h.policy /\ g.users = h.users
          /\ g.installation = h.installation /\ g.helper = h.helper
      BY DEF MachineType
    <2> HIDE DEF g
    <2>4. StopMoves(8, h, busy, g)
      BY <2>2, <2>3 DEF StopMoves
    <2> QED
      BY <1>8, <2>1, <2>4, StopProgramIs
  <1> QED
    BY <1>1, <1>2, <1>3, <1>4, <1>5, <1>6, <1>7, <1>8

-----------------------------------------------------------------------------
\* A step that leaves the machine alone, the installation aside.
OthersSame(h, g) ==
    /\ g.files = h.files /\ g.policy = h.policy /\ g.users = h.users /\ g.helper = h.helper
    /\ g.state = h.state /\ g.createdFiles = h.createdFiles
    /\ g.createdUsers = h.createdUsers /\ g.marks = h.marks
    /\ g.saved = h.saved /\ g.pid = h.pid
    /\ g.lists = h.lists

Installations == {"absent", "clean", "probe"} \union Procs

LEMMA SetInstallation ==
    ASSUME NEW h \in MachineType, NEW x \in Installations
    PROVE  LET g == [h EXCEPT !.installation = x]
           IN  g \in MachineType /\ g.installation = x /\ OthersSame(h, g)
  BY DEF MachineType, OthersSame, Installations

\* What an operation of start() leaves that is cut short: nothing of it, or part of it.
StartCutMoves(s, h, g) ==
    /\ g \in MachineType
    /\ g.files = h.files /\ g.policy = h.policy /\ g.installation = h.installation
    /\ g.helper = h.helper /\ g.createdFiles = h.createdFiles
    /\ g.createdUsers = h.createdUsers /\ g.marks = h.marks
    /\ IF s = 1 THEN g = h \/ g.state ELSE g.state = h.state
    /\ \/ g.users = h.users
       \/ s = 3 /\ g.users = h.users \union {WRITER}
       \/ s = 5 /\ g.users = h.users \union {READER}
    /\ s # 14 => g.saved = h.saved
    /\ s # 22 => g.pid = h.pid

LEMMA StartCut ==
    ASSUME NEW h \in MachineType, NEW busy, NEW s \in 1..23,
           NEW g \in CutShort(StartProgram[s], h, busy)
    PROVE  StartCutMoves(s, h, g)
  <1>0. ASSUME g = h PROVE StartCutMoves(s, h, g)
    BY <1>0 DEF StartCutMoves
  <1>1. CASE s = 1
    <2>1. CutShort(Op("mkdir state", ""), h, busy) = {h} \union
            {[h EXCEPT !.state = TRUE, !.lists = lists] : lists \in {{}, {"created-files"}}}
      BY DEF CutShort, Op
    <2>2. ASSUME NEW lists \in {{}, {"created-files"}},
                 g = [h EXCEPT !.state = TRUE, !.lists = lists]
          PROVE  StartCutMoves(1, h, g)
      <3>1. g \in MachineType /\ g.state
        BY <2>2 DEF MachineType
      <3>2. /\ g.files = h.files /\ g.policy = h.policy /\ g.users = h.users
            /\ g.installation = h.installation /\ g.helper = h.helper
            /\ g.createdFiles = h.createdFiles /\ g.createdUsers = h.createdUsers
            /\ g.marks = h.marks /\ g.saved = h.saved /\ g.pid = h.pid
        BY <2>2 DEF MachineType
      <3> QED
        BY <3>1, <3>2 DEF StartCutMoves
    <2>3. StartProgram[s] = Op("mkdir state", "")
      BY <1>1, StartProgramIs
    <2>4. g = h \/ \E lists \in {{}, {"created-files"}} :
                       g = [h EXCEPT !.state = TRUE, !.lists = lists]
      BY <2>1, <2>3, Zenon
    <2> QED
      BY <1>0, <1>1, <2>2, <2>4, Zenon
  <1>2. CASE s \in {2, 4, 7, 8, 9, 11, 13, 15, 17, 19, 20, 21, 23}
    <2> DEFINE o == StartProgram[s]
    <2>1. o.op \in {"record user", "mark account", "mkdir installation", "mark", "record",
                    "unlink policy", "reload", "spawn", "await name"}
      <3>1. CASE s \in {2, 4, 7, 8, 9}
        BY <3>1, StartOps, Zenon
      <3>2. CASE s \in {11, 13, 15, 17, 19, 20, 21, 23}
        BY <3>2, StartOps, Zenon
      <3> QED
        BY <1>2, <3>1, <3>2
    <2> HIDE DEF o
    <2>2. CutShort(o, h, busy) = {h}
      BY <2>1 DEF CutShort
    <2> QED
      BY <1>0, <2>2 DEF o
  <1>3. CASE s \in {3, 5, 6}
    <2>1. ASSUME NEW o, o.op \in {"useradd", "sysusers"}
          PROVE  CutShort(o, h, busy) = {h, Effect(o, h, busy)}
      BY <2>1 DEF CutShort
    <2>2. g = h \/ g = Effect(StartProgram[s], h, busy)
      <3>1. StartProgram[s].op \in {"useradd", "sysusers"}
        BY <1>3, StartOps
      <3>2. CutShort(StartProgram[s], h, busy) = {h, Effect(StartProgram[s], h, busy)}
        BY <2>1, <3>1
      <3> QED
        BY <3>2
    <2>3. ASSUME StartMoves(s, h, g) PROVE StartCutMoves(s, h, g)
      BY <1>3, <2>3 DEF StartMoves, StartCutMoves
    <2> QED
      BY <1>0, <2>2, <2>3, StartEffect
  <1>4. CASE s \in {10, 12, 16, 18}
    <2>1. ASSUME NEW x
          PROVE  CutShort(Op("create", x), h, busy) = {h, [h EXCEPT !.dirs = @ \union {x}]}
      BY DEF CutShort, Op
    <2>2. PICK x \in {CONFIG, BUS_POLICY, POLKIT_POLICY, RULES} : StartProgram[s] = Op("create", x)
      BY <1>4, StartProgramIs
    <2>3. ASSUME g = [h EXCEPT !.dirs = @ \union {x}] PROVE StartCutMoves(s, h, g)
      <3>1. g \in MachineType
        BY <2>3 DEF MachineType
      <3>2. /\ g.files = h.files /\ g.policy = h.policy /\ g.users = h.users
            /\ g.installation = h.installation /\ g.helper = h.helper /\ g.state = h.state
            /\ g.createdFiles = h.createdFiles /\ g.createdUsers = h.createdUsers /\ g.marks = h.marks
            /\ g.saved = h.saved /\ g.pid = h.pid
        BY <2>3 DEF MachineType
      <3> QED
        BY <1>4, <3>1, <3>2 DEF StartCutMoves
    <2> QED
      BY <1>0, <2>1, <2>2, <2>3
  <1>5. CASE s = 14
    <2>1. \A x \in CutShort(Op("save policy", ""), h, busy) : x = h \/ x = [h EXCEPT !.saved = "torn"]
      BY DEF CutShort, Op
    <2>2. StartCutMoves(14, h, [h EXCEPT !.saved = "torn"])
      BY DEF StartCutMoves, MachineType
    <2> QED
      BY <1>0, <1>5, <2>1, <2>2, StartProgramIs
  <1>6. CASE s = 22
    <2>1. CutShort(Op("write pid", ""), h, busy) = {h, [h EXCEPT !.pid = "empty"]}
      BY DEF CutShort, Op
    <2>2. StartCutMoves(22, h, [h EXCEPT !.pid = "empty"])
      BY DEF StartCutMoves, MachineType
    <2> QED
      BY <1>0, <1>6, <2>1, <2>2, StartProgramIs
  <1> QED
    BY <1>1, <1>2, <1>3, <1>4, <1>5, <1>6

\* What an operation of stop() leaves that is cut short.
StopCutMoves(s, h, g) ==
    /\ g \in MachineType
    /\ g.installation = h.installation /\ g.state = h.state
    /\ g.files \subseteq h.files /\ g.users \subseteq h.users /\ (g.helper => h.helper)
    /\ \/ g.policy = h.policy
       \/ s = 2 /\ g.policy = "none" /\ POLKIT_POLICY \in h.createdFiles
       \/ s = 3 /\ g.policy = "torn" /\ h.saved # "none"
    /\ s # 8 => /\ g.createdFiles = h.createdFiles /\ g.marks = h.marks
                /\ g.createdUsers = h.createdUsers /\ g.saved = h.saved /\ g.pid = h.pid

LEMMA StopCut ==
    ASSUME NEW h \in MachineType, NEW busy \in BOOLEAN, NEW s \in 1..8,
           NEW g \in CutShort(StopProgram[s], h, busy)
    PROVE  StopCutMoves(s, h, g)
  <1>0. ASSUME g = h PROVE StopCutMoves(s, h, g)
    BY <1>0 DEF StopCutMoves
  <1>1. CASE s \in {1, 7}
    <2> DEFINE o == StopProgram[s]
    <2>1. o.op \in {"kill", "userdel account"}
      BY <1>1, StopOps
    <2> HIDE DEF o
    <2>4. CutShort(o, h, busy) = {h, Effect(o, h, busy)}
      BY <2>1 DEF CutShort
    <2>2. g = h \/ g = Effect(StopProgram[s], h, busy)
      BY <2>4 DEF o
    <2>3. ASSUME StopMoves(s, h, busy, g) PROVE StopCutMoves(s, h, g)
      BY <1>1, <2>3 DEF StopMoves, StopCutMoves
    <2> QED
      BY <1>0, <2>2, <2>3, StopEffect
  <1>2. CASE s = 2
    <2>1. CutShort(Op("unlink recorded", ""), h, busy)
            = {h} \union {Unlinked(h, gone) : gone \in SUBSET h.createdFiles}
      BY DEF CutShort, Op
    <2>2. ASSUME NEW gone \in SUBSET h.createdFiles, g = Unlinked(h, gone)
          PROVE  StopCutMoves(2, h, g)
      BY <2>2 DEF Unlinked, StopCutMoves, MachineType
    <2> QED
      BY <1>0, <1>2, <2>1, <2>2, StopProgramIs
  <1>3. CASE s = 3
    <2>1. \A x \in CutShort(Op("restore policy", ""), h, busy) :
             x = h \/ (h.saved # "none" /\ x = [h EXCEPT !.policy = "torn"])
      BY DEF CutShort, Op
    <2>2. h.saved # "none" => StopCutMoves(3, h, [h EXCEPT !.policy = "torn"])
      BY DEF StopCutMoves, MachineType
    <2> QED
      BY <1>0, <1>3, <2>1, <2>2, StopProgramIs
  <1>4. CASE s \in {4, 5}
    <2> DEFINE o == StopProgram[s]
    <2>1. o.op \in {"reload", "rmtree installation"}
      BY <1>4, StopOps
    <2> HIDE DEF o
    <2>2. CutShort(o, h, busy) = {h}
      BY <2>1 DEF CutShort
    <2> QED
      BY <1>0, <2>2 DEF o
  <1>5. CASE s = 6
    <2>1. \A x \in CutShort(Op("userdel", ""), h, busy) :
             x = h \/ \E gone \in SUBSET h.createdUsers : x = [h EXCEPT !.users = @ \ gone]
      BY DEF CutShort, Op
    <2>2. ASSUME NEW gone \in SUBSET h.createdUsers, g = [h EXCEPT !.users = @ \ gone]
          PROVE  StopCutMoves(6, h, g)
      BY <2>2 DEF StopCutMoves, MachineType
    <2> QED
      BY <1>0, <1>5, <2>1, <2>2, StopProgramIs
  <1>6. CASE s = 8
    <2>1. CutShort(Op("rmtree state", ""), h, busy) = {h} \union PartlyRemoved(h)
      BY DEF CutShort, Op
    <2> DEFINE Lefts == [lists : SUBSET h.lists, marks : SUBSET h.marks,
                         saved : {h.saved, "none"}, pid : {h.pid, "none"}]
    <2>2. ASSUME NEW left \in Lefts, g = Remains(h, left)
          PROVE  StopCutMoves(8, h, g)
      <3>1. g \in MachineType
        BY <2>2 DEF MachineType, Remains
      <3>2. /\ g.installation = h.installation /\ g.state = h.state /\ g.files = h.files
            /\ g.users = h.users /\ g.helper = h.helper /\ g.policy = h.policy
        BY <2>2 DEF MachineType, Remains
      <3> QED
        BY <3>1, <3>2 DEF StopCutMoves
    <2>3. ASSUME g \in PartlyRemoved(h) PROVE StopCutMoves(8, h, g)
      <3>1. PICK left \in Lefts : g = Remains(h, left)
        BY <2>3 DEF PartlyRemoved
      <3> QED
        BY <2>2, <3>1, Zenon
    <2>4. g \in {h} \union PartlyRemoved(h)
      BY <1>6, <2>1, StopProgramIs
    <2> QED
      BY <1>0, <1>6, <2>3, <2>4
  <1> QED
    BY <1>1, <1>2, <1>3, <1>4, <1>5, <1>6

\* Commands do not fail in the operations that are exposed.
LEMMA StopCanRaise ==
    ASSUME step \in 1..8, CanRaise(StopProgram[step], m)
    PROVE  step # 8
  <1>1. ~ CanRaise(Op("rmtree state", ""), m)
    BY DEF Op, CanRaise, MustRaise
  <1> QED
    BY <1>1, StopProgramIs

\* The places where start() can raise.
LEMMA StartCanRaise ==
    ASSUME step \in 1..23, CanRaise(StartProgram[step], m)
    PROVE  step \in {3, 5, 6, 20, 21, 23}
  <1>1. /\ ~ CanRaise(Op("mkdir state", ""), m)
        /\ ~ CanRaise(Op("record user", WRITER), m) /\ ~ CanRaise(Op("record user", READER), m)
        /\ ~ CanRaise(Op("mark account", ""), m) /\ ~ CanRaise(Op("mkdir installation", ""), m)
        /\ ~ CanRaise(Op("mark", "installation-created"), m)
        /\ ~ CanRaise(Op("save policy", ""), m) /\ ~ CanRaise(Op("unlink policy", ""), m)
        /\ ~ CanRaise(Op("write pid", ""), m)
    BY DEF Op, CanRaise, MustRaise
  <1>2. ASSUME NEW path
        PROVE  ~ CanRaise(Op("create", path), m) /\ ~ CanRaise(Op("record", path), m)
    BY DEF Op, CanRaise, MustRaise
  <1>3. step \notin {1, 2, 4, 7, 8, 9}
    BY <1>1, StartProgramIs
  <1>4. step \notin {10, 11, 12, 13}
    BY <1>2, StartProgramIs
  <1>5. step \notin {16, 17, 18, 19}
    BY <1>2, StartProgramIs
  <1>6. step \notin {14, 15, 22}
    BY <1>1, StartProgramIs
  <1> QED
    BY <1>3, <1>4, <1>5, <1>6

LEMMA TypeFacts == TypeOK => m \in MachineType /\ starts \in Nat /\ starts <= MaxStarts
  <1>1. TypeOK => m \in MachineType /\ starts \in 0..MaxStarts
    BY DEF TypeOK
  <1> QED
    BY <1>1, HelperAssumption

-----------------------------------------------------------------------------
LEMMA HelperInit == Init => HelperInv
  <1> SUFFICES ASSUME Init PROVE HelperInv
    OBVIOUS
  <1>1. PICK policy \in {"none", "original"}, account \in {"none", "present"} :
          before = Pristine(policy, account)
    BY DEF Init
  <1>2. /\ m = before /\ before \in MachineType
        /\ m.files = {} /\ m.users = {} /\ m.installation = "absent" /\ m.marks = {}
        /\ m.lists = {} /\ m.createdFiles = {} /\ m.createdUsers = {} /\ m.saved = "none"
        /\ m.pid = "none"
    <2>1. m = Pristine(policy, account) /\ m = before
      BY <1>1 DEF Init
    <2>2. Pristine(policy, account) \in MachineType
      BY DEF Pristine, MachineType
    <2>3. /\ m.files = {} /\ m.users = {} /\ m.installation = "absent" /\ m.marks = {}
          /\ m.lists = {} /\ m.createdFiles = {} /\ m.createdUsers = {} /\ m.saved = "none"
          /\ m.pid = "none"
      BY <2>1 DEF Pristine
    <2> QED
      BY <1>1, <2>1, <2>2, <2>3
  <1>3. ~ m.helper /\ ~ m.state
    BY <1>1 DEF Init, Pristine
  <1>4. m.policy = before.policy /\ before.policy \in {"none", "original"}
    BY <1>1, <1>2 DEF Pristine
  <1>5. TypeOK
    <2>1. step \in 1..(Len(StartProgram) + 1) /\ starts \in 0..MaxStarts
      <3>1. step = 1 /\ starts = 0
        BY DEF Init
      <3>2. Len(StartProgram) = 23
        BY StartProgramIs
      <3> QED
        BY <3>1, <3>2, HelperAssumption
    <2>2. lock \in [1..MaxStarts -> Procs \union {"none"}] /\ round \in [Procs -> 0..MaxStarts]
      <3>1. lock = [g \in 1..MaxStarts |-> "none"] /\ round = [q \in Procs |-> 0]
        BY DEF Init
      <3>2. lock \in [1..MaxStarts -> Procs \union {"none"}]
        BY <3>1
      <3>3. 0 \in 0..MaxStarts
        BY HelperAssumption
      <3>4. round \in [Procs -> 0..MaxStarts]
        BY <3>1, <3>3
      <3> QED
        BY <3>2, <3>4
    <2>3. pc \in [Procs -> Places] /\ orphan \subseteq Procs
      BY DEF Init, Places
    <2>4. faults \subseteq Faults /\ cut \subseteq Exposed /\ phase = "fresh"
      BY DEF Init
    <2> QED
      BY <1>2, <2>1, <2>2, <2>3, <2>4 DEF TypeOK, Places
  <1>6. StepInv /\ StateInv
    BY <1>2, <1>3 DEF Init, StepInv, StateInv, Untouched
  <1>7. PolicyInv
    BY <1>2, <1>4 DEF Init, PolicyInv
  <1>8. LockInv /\ QuietInv /\ CaseInv
    BY DEF Init, LockInv, QuietInv, CaseInv, InLock, Active
  <1>9. RestoreInv
    BY <1>2, <1>3, <1>4 DEF Init, RestoreInv, Undone
  <1> QED
    BY <1>5, <1>6, <1>7, <1>8, <1>9 DEF HelperInv

\* Steps of the job's own process leave the cases alone, steps of a case the rest.
LEMMA MainFrame ==
    /\ MainStep \/ CrashMain => UNCHANGED <<before, faults, procVars>>
    /\ MainStep => cut' = cut
    /\ CrashMain => cut \subseteq cut' /\ cut' \subseteq cut \union Exposed
  BY DEF MainStep, CrashMain, Start, StartStep, StartRaises, Probe, RunEnds, Stop, StopStep,
         StopRaises, StopAgain, procVars

LEMMA CaseFrame ==
    ASSUME TypeOK, NEW p \in Procs, CaseStep(p) \/ GiveUp(p) \/ CrashCase(p)
    PROVE  /\ UNCHANGED mainVars
           /\ m' \in MachineType /\ OthersSame(m, m')
           /\ m'.installation # m.installation =>
                 pc[p] \in InLock /\ (m'.installation \in {"clean", "absent"}
                                        \/ (pc[p] = "scenario" /\ m'.installation = p))
  <1>1. m \in MachineType
    BY DEF TypeOK
  <1>2. UNCHANGED mainVars
    BY DEF CaseStep, StartCase, TakeLock, Remove, CaseRaises, Recreate, Operate, ScenarioEnds,
           GiveUp, CrashCase, mainVars
  <1>3. CASE m' = m
    BY <1>1, <1>2, <1>3 DEF OthersSame
  <1>4. CASE Remove(p)
    <2>1. m' = [m EXCEPT !.installation = "absent"] /\ pc[p] \in InLock
      BY <1>4 DEF Remove, InLock
    <2>2. "absent" \in Installations
      BY DEF Installations
    <2> QED
      BY <1>1, <1>2, <2>1, <2>2, SetInstallation
  <1>5. CASE Recreate(p)
    <2>1. m' = [m EXCEPT !.installation = "clean"] /\ pc[p] \in InLock
      BY <1>5 DEF Recreate, InLock
    <2>2. "clean" \in Installations
      BY DEF Installations
    <2> QED
      BY <1>1, <1>2, <2>1, <2>2, SetInstallation
  <1>6. CASE Operate(p)
    <2>1. m' = [m EXCEPT !.installation = p] /\ pc[p] = "scenario" /\ pc[p] \in InLock
      BY <1>6 DEF Operate, InLock
    <2>2. p \in Installations
      BY DEF Installations
    <2> QED
      BY <1>1, <1>2, <2>1, <2>2, SetInstallation
  <1>7. m' = m \/ Remove(p) \/ Recreate(p) \/ Operate(p)
    BY DEF CaseStep, StartCase, TakeLock, CaseRaises, ScenarioEnds, GiveUp, CrashCase
  <1> QED
    BY <1>3, <1>4, <1>5, <1>6, <1>7

-----------------------------------------------------------------------------
LEMMA MainType == HelperInv /\ (MainStep \/ CrashMain) => TypeOK'
  <1> SUFFICES ASSUME HelperInv, MainStep \/ CrashMain PROVE TypeOK'
    OBVIOUS
  <1>0. TypeOK /\ StepInv
    BY DEF HelperInv
  <1>1. m \in MachineType /\ UNCHANGED <<before, faults, pc, orphan, lock, round>>
    BY <1>0, MainFrame DEF TypeOK, procVars
  <1>2. Len(StartProgram) = 23 /\ Len(StopProgram) = 8
    BY StartProgramIs, StopProgramIs
  <1>3. step \in 1..24 /\ starts \in 0..MaxStarts
    <2>1. step \in 1..(Len(StartProgram) + 1) /\ starts \in 0..MaxStarts
      BY <1>0 DEF TypeOK
    <2> QED
      BY <1>2, <2>1
  <1>4. phase = "start" => step \in 1..23
    BY <1>0 DEF StepInv
  <1>5. phase = "stop" => step \in 1..8
    BY <1>0 DEF StepInv
  <1>b. Busy \in BOOLEAN
    BY DEF Busy
  <1>6. m' \in MachineType
    <2>1. CASE m' = m
      BY <1>1, <2>1
    <2>2. CASE m' = Effect(StartProgram[step], m, Busy) /\ phase = "start"
      BY <1>1, <1>4, <2>2, StartEffect DEF StartMoves
    <2>3. CASE m' = Effect(StopProgram[step], m, Busy) /\ phase = "stop"
      BY <1>1, <1>5, <1>b, <2>3, StopEffect DEF StopMoves
    <2>4. CASE m' = [m EXCEPT !.installation = "probe"]
      BY <1>1, <2>4, SetInstallation DEF Installations
    <2>5. CASE phase = "start" /\ m' \in CutShort(StartProgram[step], m, Busy)
      BY <1>1, <1>4, <2>5, StartCut DEF StartCutMoves
    <2>6. CASE phase = "stop" /\ m' \in CutShort(StopProgram[step], m, Busy)
      BY <1>1, <1>5, <1>b, <2>6, StopCut DEF StopCutMoves
    <2> QED
      BY <2>1, <2>2, <2>3, <2>4, <2>5, <2>6
      DEF MainStep, CrashMain, Start, StartStep, StartRaises, Probe, RunEnds, Stop, StopStep,
          StopRaises, StopAgain
  <1>7. step' \in 1..24
    <2>1. step' = step \/ step' = 1 \/ (step' = step + 1 /\ phase \in {"start", "stop"})
      BY DEF MainStep, CrashMain, Start, StartStep, StartRaises, Probe, RunEnds, Stop, StopStep,
             StopRaises, StopAgain
    <2> QED
      BY <1>3, <1>4, <1>5, <2>1
  <1>8. starts' \in 0..MaxStarts
    <2>1. starts' = starts \/ (starts' = starts + 1 /\ starts < MaxStarts)
      BY DEF MainStep, CrashMain, Start, StartStep, StartRaises, Probe, RunEnds, Stop, StopStep,
             StopRaises, StopAgain
    <2> QED
      BY <1>3, <2>1, HelperAssumption
  <1>9. phase' \in {"fresh", "start", "probe", "run", "failed", "stop", "stuck", "stopped"}
    BY <1>0 DEF TypeOK, MainStep, CrashMain, Start, StartStep, StartRaises, Probe, RunEnds, Stop,
                StopStep, StopRaises, StopAgain
  <1>10. step' \in 1..(Len(StartProgram) + 1)
    BY <1>2, <1>7
  <1>11. cut' \subseteq Exposed
    BY <1>0, MainFrame DEF TypeOK
  <1> QED
    BY <1>0, <1>1, <1>6, <1>8, <1>9, <1>10, <1>11 DEF TypeOK

LEMMA CaseType ==
    ASSUME HelperInv, NEW p \in Procs, CaseStep(p) \/ GiveUp(p) \/ CrashCase(p)
    PROVE  TypeOK'
  <1>0. TypeOK
    BY DEF HelperInv
  <1>1. m' \in MachineType /\ UNCHANGED mainVars
    BY <1>0, CaseFrame
  <1>2. pc' \in [Procs -> Places]
    <2>1. pc \in [Procs -> Places]
      BY <1>0 DEF TypeOK, Places
    <2> QED
      BY <2>1 DEF CaseStep, StartCase, TakeLock, Remove, CaseRaises, Recreate, Operate,
                  ScenarioEnds, GiveUp, CrashCase, CaseVars, procVars, Places
  <1>3. orphan' \subseteq Procs
    BY <1>0 DEF TypeOK, CaseStep, StartCase, TakeLock, Remove, CaseRaises, Recreate, Operate,
                ScenarioEnds, GiveUp, CrashCase, procVars
  <1>4. lock' \in [1..MaxStarts -> Procs \union {"none"}]
    <2>1. lock \in [1..MaxStarts -> Procs \union {"none"}]
      BY <1>0 DEF TypeOK
    <2> QED
      BY <2>1 DEF CaseStep, StartCase, TakeLock, Remove, CaseRaises, Recreate, Operate,
                  ScenarioEnds, GiveUp, CrashCase, procVars
  <1>5. round' \in [Procs -> 0..MaxStarts]
    <2>1. round \in [Procs -> 0..MaxStarts] /\ starts \in 0..MaxStarts
      BY <1>0 DEF TypeOK
    <2>2. round' = round \/ round' = [round EXCEPT ![p] = starts]
      BY DEF CaseStep, StartCase, TakeLock, Remove, CaseRaises, Recreate, Operate,
             ScenarioEnds, GiveUp, CrashCase, procVars
    <2> QED
      BY <2>1, <2>2
  <1> QED
    BY <1>0, <1>1, <1>2, <1>3, <1>4, <1>5 DEF TypeOK, Places, mainVars

-----------------------------------------------------------------------------
\* The operations of start().
LEMMA StartStepKeeps ==
    ASSUME HelperInv, StartStep
    PROVE  StepInv' /\ StateInv' /\ PolicyInv' /\ RestoreInv'
  <1>0. TypeOK /\ StepInv /\ StateInv /\ PolicyInv /\ RestoreInv
    BY DEF HelperInv
  <1>1. /\ phase = "start" /\ step \in 1..23 /\ step' = step + 1
        /\ phase' = IF step = 23 THEN "probe" ELSE "start"
        /\ before' = before /\ faults' = faults /\ starts' = starts /\ cut' = cut
    <2>1. Len(StartProgram) = 23
      BY StartProgramIs
    <2> QED
      BY <1>0, <2>1 DEF StartStep, StepInv
  <1>2. StartMoves(step, m, m')
    BY <1>0, <1>1, StartEffect DEF StartStep, TypeOK
  <1>3. m' \in MachineType /\ m \in MachineType
    BY <1>0, <1>2 DEF StartMoves, TypeOK
  <1>4. m'.state
    BY <1>0, <1>1, <1>2 DEF StartMoves, StepInv
  <1>5. StepInv'
    BY <1>0, <1>1, <1>4 DEF StepInv
  <1>6. StateInv'
    BY <1>4 DEF StateInv
  <1>7. PolicyInv'
    <2> SUFFICES ASSUME before.policy = "original", CopyWhole PROVE PolicyInv'
      BY <1>1 DEF PolicyInv, CopyWhole
    <2>1. /\ m.policy = "original" \/ m.saved = "original"
          /\ m.saved \in {"none", "original"}
          /\ IF step <= 14 THEN m.policy = "original" ELSE m.saved = "original"
          /\ POLKIT_POLICY \in m.createdFiles => m.saved = "original"
      BY <1>0, <1>1 DEF PolicyInv
    <2>2. CASE step < 14
      BY <1>1, <1>2, <2>1, <2>2 DEF PolicyInv, StartMoves, CONFIG, BUS_POLICY, POLKIT_POLICY
    <2>3. CASE step = 14
      BY <1>1, <1>2, <2>1, <2>3 DEF PolicyInv, StartMoves
    <2>4. CASE step > 14
      BY <1>1, <1>2, <2>1, <2>4 DEF PolicyInv, StartMoves
    <2> QED
      BY <1>1, <2>2, <2>3, <2>4
  <1>8. RestoreInv'
    <2> SUFFICES ASSUME Sheltered PROVE RestoreInv'
      BY <1>1 DEF RestoreInv, Sheltered
    <2>0. /\ phase' # "stop" /\ phase' \notin {"fresh", "stopped"}
          /\ ~ (phase' = "start" /\ step' = 1)
      BY <1>1
    <2>1. /\ m'.users \subseteq m'.createdUsers
          /\ phase' = "start" /\ step' = 3 => WRITER \in m'.createdUsers
          /\ phase' = "start" /\ step' = 5 => READER \in m'.createdUsers
      BY <1>0, <1>1, <1>2 DEF RestoreInv, StartMoves
    <2>2. m'.files \subseteq m'.createdFiles \union BeingRecorded'
      <3>1. m.files \subseteq m.createdFiles \union BeingRecorded
        BY <1>0 DEF RestoreInv
      <3> QED
        BY <1>1, <1>2, <3>1 DEF StartMoves, BeingRecorded
    <2>3. /\ m'.installation # "absent" =>
                "installation-created" \in m'.marks \/ (phase' = "start" /\ step' = 9)
          /\ (phase' = "start" /\ step' > 9) \/ phase' \in {"probe", "run"} =>
                "installation-created" \in m'.marks
      BY <1>0, <1>1, <1>2 DEF RestoreInv, StartMoves
    <2>4. ASSUME m'.helper PROVE m'.pid = "written" \/ (phase' = "start" /\ step' = 22)
      <3>1. CASE step = 21
        BY <1>1, <3>1
      <3>2. CASE step = 22
        BY <1>2, <3>2 DEF StartMoves
      <3>3. CASE step \notin {21, 22}
        <4>1. m.helper /\ m'.pid = m.pid
          BY <1>2, <2>4, <3>3 DEF StartMoves
        <4> QED
          BY <1>0, <3>3, <4>1 DEF RestoreInv
      <3> QED
        BY <3>1, <3>2, <3>3
    <2>5. ASSUME before'.policy = "none"
          PROVE  /\ m'.saved = "none"
                 /\ m'.policy # "none" =>
                       m'.policy = "test" /\ (POLKIT_POLICY \in m'.createdFiles
                                               \/ (phase' = "start" /\ step' = 17))
                 /\ phase' = "start" /\ step' <= 16 => m'.policy = "none"
      <3>1. /\ m.saved = "none"
            /\ m.policy # "none" =>
                  m.policy = "test" /\ (POLKIT_POLICY \in m.createdFiles \/ step = 17)
            /\ step <= 16 => m.policy = "none"
        BY <1>0, <1>1, <2>5 DEF RestoreInv
      <3>2. m'.saved = "none"
        BY <1>1, <1>2, <3>1 DEF StartMoves
      <3>3. CASE step <= 15
        BY <1>1, <1>2, <3>1, <3>2, <3>3 DEF StartMoves
      <3>4. CASE step = 16
        BY <1>1, <1>2, <3>1, <3>2, <3>4 DEF StartMoves
      <3>5. CASE step > 16
        <4>1. m'.policy = m.policy /\ m.createdFiles \subseteq m'.createdFiles
          BY <1>1, <1>2, <3>5 DEF StartMoves
        <4>2. step = 17 => POLKIT_POLICY \in m'.createdFiles
          BY <1>2 DEF StartMoves
        <4>3. ~ (step' <= 16)
          BY <1>1, <3>5
        <4> QED
          BY <3>1, <3>2, <4>1, <4>2, <4>3
      <3> QED
        BY <1>1, <3>3, <3>4, <3>5
    <2> QED
      BY <2>0, <2>1, <2>2, <2>3, <2>4, <2>5 DEF RestoreInv
  <1> QED
    BY <1>5, <1>6, <1>7, <1>8

\* start() raises or is killed: what it may have done all the same is on record, unless the
\* operation is exposed.
StartBreaks == StartRaises \/ (CrashMain /\ phase = "start")

LEMMA StartBroken ==
    ASSUME HelperInv, StartBreaks
    PROVE  /\ phase = "start" /\ step \in 1..23 /\ phase' \in {"failed", "stopped"}
           /\ phase' = "stopped" => ~ m'.state
           /\ before' = before /\ faults' = faults /\ starts' = starts
           /\ cut \subseteq cut'
           /\ StartCutMoves(step, m, m')
           /\ step = 14 => "save policy" \in cut'
           /\ step \in {9, 11, 13, 14, 17, 19, 22} => cut' # {}
  <1>0. TypeOK /\ StepInv
    BY DEF HelperInv
  <1>1. /\ phase = "start" /\ step \in 1..23
        /\ before' = before /\ faults' = faults /\ starts' = starts
        /\ m' \in CutShort(StartProgram[step], m, Busy)
    BY <1>0 DEF StartBreaks, StartRaises, CrashMain, StepInv
  <1>2. StartCutMoves(step, m, m')
    BY <1>0, <1>1, StartCut DEF TypeOK
  <1>3. CASE StartRaises
    <2>1. phase' = "failed" /\ cut' = cut /\ step \in {3, 5, 6, 20, 21, 23}
      BY <1>1, <1>3, StartCanRaise DEF StartRaises
    <2>2. step \notin {9, 11, 13, 14, 17, 19, 22} /\ step # 14
      BY <2>1
    <2>3. phase' \in {"failed", "stopped"} /\ phase' # "stopped" /\ cut \subseteq cut'
      BY <2>1
    <2> QED
      BY <1>1, <1>2, <2>2, <2>3, Zenon
  <1>4. CASE CrashMain
    <2>1. /\ phase' = IF m'.state THEN "failed" ELSE "stopped"
          /\ cut' = cut \union ({StartProgram[step].op} \intersect Exposed)
      BY <1>1, <1>4 DEF CrashMain
    <2>2. step \in {9, 11, 13, 14, 17, 19, 22} => StartProgram[step].op \in Exposed
      BY StartOps DEF Exposed
    <2>3. step = 14 => StartProgram[step].op = "save policy"
      BY StartOps
    <2> QED
      BY <1>1, <1>2, <2>1, <2>2, <2>3
  <1> QED
    BY <1>3, <1>4 DEF StartBreaks

LEMMA StartBreaksKeeps ==
    ASSUME HelperInv, StartBreaks
    PROVE  StepInv' /\ StateInv' /\ PolicyInv' /\ RestoreInv'
  <1>0. TypeOK /\ StepInv /\ StateInv /\ PolicyInv /\ RestoreInv
    BY DEF HelperInv
  <1>1. /\ phase = "start" /\ step \in 1..23 /\ phase' \in {"failed", "stopped"}
        /\ phase' = "stopped" => ~ m'.state
        /\ before' = before /\ faults' = faults /\ starts' = starts
        /\ cut \subseteq cut'
    BY StartBroken
  <1>2. /\ StartCutMoves(step, m, m')
        /\ step = 14 => "save policy" \in cut'
        /\ step \in {9, 11, 13, 14, 17, 19, 22} => cut' # {}
    BY StartBroken
  <1>3. /\ m'.files = m.files /\ m'.policy = m.policy /\ m'.installation = m.installation
        /\ m'.helper = m.helper /\ m'.createdFiles = m.createdFiles
        /\ m'.createdUsers = m.createdUsers /\ m'.marks = m.marks
        /\ step # 14 => m'.saved = m.saved
        /\ step # 22 => m'.pid = m.pid
    BY <1>2 DEF StartCutMoves
  <1>4. step > 1 => m'.state
    <2>1. ASSUME step > 1 PROVE m'.state = m.state /\ m.state
      <3>1. step # 1
        BY <1>1, <2>1
      <3>2. m'.state = m.state
        BY <1>2, <3>1, Zenon DEF StartCutMoves
      <3> QED
        BY <1>0, <1>1, <2>1, <3>2 DEF StepInv
    <2> QED
      BY <2>1, Zenon
  <1>5. ~ m'.state => step = 1 /\ m' = m
    <2>1. ~ m'.state => step = 1
      BY <1>1, <1>4
    <2> QED
      BY <1>2, <2>1, Zenon DEF StartCutMoves
  <1>6. StepInv'
    BY <1>0, <1>1 DEF StepInv
  <1>7. StateInv'
    BY <1>0, <1>5 DEF StateInv
  <1>8. PolicyInv'
    <2> SUFFICES ASSUME before.policy = "original", CopyWhole' PROVE PolicyInv'
      BY <1>1 DEF PolicyInv
    <2>1. CopyWhole /\ step # 14
      BY <1>1, <1>2 DEF CopyWhole
    <2>2. m'.saved = m.saved
      BY <1>3, <2>1
    <2> QED
      BY <1>0, <1>1, <1>3, <2>1, <2>2 DEF PolicyInv
  <1>9. RestoreInv'
    <2> SUFFICES ASSUME Sheltered' PROVE RestoreInv'
      BY DEF RestoreInv
    <2>1. Sheltered /\ step \notin {9, 11, 13, 14, 17, 19, 22}
      BY <1>1, <1>2 DEF Sheltered
    <2>2. m'.saved = m.saved /\ m'.pid = m.pid
      BY <1>3, <2>1
    <2>3. BeingRecorded = {} /\ BeingRecorded' = {}
      BY <1>1, <2>1 DEF BeingRecorded
    <2>4. /\ m.users \subseteq m.createdUsers
          /\ step = 3 => WRITER \in m.createdUsers
          /\ step = 5 => READER \in m.createdUsers
      BY <1>0, <1>1, <2>1 DEF RestoreInv
    <2>5. m'.users \subseteq m'.createdUsers
      BY <1>2, <1>3, <2>4 DEF StartCutMoves
    <2>6. phase' = "stopped" => Undone'
      <3>1. ASSUME phase' = "stopped" PROVE step = 1 /\ m' = m
        BY <1>1, <1>5, <3>1
      <3>2. step = 1 => Undone
        BY <1>0, <1>1, <2>1 DEF RestoreInv
      <3>3. m' = m /\ Undone => Undone'
        BY <1>1 DEF Undone
      <3> QED
        BY <3>1, <3>2, <3>3
    <2>7. /\ m.files \subseteq m.createdFiles
          /\ m.installation # "absent" => "installation-created" \in m.marks
          /\ m.helper => m.pid = "written"
          /\ before.policy = "none" =>
                /\ m.saved = "none"
                /\ m.policy # "none" => m.policy = "test" /\ POLKIT_POLICY \in m.createdFiles
      BY <1>0, <1>1, <2>1, <2>3 DEF RestoreInv
    <2> QED
      BY <1>1, <1>3, <2>2, <2>3, <2>5, <2>6, <2>7 DEF RestoreInv
  <1> QED
    BY <1>6, <1>7, <1>8, <1>9

\* The operations of stop().
LEMMA StopStepKeeps ==
    ASSUME HelperInv, StopStep
    PROVE  StepInv' /\ StateInv' /\ PolicyInv' /\ RestoreInv'
  <1>0. TypeOK /\ StepInv /\ StateInv /\ PolicyInv /\ RestoreInv /\ QuietInv
    BY DEF HelperInv
  <1>1. /\ phase = "stop" /\ step \in 1..8 /\ step' = step + 1
        /\ phase' = IF step = 8 THEN "stopped" ELSE "stop"
        /\ before' = before /\ faults' = faults /\ starts' = starts /\ cut' = cut
    <2>1. Len(StopProgram) = 8
      BY StopProgramIs
    <2> QED
      BY <1>0, <2>1 DEF StopStep, StepInv
  <1>b. Busy \in BOOLEAN
    BY DEF Busy
  <1>2. StopMoves(step, m, Busy, m')
    BY <1>0, <1>1, <1>b, StopEffect DEF StopStep, TypeOK
  <1>5. StepInv'
    <2>1. m.state /\ (step # 8 => m'.state)
      BY <1>0, <1>1, <1>2 DEF StepInv, StopMoves
    <2> QED
      BY <1>0, <1>1, <2>1 DEF StepInv
  <1>6. StateInv'
    <2>1. CASE step = 8
      BY <1>2, <2>1 DEF StopMoves, StateInv
    <2>2. CASE step # 8
      BY <1>0, <1>2, <2>2 DEF StopMoves, StateInv
    <2> QED
      BY <2>1, <2>2
  <1>7. PolicyInv'
    <2> SUFFICES ASSUME before.policy = "original", CopyWhole PROVE PolicyInv'
      BY <1>1 DEF PolicyInv, CopyWhole
    <2>1. /\ m.policy = "original" \/ m.saved = "original"
          /\ m.saved \in {"none", "original"}
          /\ POLKIT_POLICY \in m.createdFiles => m.saved = "original"
          /\ step > 3 => m.policy = "original"
      BY <1>0, <1>1 DEF PolicyInv
    <2>2. phase' # "start"
      BY <1>1
    <2>3. CASE step <= 2
      BY <1>1, <1>2, <2>1, <2>2, <2>3 DEF StopMoves, PolicyInv
    <2>4. CASE step = 3
      BY <1>1, <1>2, <2>1, <2>2, <2>4 DEF StopMoves, PolicyInv
    <2>5. CASE step > 3 /\ step < 8
      BY <1>1, <1>2, <2>1, <2>2, <2>5 DEF StopMoves, PolicyInv
    <2>6. CASE step = 8
      BY <1>1, <1>2, <2>1, <2>2, <2>6 DEF StopMoves, PolicyInv
    <2> QED
      BY <1>1, <2>3, <2>4, <2>5, <2>6
  <1>8. RestoreInv'
    <2> SUFFICES ASSUME Sheltered PROVE RestoreInv'
      BY <1>1 DEF RestoreInv, Sheltered
    <2>b. ~ Busy
      BY <1>0, <1>1 DEF QuietInv, Busy, Active, Sheltered
    <2>0. /\ m.users \subseteq m.createdUsers /\ m.files \subseteq m.createdFiles
          /\ m.installation # "absent" => "installation-created" \in m.marks
          /\ m.helper => m.pid = "written"
          /\ before.policy = "none" =>
                /\ m.saved = "none"
                /\ m.policy # "none" => m.policy = "test" /\ POLKIT_POLICY \in m.createdFiles
          /\ step > 1 => ~ m.helper
          /\ step > 2 => m.files = {} /\ (before.policy = "none" => m.policy = "none")
          /\ step > 5 => m.installation = "absent"
          /\ step > 6 => m.users = {}
      BY <1>0, <1>1 DEF RestoreInv, BeingRecorded
    <2>1. BeingRecorded' = {} /\ phase' \in {"stop", "stopped"}
      BY <1>1 DEF BeingRecorded
    <2>2. ~ m'.helper /\ (step > 1 => m'.files = {}) /\ (step > 4 => m'.installation = "absent")
      BY <1>1, <1>2, <2>0 DEF StopMoves
    <2>3. /\ step > 5 => m'.users = {}
          /\ step > 1 => (before.policy = "none" => m'.policy = "none")
      BY <1>1, <1>2, <2>0, <2>b DEF StopMoves
    <2>4. CASE step # 8
      <3>1. /\ m'.users \subseteq m'.createdUsers /\ m'.files \subseteq m'.createdFiles
            /\ m'.installation # "absent" => "installation-created" \in m'.marks
        BY <1>2, <2>0, <2>4 DEF StopMoves
      <3>2. before.policy = "none" =>
                /\ m'.saved = "none"
                /\ m'.policy # "none" => m'.policy = "test" /\ POLKIT_POLICY \in m'.createdFiles
        BY <1>2, <2>0, <2>4 DEF StopMoves
      <3> QED
        BY <1>1, <2>1, <2>2, <2>3, <2>4, <3>1, <3>2 DEF RestoreInv
    <2>5. CASE step = 8
      <3>1. /\ m'.files = {} /\ m'.users = {} /\ m'.installation = "absent"
            /\ ~ m'.helper /\ ~ m'.state /\ m'.saved = "none"
        BY <1>2, <2>2, <2>3, <2>5 DEF StopMoves
      <3>2. m'.policy = before.policy
        <4>1. CASE before.policy = "original"
          BY <1>0, <1>1, <1>2, <2>5, <4>1 DEF PolicyInv, StopMoves, CopyWhole, Sheltered
        <4>2. CASE before.policy = "none"
          BY <2>3, <2>5, <4>2
        <4>3. before.policy \in {"none", "original"}
          BY <1>0 DEF StepInv, Untouched, Pristine
        <4> QED
          BY <4>1, <4>2, <4>3
      <3> QED
        BY <1>1, <2>1, <2>5, <3>1, <3>2 DEF RestoreInv, Undone
    <2> QED
      BY <2>4, <2>5
  <1> QED
    BY <1>5, <1>6, <1>7, <1>8

\* stop() raises or is killed: it has undone no more than what is on record.
StopBreaks == StopRaises \/ (CrashMain /\ phase = "stop")

LEMMA StopBroken ==
    ASSUME HelperInv, StopBreaks
    PROVE  /\ phase = "stop" /\ step \in 1..8 /\ phase' \in {"failed", "stuck"}
           /\ before' = before /\ faults' = faults /\ starts' = starts
           /\ cut \subseteq cut'
           /\ StopCutMoves(step, m, m') /\ m'.state
           /\ step = 8 => "rmtree state" \in cut'
  <1>0. TypeOK /\ StepInv
    BY DEF HelperInv
  <1>b. Busy \in BOOLEAN
    BY DEF Busy
  <1>1. /\ phase = "stop" /\ step \in 1..8 /\ m.state
        /\ before' = before /\ faults' = faults /\ starts' = starts
        /\ m' \in CutShort(StopProgram[step], m, Busy)
    BY <1>0 DEF StopBreaks, StopRaises, CrashMain, StepInv
  <1>2. StopCutMoves(step, m, m')
    BY <1>0, <1>b, <1>1, StopCut DEF TypeOK
  <1>3. m'.state
    BY <1>1, <1>2 DEF StopCutMoves
  <1>4. CASE StopRaises
    <2>1. phase' = "stuck" /\ cut' = cut /\ step # 8
      BY <1>1, <1>4, StopCanRaise DEF StopRaises
    <2> QED
      BY <1>1, <1>2, <1>3, <2>1
  <1>5. CASE CrashMain
    <2>1. /\ phase' = "failed"
          /\ cut' = cut \union ({StopProgram[step].op} \intersect Exposed)
      BY <1>1, <1>3, <1>5 DEF CrashMain
    <2>2. step = 8 => StopProgram[step].op = "rmtree state"
      BY StopOps
    <2> QED
      BY <1>1, <1>2, <1>3, <2>1, <2>2 DEF Exposed
  <1> QED
    BY <1>4, <1>5 DEF StopBreaks

LEMMA StopBreaksKeeps ==
    ASSUME HelperInv, StopBreaks
    PROVE  StepInv' /\ StateInv' /\ PolicyInv' /\ RestoreInv'
  <1>0. TypeOK /\ StepInv /\ StateInv /\ PolicyInv /\ RestoreInv
    BY DEF HelperInv
  <1>1. /\ phase = "stop" /\ step \in 1..8 /\ phase' \in {"failed", "stuck"}
        /\ before' = before /\ faults' = faults /\ starts' = starts
        /\ cut \subseteq cut' /\ m'.state
        /\ step = 8 => "rmtree state" \in cut'
    BY StopBroken
  <1>2. StopCutMoves(step, m, m')
    BY StopBroken
  <1>3. step # 8 => /\ m'.createdFiles = m.createdFiles /\ m'.marks = m.marks
                    /\ m'.createdUsers = m.createdUsers /\ m'.saved = m.saved /\ m'.pid = m.pid
    BY <1>2 DEF StopCutMoves
  <1>4. StepInv' /\ StateInv'
    <2>1. StepInv'
      <3>1. starts # 0
        BY <1>0, <1>1, Zenon DEF StepInv
      <3>2. phase' \notin {"start", "stop", "probe", "run"}
        BY <1>1
      <3>3. Untouched(before')
        BY <1>0, <1>1 DEF StepInv
      <3> QED
        BY <1>1, <3>1, <3>2, <3>3, Zenon DEF StepInv
    <2>2. StateInv'
      BY <1>1, Zenon DEF StateInv
    <2> QED
      BY <2>1, <2>2
  <1>5. PolicyInv'
    <2> SUFFICES ASSUME before.policy = "original", CopyWhole' PROVE PolicyInv'
      BY <1>1 DEF PolicyInv
    <2>1. CopyWhole /\ step # 8
      BY <1>1 DEF CopyWhole
    <2>2. /\ m.policy = "original" \/ m.saved = "original"
          /\ m.saved \in {"none", "original"}
          /\ POLKIT_POLICY \in m.createdFiles => m.saved = "original"
      BY <1>0, <2>1 DEF PolicyInv
    <2>3. m'.policy = m.policy \/ m.saved = "original"
      BY <1>2, <2>2 DEF StopCutMoves
    <2> QED
      BY <1>1, <1>3, <2>1, <2>2, <2>3 DEF PolicyInv
  <1>6. RestoreInv'
    <2> SUFFICES ASSUME Sheltered' PROVE RestoreInv'
      BY DEF RestoreInv
    <2>1. Sheltered /\ step # 8
      BY <1>1 DEF Sheltered
    <2>2. BeingRecorded = {} /\ BeingRecorded' = {}
      BY <1>1 DEF BeingRecorded
    <2>3. /\ m.users \subseteq m.createdUsers /\ m.files \subseteq m.createdFiles
          /\ m.installation # "absent" => "installation-created" \in m.marks
          /\ m.helper => m.pid = "written"
          /\ before.policy = "none" =>
                /\ m.saved = "none"
                /\ m.policy # "none" => m.policy = "test" /\ POLKIT_POLICY \in m.createdFiles
      BY <1>0, <1>1, <2>1, <2>2 DEF RestoreInv
    <2>4. /\ m'.users \subseteq m'.createdUsers /\ m'.files \subseteq m'.createdFiles
          /\ m'.installation # "absent" => "installation-created" \in m'.marks
          /\ m'.helper => m'.pid = "written"
      BY <1>2, <1>3, <2>1, <2>3 DEF StopCutMoves
    <2>5. before.policy = "none" =>
                /\ m'.saved = "none"
                /\ m'.policy # "none" => m'.policy = "test" /\ POLKIT_POLICY \in m'.createdFiles
      BY <1>2, <1>3, <2>1, <2>3 DEF StopCutMoves
    <2> QED
      BY <1>1, <2>2, <2>4, <2>5 DEF RestoreInv
  <1> QED
    BY <1>4, <1>5, <1>6

\* start() begins where nothing is left of an earlier round.
LEMMA StartKeeps ==
    ASSUME HelperInv, Start
    PROVE  StepInv' /\ StateInv' /\ PolicyInv' /\ RestoreInv'
  <1>0. TypeOK /\ StepInv /\ StateInv /\ PolicyInv /\ RestoreInv
    BY DEF HelperInv
  <1>1. /\ phase \in {"fresh", "stopped"} /\ phase' = "start" /\ step' = 1
        /\ starts' = starts + 1 /\ m' = m /\ before' = before /\ faults' = faults
        /\ cut' = cut
        /\ ~ m.state
    BY DEF Start
  <1>2. StepInv'
    <2>1. starts \in Nat
      BY <1>0, TypeFacts
    <2>2. starts' # 0
      BY <1>1, <2>1
    <2> QED
      BY <1>0, <1>1, <2>2 DEF StepInv
  <1>3. StateInv'
    BY <1>0, <1>1 DEF StateInv
  <1>4. PolicyInv'
    <2>1. m.saved = "none" /\ m.createdFiles = {}
      BY <1>0, <1>1 DEF StateInv
    <2> SUFFICES ASSUME before.policy = "original", CopyWhole PROVE PolicyInv'
      BY <1>1 DEF PolicyInv, CopyWhole
    <2>2. m.policy = "original"
      BY <1>0, <2>1 DEF PolicyInv
    <2> QED
      BY <1>1, <2>1, <2>2 DEF PolicyInv
  <1>5. RestoreInv'
    <2>1. Sheltered => Undone
      BY <1>0, <1>1 DEF RestoreInv
    <2>2. Undone => Undone'
      BY <1>1 DEF Undone
    <2>3. m.saved = "none" /\ m.pid = "none"
      BY <1>0, <1>1 DEF StateInv
    <2> QED
      BY <1>1, <2>1, <2>2, <2>3 DEF RestoreInv, Undone, BeingRecorded, Sheltered
  <1> QED
    BY <1>2, <1>3, <1>4, <1>5

LEMMA ProbeKeeps ==
    ASSUME HelperInv, Probe
    PROVE  StepInv' /\ StateInv' /\ PolicyInv' /\ RestoreInv'
  <1>0. TypeOK /\ StepInv /\ StateInv /\ PolicyInv /\ RestoreInv
    BY DEF HelperInv
  <1>1. /\ phase = "probe" /\ phase' \in {"run", "failed"} /\ step' = step
        /\ starts' = starts /\ before' = before /\ faults' = faults /\ cut' = cut
    BY DEF Probe
  <1>2. OthersSame(m, m')
    <2>1. "probe" \in Installations /\ m \in MachineType
      BY <1>0 DEF Installations, TypeOK
    <2> QED
      BY <2>1, SetInstallation DEF Probe
  <1>3. StepInv' /\ StateInv'
    BY <1>0, <1>1, <1>2 DEF StepInv, StateInv, OthersSame
  <1>4. PolicyInv'
    BY <1>0, <1>1, <1>2 DEF PolicyInv, CopyWhole, OthersSame
  <1>5. RestoreInv'
    BY <1>0, <1>1, <1>2 DEF RestoreInv, Sheltered, OthersSame, BeingRecorded
  <1> QED
    BY <1>3, <1>4, <1>5

\* The job goes from one program to another.
LEMMA PauseKeeps ==
    ASSUME HelperInv, RunEnds \/ Stop \/ StopAgain
    PROVE  StepInv' /\ StateInv' /\ PolicyInv' /\ RestoreInv'
  <1>0. TypeOK /\ StepInv /\ StateInv /\ PolicyInv /\ RestoreInv
    BY DEF HelperInv
  <1>1. /\ m' = m /\ before' = before /\ faults' = faults /\ starts' = starts /\ cut' = cut
        /\ phase \notin {"fresh", "start"} /\ phase' \in {"failed", "stop"}
        /\ phase' = "stop" => step' = 1 /\ m.state
    BY DEF RunEnds, Stop, StopAgain
  <1>2. StepInv' /\ StateInv'
    <2>1. StepInv'
      <3>1. phase' = "stop" => step' \in 1..8 /\ m'.state
        <4>1. 1 \in 1..8
          OBVIOUS
        <4> QED
          BY <1>1, <4>1, Zenon
      <3>2. starts # 0
        BY <1>0, <1>1, Zenon DEF StepInv
      <3>3. phase' \notin {"start", "probe", "run"}
        BY <1>1
      <3>4. Untouched(before')
        BY <1>0, <1>1 DEF StepInv
      <3> QED
        BY <1>1, <3>1, <3>2, <3>3, <3>4, Zenon DEF StepInv
    <2>2. StateInv'
      <3>1. m' = m
        BY <1>1
      <3> QED
        BY <1>0, <3>1 DEF StateInv
    <2> QED
      BY <2>1, <2>2
  <1>3. PolicyInv'
    <2> SUFFICES ASSUME before.policy = "original", CopyWhole PROVE PolicyInv'
      BY <1>1 DEF PolicyInv, CopyWhole
    <2>1. /\ m.policy = "original" \/ m.saved = "original"
          /\ m.saved \in {"none", "original"}
          /\ POLKIT_POLICY \in m.createdFiles => m.saved = "original"
      BY <1>0 DEF PolicyInv
    <2>2. m' = m /\ phase' # "start" /\ (phase' = "stop" => ~ (step' > 3))
      BY <1>1
    <2> QED
      BY <2>1, <2>2 DEF PolicyInv
  <1>4. RestoreInv'
    BY <1>0, <1>1 DEF RestoreInv, Sheltered, BeingRecorded
  <1> QED
    BY <1>2, <1>3, <1>4

-----------------------------------------------------------------------------
\* The job's own process and the cases.
LEMMA MainCases ==
    ASSUME HelperInv, MainStep \/ CrashMain
    PROVE  LockInv' /\ QuietInv' /\ CaseInv'
  <1>0. TypeOK /\ StepInv /\ LockInv /\ QuietInv /\ CaseInv
    BY DEF HelperInv
  <1>1. UNCHANGED <<before, faults, pc, orphan, lock, round>>
    BY MainFrame DEF procVars
  <1>2. starts \in Nat /\ (starts' = starts \/ (starts' = starts + 1 /\ Start))
    BY <1>0, TypeFacts
    DEF MainStep, CrashMain, Start, StartStep, StartRaises, Probe, RunEnds, Stop,
        StopStep, StopRaises, StopAgain
  <1>3. phase' \in {"fresh", "start", "probe"} => phase \in {"fresh", "start"} \/ Start
    BY <1>0
    DEF MainStep, CrashMain, Start, StartStep, StartRaises, Probe, RunEnds, Stop,
        StopStep, StopRaises, StopAgain
  <1>4. LockInv'
    <2> SUFFICES ASSUME NEW p \in Procs
                 PROVE  /\ pc[p] # "idle" => round[p] \in 1..starts'
                        /\ pc[p] \in InLock => lock[round[p]] = p
                        /\ starts' <= 1 /\ phase' \in {"fresh", "start", "probe"} => pc[p] = "idle"
      BY <1>1 DEF LockInv
    <2>1. /\ pc[p] # "idle" => round[p] \in 1..starts
          /\ pc[p] \in InLock => lock[round[p]] = p
          /\ starts <= 1 /\ phase \in {"fresh", "start", "probe"} => pc[p] = "idle"
      BY <1>0 DEF LockInv
    <2>2. pc[p] # "idle" => round[p] \in 1..starts'
      BY <1>2, <2>1
    <2>3. ASSUME starts' <= 1, phase' \in {"fresh", "start", "probe"} PROVE pc[p] = "idle"
      <3>1. CASE starts' = starts + 1
        <4>1. starts = 0
          BY <1>2, <2>3, <3>1
        <4> QED
          BY <2>1, <4>1
      <3>2. CASE starts' = starts
        BY <1>2, <1>3, <2>1, <2>3, <3>2 DEF Start
      <3> QED
        BY <1>2, <3>1, <3>2
    <2> QED
      BY <2>1, <2>2, <2>3
  <1>5. QuietInv'
    <2> SUFFICES ASSUME "orphan" \notin faults PROVE QuietInv'
      BY <1>1 DEF QuietInv
    <2>1. /\ orphan = {}
          /\ phase # "run" => \A p \in Procs : ~ Active(p)
          /\ \A p, q \in Procs : Active(p) /\ Active(q) => p = q
      BY <1>0 DEF QuietInv
    <2>2. \A p \in Procs : Active(p)' = Active(p)
      BY <1>1 DEF Active
    <2>3. phase = "run" => RunEnds
      BY <2>1 DEF MainStep, CrashMain, Start, StartStep, StartRaises, Probe, RunEnds, Stop,
                  StopStep, StopRaises, StopAgain
    <2>4. phase' # "run" => \A p \in Procs : ~ Active(p)
      BY <2>1, <2>3 DEF RunEnds
    <2> QED
      BY <1>1, <2>1, <2>2, <2>4 DEF QuietInv
  <1>6. CaseInv'
    <2> SUFFICES ASSUME "orphan" \notin faults \/ starts' = 1, NEW p \in Procs, pc[p] = "scenario"
                 PROVE  m'.installation \in {"clean", "absent", p}
      BY <1>1 DEF CaseInv
    <2>1. starts # 0
      BY <1>0 DEF LockInv
    <2>2. "orphan" \notin faults \/ starts = 1
      BY <1>2, <2>1
    <2>3. m.installation \in {"clean", "absent", p}
      BY <1>0, <2>2 DEF CaseInv
    <2>4. phase # "probe"
      BY <1>0, <2>2 DEF LockInv, QuietInv, Active
    <2>5. m'.installation \in {m.installation, "clean", "absent"}
      <3>1. CASE m' = m
        BY <3>1
      <3>2. CASE phase = "start" /\ m' = Effect(StartProgram[step], m, Busy)
        <4>1. StartMoves(step, m, m')
          BY <1>0, <3>2, StartEffect, TypeFacts DEF StepInv
        <4> QED
          BY <4>1 DEF StartMoves
      <3>3. CASE phase = "stop" /\ m' = Effect(StopProgram[step], m, Busy)
        <4>1. StopMoves(step, m, Busy, m')
          <5>1. Busy \in BOOLEAN
            BY DEF Busy
          <5> QED
            BY <1>0, <3>3, <5>1, StopEffect, TypeFacts DEF StepInv
        <4> QED
          BY <4>1 DEF StopMoves
      <3>4. CASE StartBreaks
        BY <3>4, StartBroken DEF StartCutMoves
      <3>5. CASE StopBreaks
        BY <3>5, StopBroken DEF StopCutMoves
      <3>6. CrashMain => StartBreaks \/ StopBreaks
        BY DEF CrashMain, StartBreaks, StopBreaks
      <3> QED
        BY <2>4, <3>1, <3>2, <3>3, <3>4, <3>5, <3>6
        DEF MainStep, StartBreaks, StopBreaks, Start, StartStep, Probe, RunEnds, Stop,
            StopStep, StopAgain
    <2> QED
      BY <2>3, <2>5
  <1> QED
    BY <1>4, <1>5, <1>6

-----------------------------------------------------------------------------
\* A step of a case touches nothing but the installation.
LEMMA CaseKeepsMachine ==
    ASSUME HelperInv, NEW p \in Procs, CaseStep(p) \/ GiveUp(p) \/ CrashCase(p)
    PROVE  StepInv' /\ StateInv' /\ PolicyInv' /\ RestoreInv'
  <1>0. TypeOK /\ StepInv /\ StateInv /\ PolicyInv /\ RestoreInv /\ QuietInv
    BY DEF HelperInv
  <1>1. /\ before' = before /\ faults' = faults /\ phase' = phase /\ step' = step
        /\ starts' = starts /\ cut' = cut /\ OthersSame(m, m')
    BY <1>0, CaseFrame DEF mainVars
  <1>2. StepInv' /\ StateInv'
    BY <1>0, <1>1 DEF StepInv, StateInv, OthersSame
  <1>3. PolicyInv'
    BY <1>0, <1>1 DEF PolicyInv, CopyWhole, OthersSame
  <1>4. RestoreInv'
    <2> SUFFICES ASSUME Sheltered PROVE RestoreInv'
      BY <1>1 DEF RestoreInv, Sheltered
    <2>1. Active(p) \/ phase = "run"
      BY DEF CaseStep, StartCase, TakeLock, Remove, CaseRaises, Recreate, Operate,
             ScenarioEnds, GiveUp, CrashCase, Active
    <2>2. phase = "run"
      BY <1>0, <2>1 DEF QuietInv, Sheltered
    <2>3. BeingRecorded' = BeingRecorded
      BY <1>1 DEF BeingRecorded
    <2> QED
      BY <1>0, <1>1, <2>2, <2>3 DEF RestoreInv, OthersSame
  <1> QED
    BY <1>2, <1>3, <1>4

\* The lock: only its holder goes past it, and it goes free when its holder ends.
LEMMA CaseKeepsLock ==
    ASSUME HelperInv, NEW p \in Procs, CaseStep(p) \/ GiveUp(p) \/ CrashCase(p)
    PROVE  LockInv'
  <1>0. TypeOK /\ StepInv /\ LockInv
    BY DEF HelperInv
  <1>1. phase' = phase /\ starts' = starts
    BY <1>0, CaseFrame DEF mainVars
  <1>2. /\ pc \in [Procs -> Places] /\ round \in [Procs -> 0..MaxStarts]
        /\ lock \in [1..MaxStarts -> Procs \union {"none"}]
    BY <1>0 DEF TypeOK, Places
  <1>3. starts \in Nat /\ starts <= MaxStarts /\ MaxStarts \in Nat
    BY <1>0, TypeFacts, HelperAssumption
  <1>4. \A q \in Procs : /\ pc[q] # "idle" => round[q] \in 1..MaxStarts /\ round[q] \in 1..starts
                         /\ pc[q] \in InLock => lock[round[q]] = q
    BY <1>0, <1>3 DEF LockInv
  <1>5. \A q \in Procs : q # p => pc'[q] = pc[q] /\ round'[q] = round[q]
    BY <1>2 DEF CaseStep, StartCase, TakeLock, Remove, CaseRaises, Recreate, Operate,
                ScenarioEnds, GiveUp, CrashCase, CaseVars, procVars
  <1>6. starts <= 1 /\ phase \in {"fresh", "start", "probe"} => \A q \in Procs : pc'[q] = "idle"
    <2>1. ASSUME starts <= 1, phase \in {"fresh", "start", "probe"} PROVE pc[p] = "idle" /\ phase # "run"
      BY <1>0, <2>1 DEF LockInv
    <2>2. pc[p] # "idle" \/ phase = "run"
      BY DEF CaseStep, StartCase, TakeLock, Remove, CaseRaises, Recreate, Operate,
             ScenarioEnds, GiveUp, CrashCase, Active
    <2> QED
      BY <2>1, <2>2
  <1>7. /\ pc'[p] # "idle" => round'[p] \in 1..starts
        /\ pc'[p] \in InLock => lock'[round'[p]] = p
    <2>1. CASE StartCase(p)
      <3>1. pc'[p] = "lock" /\ round'[p] = starts /\ phase = "run"
        BY <1>2, <2>1 DEF StartCase, CaseVars
      <3>2. starts # 0
        BY <1>0, <3>1 DEF StepInv
      <3> QED
        BY <1>3, <3>1, <3>2 DEF InLock
    <2>2. CASE TakeLock(p)
      <3>1. round[p] \in 1..MaxStarts /\ round[p] \in 1..starts /\ round' = round
        BY <1>4, <2>2 DEF TakeLock
      <3>2. lock'[round[p]] = p
        BY <1>2, <2>2, <3>1 DEF TakeLock
      <3> QED
        BY <3>1, <3>2
    <2>3. CASE round' = round /\ pc[p] # "idle" /\ (pc'[p] = "ended" \/ (lock' = lock /\ pc[p] \in InLock))
      BY <1>4, <2>3 DEF InLock
    <2>4. CASE GiveUp(p)
      BY <1>4, <2>4 DEF GiveUp, Active
    <2>5. CASE Remove(p) \/ CaseRaises(p) \/ Recreate(p) \/ Operate(p) \/ ScenarioEnds(p)
               \/ CrashCase(p)
      <3>1. round' = round /\ pc[p] # "idle"
        BY <2>5 DEF Remove, CaseRaises, Recreate, Operate, ScenarioEnds, CrashCase, Active, procVars
      <3>2. pc'[p] = "ended" \/ (lock' = lock /\ pc[p] \in InLock)
        BY <1>2, <2>5 DEF Remove, CaseRaises, Recreate, Operate, ScenarioEnds, CrashCase,
                          CaseVars, InLock, procVars
      <3> QED
        BY <2>3, <3>1, <3>2
    <2> QED
      BY <2>1, <2>2, <2>4, <2>5 DEF CaseStep
  <1>8. ASSUME NEW q \in Procs, q # p, pc[q] \in InLock
        PROVE  lock'[round[q]] = q
    <2>1. lock[round[q]] = q /\ round[q] \in 1..MaxStarts /\ q # "none"
      BY <1>4, <1>8, HelperAssumption DEF InLock
    <2>2. \/ lock' = lock
          \/ TakeLock(p)
          \/ lock' = [lock EXCEPT ![round[p]] = "none"] /\ pc[p] \in InLock
          \/ lock' = [g \in DOMAIN lock |-> IF lock[g] = p THEN "none" ELSE lock[g]]
      BY DEF CaseStep, StartCase, TakeLock, Remove, CaseRaises, Recreate, Operate,
             ScenarioEnds, GiveUp, CrashCase, procVars, InLock
    <2>3. CASE TakeLock(p)
      BY <1>2, <2>1, <2>3 DEF TakeLock
    <2>4. CASE lock' = [lock EXCEPT ![round[p]] = "none"] /\ pc[p] \in InLock
      <3>1. lock[round[p]] = p
        BY <1>4, <2>4
      <3> QED
        BY <1>2, <1>8, <2>1, <2>4, <3>1
    <2>5. CASE lock' = [g \in DOMAIN lock |-> IF lock[g] = p THEN "none" ELSE lock[g]]
      BY <1>2, <1>8, <2>1, <2>5
    <2> QED
      BY <2>1, <2>2, <2>3, <2>4, <2>5
  <1> QED
    <2> SUFFICES ASSUME NEW q \in Procs
                 PROVE  /\ pc'[q] # "idle" => round'[q] \in 1..starts
                        /\ pc'[q] \in InLock => lock'[round'[q]] = q
                        /\ starts <= 1 /\ phase \in {"fresh", "start", "probe"} => pc'[q] = "idle"
      BY <1>1 DEF LockInv
    <2>1. CASE q = p
      BY <1>6, <1>7, <2>1
    <2>2. CASE q # p
      BY <1>4, <1>5, <1>6, <1>8, <2>2
    <2> QED
      BY <2>1, <2>2

\* Who is in the lock of the only round, or active without a fault, is alone.
Alone(p) == \A q \in Procs \ {p} : pc[q] \notin InLock

LEMMA HoldersAreAlone ==
    ASSUME TypeOK, LockInv, QuietInv, "orphan" \notin faults \/ starts = 1,
           NEW p \in Procs, pc[p] \in InLock
    PROVE  Alone(p)
  <1> SUFFICES ASSUME NEW q \in Procs, q # p, pc[q] \in InLock PROVE FALSE
    BY DEF Alone
  <1>1. CASE "orphan" \notin faults
    BY <1>1 DEF QuietInv, Active, InLock
  <1>2. CASE starts = 1
    <2>1. round[p] \in 1..1 /\ round[q] \in 1..1 /\ lock[round[p]] = p /\ lock[round[q]] = q
      BY <1>2 DEF LockInv, InLock
    <2>2. round[p] = round[q]
      BY <2>1
    <2> QED
      BY <2>1, <2>2
  <1> QED
    BY <1>1, <1>2

LEMMA CaseKeepsOthers ==
    ASSUME HelperInv, NEW p \in Procs, CaseStep(p) \/ GiveUp(p) \/ CrashCase(p)
    PROVE  QuietInv' /\ CaseInv'
  <1>0. TypeOK /\ LockInv /\ QuietInv /\ CaseInv
    BY DEF HelperInv
  <1>1. /\ faults' = faults /\ phase' = phase /\ starts' = starts
        /\ m'.installation # m.installation =>
              pc[p] \in InLock /\ (m'.installation \in {"clean", "absent"}
                                     \/ (pc[p] = "scenario" /\ m'.installation = p))
    BY <1>0, CaseFrame DEF mainVars
  <1>2. pc \in [Procs -> Places]
    BY <1>0 DEF TypeOK, Places
  <1>3. \A q \in Procs : q # p => pc'[q] = pc[q]
    BY <1>2 DEF CaseStep, StartCase, TakeLock, Remove, CaseRaises, Recreate, Operate,
                ScenarioEnds, GiveUp, CrashCase, CaseVars, procVars
  <1>4. QuietInv'
    <2> SUFFICES ASSUME "orphan" \notin faults PROVE QuietInv'
      BY <1>1 DEF QuietInv
    <2>1. /\ orphan = {}
          /\ phase # "run" => \A q \in Procs : ~ Active(q)
          /\ \A q, r \in Procs : Active(q) /\ Active(r) => q = r
      BY <1>0 DEF QuietInv
    <2>2. orphan' = orphan
      BY DEF CaseStep, StartCase, TakeLock, Remove, CaseRaises, Recreate, Operate,
             ScenarioEnds, GiveUp, CrashCase, procVars
    <2>3. (phase = "run" /\ \A q \in Procs : ~ Active(q)) \/ Active(p)
      BY <2>1 DEF CaseStep, StartCase, TakeLock, Remove, CaseRaises, Recreate, Operate,
                  ScenarioEnds, GiveUp, CrashCase, Active
    <2>4. phase = "run" /\ \A q \in Procs : q # p => ~ Active(q)
      BY <2>1, <2>3
    <2>5. \A q \in Procs : q # p => ~ Active(q)'
      BY <1>3, <2>4 DEF Active
    <2> QED
      BY <1>1, <2>1, <2>2, <2>4, <2>5 DEF QuietInv
  <1>5. CaseInv'
    <2> SUFFICES ASSUME "orphan" \notin faults \/ starts = 1, NEW q \in Procs, pc'[q] = "scenario"
                 PROVE  m'.installation \in {"clean", "absent", q}
      BY <1>1 DEF CaseInv
    <2>1. CASE q # p
      <3>1. pc[q] = "scenario" /\ pc[q] \in InLock
        BY <1>3, <2>1 DEF InLock
      <3>2. pc[p] \notin InLock
        BY <1>0, <2>1, <3>1, HoldersAreAlone DEF Alone
      <3> QED
        BY <1>0, <1>1, <3>1, <3>2 DEF CaseInv
    <2>2. CASE q = p
      <3>1. CASE m'.installation # m.installation
        BY <1>1, <2>2, <3>1
      <3>2. CASE m'.installation = m.installation
        <4>1. pc[p] = "scenario" \/ m'.installation = "clean"
          <5>1. CASE Recreate(p)
            <6>1. m \in MachineType /\ "clean" \in Installations
              BY <1>0, TypeFacts DEF Installations
            <6> QED
              BY <5>1, <6>1, SetInstallation DEF Recreate
          <5>2. CASE ~ Recreate(p)
            BY <1>2, <2>2, <5>2 DEF CaseStep, StartCase, TakeLock, Remove, CaseRaises, Operate,
                ScenarioEnds, GiveUp, CrashCase, CaseVars, procVars
          <5> QED
            BY <5>1, <5>2
        <4> QED
          BY <1>0, <2>2, <3>2, <4>1 DEF CaseInv
      <3> QED
        BY <3>1, <3>2
    <2> QED
      BY <2>1, <2>2
  <1> QED
    BY <1>4, <1>5

-----------------------------------------------------------------------------
LEMMA HelperStep == HelperInv /\ [Next]_vars => HelperInv'
  <1> SUFFICES ASSUME HelperInv, [Next]_vars PROVE HelperInv'
    OBVIOUS
  <1>1. CASE MainStep \/ CrashMain
    <2>1. StepInv' /\ StateInv' /\ PolicyInv' /\ RestoreInv'
      BY <1>1, StartKeeps, StartStepKeeps, StartBreaksKeeps, ProbeKeeps, StopStepKeeps,
         StopBreaksKeeps, PauseKeeps
      DEF MainStep, CrashMain, StartBreaks, StopBreaks
    <2> QED
      BY <1>1, <2>1, MainType, MainCases DEF HelperInv
  <1>2. ASSUME NEW p \in Procs, CaseStep(p) \/ GiveUp(p) \/ CrashCase(p) PROVE HelperInv'
    BY <1>2, CaseType, CaseKeepsMachine, CaseKeepsLock, CaseKeepsOthers DEF HelperInv
  <1>3. CASE UNCHANGED vars
    <2>1. /\ m' = m /\ before' = before /\ faults' = faults /\ cut' = cut
          /\ phase' = phase /\ step' = step /\ starts' = starts /\ pc' = pc /\ orphan' = orphan /\ lock' = lock /\ round' = round
      BY <1>3 DEF vars
    <2>2. TypeOK'
      BY <2>1 DEF HelperInv, TypeOK
    <2>3. StepInv'
      BY <2>1 DEF HelperInv, StepInv
    <2>4. StateInv' /\ PolicyInv'
      BY <2>1 DEF HelperInv, StateInv, PolicyInv, CopyWhole
    <2>5. LockInv'
      BY <2>1 DEF HelperInv, LockInv
    <2>6. QuietInv'
      BY <2>1 DEF HelperInv, QuietInv, Active
    <2>7. CaseInv'
      BY <2>1 DEF HelperInv, CaseInv
    <2>8. RestoreInv'
      BY <2>1 DEF HelperInv, RestoreInv, Sheltered, Undone, BeingRecorded
    <2> QED
      BY <2>2, <2>3, <2>4, <2>5, <2>6, <2>7, <2>8 DEF HelperInv
  <1> QED
    BY <1>1, <1>2, <1>3 DEF Next, Finished

LEMMA HelperAlways == Spec => []HelperInv
  BY HelperInit, HelperStep, PTL DEF Spec

\* ci/system_helper.py:199-211: only paths and users that stop() accepts are ever recorded,
\* for any number of cases and provisioning rounds.
THEOREM HelperTypes == Spec => []TypeOK
  <1>1. HelperInv => TypeOK
    BY DEF HelperInv
  <1> QED
    BY HelperAlways, <1>1, PTL

\* ci/system_helper.py:104-107, 199-205: wherever start() or stop() raises or is killed, the
\* original polkit policy is in place or whole in the state directory, unless that is while
\* copy2 saves it or while rmtree removes the directory.
THEOREM PolicyIsKept == Spec => []PolicyKept
  <1>1. HelperInv => PolicyKept
    BY DEF HelperInv, PolicyInv, PolicyKept, CopyWhole
  <1> QED
    BY HelperAlways, <1>1, PTL

\* ci/system_helper.py:238-258, 336-341: cases do not meet each other, however many wait
\* for the lock and whichever of them is abandoned or killed.
THEOREM CasesAreClean == Spec => []CaseClean
  <1>1. HelperInv => CaseClean
    <2> SUFFICES ASSUME HelperInv, "orphan" \notin faults \/ starts = 1, NEW p \in Procs, pc[p] = "scenario"
                 PROVE  /\ m.installation \in {"clean", "absent", p}
                        /\ \A q \in Procs \ {p} : pc[q] \in {"idle", "lock", "ended"}
      BY DEF CaseClean
    <2>1. TypeOK /\ LockInv /\ QuietInv /\ CaseInv
      BY DEF HelperInv
    <2>2. Alone(p)
      BY <2>1, HoldersAreAlone DEF InLock
    <2>3. pc \in [Procs -> Places]
      BY <2>1 DEF TypeOK, Places
    <2> QED
      BY <2>1, <2>2, <2>3 DEF CaseInv, Alone, InLock, Places
  <1> QED
    BY HelperAlways, <1>1, PTL

\* docs/ci.md, ci/system_helper.py:61-134, 180-215: a cleanup that reports success has
\* restored the machine (the service account and parent directories aside), whatever
\* commands failed, wherever start() or stop() was killed or met an OSError and however
\* often the cleanup was run, unless run.py abandoned a case or the operation cut short
\* was an exposed one.
THEOREM StopHasRestored == Spec => []StopRestores
  <1>1. HelperInv => StopRestores
    <2> SUFFICES ASSUME HelperInv, "orphan" \notin faults, cut = {}, phase = "stopped"
                 PROVE  [m EXCEPT !.account = before.account, !.dirs = before.dirs] = before
      BY DEF StopRestores, MachineRestored
    <2>1. TypeOK /\ StepInv /\ StateInv /\ RestoreInv
      BY DEF HelperInv
    <2>2. m \in MachineType
      BY <2>1 DEF TypeOK
    <2>3. Undone
      BY <2>1 DEF RestoreInv, Sheltered
    <2>4. PICK policy \in {"none", "original"}, account \in {"none", "present"} :
            before = Pristine(policy, account)
      BY <2>1 DEF StepInv, Untouched
    <2>5. /\ m.lists = {} /\ m.createdFiles = {} /\ m.createdUsers = {} /\ m.marks = {} /\ m.saved = "none"
          /\ m.pid = "none"
      BY <2>1, <2>3 DEF StateInv, Undone
    <2>6. /\ before \in MachineType /\ before.files = {} /\ before.users = {}
          /\ before.installation = "absent" /\ ~ before.helper /\ ~ before.state
          /\ before.createdFiles = {} /\ before.createdUsers = {} /\ before.marks = {}
          /\ before.saved = "none" /\ before.pid = "none" /\ before.lists = {}
      BY <2>1, <2>4 DEF TypeOK, Pristine
    <2> DEFINE g == [m EXCEPT !.account = before.account, !.dirs = before.dirs]
    <2>7. g \in MachineType
      BY <2>2, <2>6 DEF MachineType
    <2>8. /\ g.files = m.files /\ g.policy = m.policy /\ g.users = m.users
          /\ g.account = before.account /\ g.installation = m.installation
          /\ g.createdFiles = m.createdFiles /\ g.createdUsers = m.createdUsers
          /\ g.marks = m.marks /\ g.saved = m.saved
          /\ g.dirs = before.dirs /\ g.lists = m.lists /\ g.pid = m.pid
      BY <2>2, <2>6 DEF MachineType
    <2>9. g.helper = m.helper /\ g.state = m.state
      BY <2>2, <2>6 DEF MachineType
    <2> HIDE DEF g
    <2>10. /\ g.files = before.files /\ g.policy = before.policy /\ g.users = before.users
           /\ g.account = before.account /\ g.installation = before.installation
           /\ g.createdFiles = before.createdFiles /\ g.createdUsers = before.createdUsers
           /\ g.marks = before.marks /\ g.saved = before.saved
           /\ g.dirs = before.dirs /\ g.lists = before.lists /\ g.pid = before.pid
      BY <2>3, <2>5, <2>6, <2>8 DEF Undone
    <2>11. g.helper = before.helper
      BY <2>3, <2>6, <2>7, <2>9 DEF Undone, MachineType
    <2>12. g.state = before.state
      BY <2>3, <2>6, <2>7, <2>9 DEF Undone, MachineType
    <2>13. g = before
      BY <2>6, <2>7, <2>10, <2>11, <2>12 DEF MachineType
    <2> QED
      BY <2>13 DEF g
  <1> QED
    BY HelperAlways, <1>1, PTL
=============================================================================
