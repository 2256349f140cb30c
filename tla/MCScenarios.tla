---------------------------- MODULE MCScenarios ----------------------------
\* The programs of all scenario files, for TLC.
EXTENDS Scenarios, CliManagement, Transactions

Maintained == INSTANCE Maintenance
Extra == INSTANCE LifecycleExtra
Contracted == INSTANCE Contracts
Repaired == INSTANCE Repairs
Optional == INSTANCE Options
Distributed == INSTANCE Distribution
Served == INSTANCE Services

Several == Maintained!SelectorNames

AllPrograms ==
    [n \in ManagementNames |-> management_run(n)]
    @@ [n \in TransactionNames |-> transaction_run(n)]
    @@ [n \in Several |-> Maintained!selectors_run(n)]
    @@ [n \in Maintained!MaintenanceNames |-> Maintained!maintenance_run(n)]
    @@ [n \in Extra!Names |-> Extra!run(n)]
    @@ [n \in Contracted!Names |-> Contracted!run(n)]
    @@ [n \in Repaired!Names |-> Repaired!run(n)]
    @@ [n \in Optional!Names |-> Optional!run(n)]
    @@ [n \in Distributed!Names |-> Distributed!run(n)]
    @@ [n \in Served!Names |-> Served!run(n)]
=============================================================================
