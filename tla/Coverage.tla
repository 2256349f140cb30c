------------------------------ MODULE Coverage ------------------------------
(***************************************************************************)
(* The reporting policy of coverage_report.py: when a saved run report is  *)
(* trusted (`verification') and which requirements, surfaces and           *)
(* equivalent options its passing cases then earn.  The operators are pure *)
(* functions of a report, used by the runner on the report in memory and   *)
(* by `coverage_report.py --report' on a saved one.                        *)
(*                                                                         *)
(* A report is a record                                                    *)
(*   definition   the suite fingerprint, or NoDefinition                   *)
(*   complete     report["complete"]                                       *)
(*   provenance   which attribution blocks are present and well formed     *)
(*   integrity    artifact_integrity.status                                *)
(*   results      a function from any index set to result records with     *)
(*                case, status, evidence and cleanup, the set of           *)
(*                "complete" (cleanup_complete is True) and "error"        *)
(*                (a nonempty cleanup_error)                               *)
(***************************************************************************)
EXTENDS Naturals, Sequences, FiniteSets

CONSTANTS
    Cases,              \* keys (behavior_id, driver, profile) of CoverageModel.cases
    DriverOf,           \* [Cases -> {"cli", "library"}]
    Requirements,       \* identifiers of the requirement catalogue
    Surfaces,           \* identifiers of the interface catalogue
    SurfaceKind,        \* [Surfaces -> kinds]
    ReqSurfaces,        \* [Requirements -> SUBSET Surfaces]
    Mapping,            \* [Cases -> SUBSET Requirements]
    SurfaceAssertions,  \* [Cases -> SUBSET Surfaces]
    EquivalentOptions,  \* [Cases -> SUBSET Surfaces], options only
    OptionOf,           \* [Surfaces -> <<command, option>>], meaningful for cli options
    SelectedCli,        \* target_provenance.cli_path
    Dashes,             \* the argument tokens that start with "-"
    ValueForms,         \* <<argument, option>> where the argument is option=value
    NoDefinition

Statuses == {"passed", "failed", "setup-error", "unmet-prerequisite",
             "unsupported", "not-selected"}

Attribution == {"target", "adapter", "fixture"}

ASSUME CatalogueAssumption ==
    /\ DriverOf \in [Cases -> {"cli", "library"}]
    /\ SurfaceKind \in [Surfaces -> {"cli-command", "cli-option",
                                     "library-function", "library-signal"}]
    /\ ReqSurfaces \in [Requirements -> SUBSET Surfaces]
    /\ Mapping \in [Cases -> SUBSET Requirements]
    /\ SurfaceAssertions \in [Cases -> SUBSET Surfaces]
    /\ EquivalentOptions \in [Cases -> SUBSET Surfaces]

-----------------------------------------------------------------------------
\* invoked_option: the selected CLI, directly or as the tail of a wrapper's
\* command line, called with the command and the option before any payload.
Inner(record) ==
    IF record.argv[1] = SelectedCli THEN record.argv ELSE record.cli_argv

IsTail(inner, argv) ==
    /\ Len(inner) <= Len(argv)
    /\ \A i \in 1..Len(inner) : inner[i] = argv[Len(argv) - Len(inner) + i]

Names(argument, option) == argument = option \/ <<argument, option>> \in ValueForms

InvokedOption(record, option) ==
    LET argv == Inner(record)
    IN  /\ record.interface = "cli"
        /\ record.argv # << >>
        /\ argv # << >> /\ argv[1] = SelectedCli /\ IsTail(argv, record.argv)
        /\ Len(argv) >= 2 /\ argv[2] = OptionOf[option][1]
        /\ \E i \in 3..Len(argv) :
              /\ Names(argv[i], OptionOf[option][2])
              /\ \A j \in 3..i : argv[j] \in Dashes /\ argv[j] # "--"

-----------------------------------------------------------------------------
\* subject_problem: attribution and command evidence behind passing results.
Passing(report) == {i \in DOMAIN report.results : report.results[i].status = "passed"}

EvidenceProblem(result) ==
    \/ result.evidence = {}
    \/ \E e \in result.evidence : ~ e.answered
    \/ ~ \E e \in result.evidence : e.interface = DriverOf[result.case]

SubjectProblem(report) ==
    /\ Passing(report) # {}
    /\ \/ ~ (Attribution \subseteq report.provenance)
       \/ /\ \E i \in Passing(report) : DriverOf[report.results[i].case] = "library"
          /\ "library" \notin report.provenance
       \/ report.integrity # "verified"
       \/ \E i \in Passing(report) : EvidenceProblem(report.results[i])

-----------------------------------------------------------------------------
\* summarize: the verification ladder, in the order of the code's tests.
OneResultPerCase(report) ==
    /\ \A i, j \in DOMAIN report.results :
          report.results[i].case = report.results[j].case => i = j
    /\ {report.results[i].case : i \in DOMAIN report.results} = Cases

\* Mutant: trusts the status of a passed case without its cleanup confirmation.
TrustsStatus(report) ==
    \E i \in DOMAIN report.results : report.results[i].status \notin Statuses

UnfinishedOrUnclean(report) ==
    \E i \in DOMAIN report.results :
       LET r == report.results[i]
       IN  \/ r.status \notin Statuses
           \/ r.status = "passed" /\ r.cleanup # {"complete"}

\* `current' is self.definition, `now' a fresh snapshot() of the suite's files.
Verification(report, current, now) ==
    CASE report.definition = NoDefinition                    -> "unversioned"
      [] /\ report.definition # NoDefinition
         /\ report.definition # current \/ now # current     -> "stale"
      [] OTHER ->
         IF ~ report.complete THEN "incomplete"
         ELSE IF \/ ~ OneResultPerCase(report)
                 \/ UnfinishedOrUnclean(report)
                 \/ SubjectProblem(report)
              THEN "invalid"
              ELSE "current"

-----------------------------------------------------------------------------
\* summarize: what one passing result earns once the report is current.
ObservedCalls(result) ==
    UNION {e.calls : e \in {x \in result.evidence : x.interface = "library"}}

ObservedSignals(result) ==
    UNION {e.signals : e \in {x \in result.evidence : x.interface = "library"}}

CreditedSurfaces(result) ==
    {s \in SurfaceAssertions[result.case]
             \union UNION {ReqSurfaces[q] : q \in Mapping[result.case]} :
        /\ SurfaceKind[s] = "library-function" => s \in ObservedCalls(result)
        /\ SurfaceKind[s] = "library-signal" => s \in ObservedSignals(result)}

CreditedOptions(result) ==
    {s \in EquivalentOptions[result.case] :
        \E e \in result.evidence : InvokedOption(e, s)}

Credit(report, current, now) ==
    IF Verification(report, current, now) # "current"
    THEN [requirements |-> {}, surfaces |-> {}, options |-> {}]
    ELSE LET earned == {report.results[i] : i \in Passing(report)}
         IN  [requirements |-> UNION {Mapping[r.case] : r \in earned},
              surfaces     |-> UNION {CreditedSurfaces(r) : r \in earned},
              options      |-> UNION {CreditedOptions(r) : r \in earned}]
=============================================================================
