SPECIFICATION Spec
CONSTANTS
  Cases <- McCases
  DriverOf <- McDriverOf
  ScenarioOf <- McScenarioOf
  Sensitive <- McSensitive
  Requirements <- McRequirements
  Surfaces <- McSurfaces
  SurfaceKind <- McSurfaceKind
  ReqSurfaces <- McReqSurfaces
  Mapping <- McMapping
  SurfaceAssertions <- McSurfaceAssertions
  EquivalentOptions <- McEquivalentOptions
  OptionOf <- McOptionOf
  SelectedCli = "flatpak"
  Dashes <- McDashes
  ValueForms <- McValueForms
  NoDefinition = NoDefinition
  Definition = "suite"
  Drift = "changed-suite"
  HandlerEvidence <- McHandlerEvidence
INVARIANT InterruptedEarnsNothing
