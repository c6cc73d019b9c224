\* Every family of inputs; a cap and a plan small enough to be reached.
CONSTANTS
  Node <- MCNode
  Kind <- MCKind
  Name <- MCName
  Inputs <- MCInputs
  Root = 0
  PathCap = 3
  PlanDepth = 2
  NoNode = NoNode
SPECIFICATION Spec
INVARIANTS
  ComponentsExact
  CountsExact
  InstalledIsReached
  BumpAloneClears
  PickIsCanonical
  PlanHonest
PROPERTIES
  MergeDeclaresNothing
  Terminates
\* The analysis ends with its report.
CHECK_DEADLOCK FALSE
