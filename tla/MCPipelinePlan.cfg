CONSTANTS
    NodeId <- PlanNodes
    Config <- PlanConfig
    Planned <- PlanPlanned
    UsesLinkFragments <- PlanLinked
    UsesAssets <- PlanAssets
    Order <- ConnectivityFirst
SPECIFICATION Spec
\* A command ends.
CHECK_DEADLOCK FALSE
INVARIANTS
    TypeOK
    ModuleBarrier
    PlansWhenModulesDo
    SuccessIsComplete
    UnnamedEndsCut
