CONSTANTS
    NodeId <- AnyNodes
    Config <- AnyConfig
    Planned <- AnyPlanned
    UsesLinkFragments <- PlanLinked
    UsesAssets = {}
    Order = {}
SPECIFICATION Spec
\* A command ends.
CHECK_DEADLOCK FALSE
INVARIANT PanicBecomesError
