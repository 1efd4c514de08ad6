CONSTANTS
    NodeId <- PipelineNodes
    Config <- Configuration
    Planned <- Renewal
    UsesLinkFragments <- Configuration
    UsesAssets = {}
    Order <- RenewalChain
SPECIFICATION Spec
\* A command ends.
CHECK_DEADLOCK FALSE
INVARIANT DocumentedOrder
