SPECIFICATION Spec
CONSTANTS
    Checks <- AllChecks
    Node <- MCNode
    RootsOf <- MCRootsOf
    Place <- MCPlace
    Parent <- MCParent
    Trees <- MCTrees
    ChangedMetas <- MCChangedMetas
    maximum_paths = 2
    evidence_limit = 1
    MaxChanges = 0
INVARIANTS
    UnreadableNeverPasses
CHECK_DEADLOCK FALSE
