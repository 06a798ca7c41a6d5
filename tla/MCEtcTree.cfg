SPECIFICATION FairSpec
CONSTANTS
    Checks <- AllChecks
    Node <- MCNode
    RootsOf <- MCRootsOf
    Place <- MCPlace
    Parent <- MCParent
    Trees <- MCTrees
    ChangedMetas <- MCChangedMetas
    maximum_paths = 2
    evidence_limit = 1
    MaxChanges = 1
INVARIANTS
    TypeOK
    PlainSightNeverPasses
    TruncationIsVisible
    FindingsAreBounded
    BrokenWalkIsVisible
PROPERTIES
    Ends
CHECK_DEADLOCK FALSE
