SPECIFICATION Spec
CONSTANTS
    Checks <- CheckName
    Names <- MCNames
    Ignored <- MCIgnored
    FixedNames <- MCNames
    DirMetas <- MCDirMetas
    Metas <- MCMetas
    MaxChanges = 0
INVARIANTS
    NotApplicableIsEstablished
CHECK_DEADLOCK FALSE
