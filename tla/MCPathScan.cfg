SPECIFICATION FairSpec
CONSTANTS
    Checks <- CheckName
    Names <- MCNames
    Ignored <- MCIgnored
    FixedNames <- MCNames
    DirMetas <- MCDirMetas
    Metas <- MCMetas
    MaxChanges = 2
INVARIANTS
    TypeOK
    PersistentExposureFails
    FailureWasReal
    PassWasEarned
    HiddenPathShows
PROPERTIES
    ImplementsContract
    Concludes
CHECK_DEADLOCK FALSE
