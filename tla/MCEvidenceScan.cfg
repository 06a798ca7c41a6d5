SPECIFICATION FairSpec
CONSTANTS
    DropIn <- MCDropIn
    Backup <- MCBackup
    SecurePath <- MCSecurePath
    Chain <- MCChain
    Misplaced <- MCMisplaced
    Service <- MCService
    Executable <- MCExecutable
    ExecutionPath <- MCExecutionPath
    Family <- MCFamily
    Profiles <- MCProfiles
    Extensions <- MCExtensions
    Extension <- MCExtension
    Minimum <- MCMinimum
    SeverityOf <- MCSeverityOf
    Expected <- MCExpected
    BootVariable <- MCBootVariable
    Database <- MCDatabase
    Devices <- MCDevices
    maximum_age_days = 2
    Possible <- MCPossible
    InitialWorlds <- MCInitialWorlds
    MaxChanges <- MCMaxChanges
INVARIANTS
    TypeOK
    ExposureIsReported
    PrivilegeDecides
    VerdictWasReal
    BlindSpotShows
PROPERTIES
    ImplementsContract
    Concludes
CHECK_DEADLOCK FALSE
