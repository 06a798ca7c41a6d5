SPECIFICATION FairCliSpec
CONSTANTS
    Malformed = Malformed
    NotAReport = NotAReport
    Unset = Unset
    Check <- MCCheck
    AreaOf <- MCAreaOf
    FindingId <- MCFindingId
    Returns <- MCReturns
    Selections <- MCSelections
    Registry <- MCRegistry
    Invocations <- MCInvocations
    Unencodables <- MCUnencodables
    BaselineDocs <- MCBaselineDocs
INVARIANTS
    CliTypeOK
    ExitStatusExplained
    ScoreAgreesWithExit
    SarifErrorsAreHighFailures
    FaultIsolated
    ScanIsWhatWasAsked
    PrintedReportIsComplete
PROPERTIES
    Exits
CHECK_DEADLOCK FALSE
