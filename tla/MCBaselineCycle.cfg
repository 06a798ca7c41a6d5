SPECIFICATION CycleSpec
CONSTANTS
    Malformed = Malformed
    NotAReport = NotAReport
    NoReport = NoReport
    Outcomes <- MCOutcomes
    Selections <- MCSelections
    Filters <- MCFilters
INVARIANTS
    CycleTypeOK
    FailuresNeverMissed
    LedgerExact
    QuietWhenUnchanged
    DroppedIsAccountedFor
