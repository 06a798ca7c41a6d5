SPECIFICATION CycleSpec
CONSTANTS
    Malformed = Malformed
    NotAReport = NotAReport
    NoReport = NoReport
    Outcomes <- MCOutcomes
    Selections <- Everything
    Filters <- Unfiltered
INVARIANTS
    ResolvedIsEstablished
