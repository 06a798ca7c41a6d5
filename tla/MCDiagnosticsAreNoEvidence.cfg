SPECIFICATION Spec
CONSTANTS
    Checks <- CheckName
    services <- MCServices
    repositories <- MCRepositories
    Answers <- MCAnswers
    MaxChanges = 0
INVARIANTS
    DiagnosticsAreNoEvidence
CHECK_DEADLOCK FALSE
