SPECIFICATION FairSpec
CONSTANTS
    Checks <- CheckName
    services <- MCServices
    repositories <- MCRepositories
    Answers <- MCAnswers
    MaxChanges = 2
INVARIANTS
    TypeOK
    NoEvidenceNoVerdict
    OverrideNeverMasked
    PassIsEarned
    ActiveFirewallPasses
    SettingsNeedAServer
PROPERTIES
    Concludes
CHECK_DEADLOCK FALSE
