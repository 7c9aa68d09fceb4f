SPECIFICATION FairSpec
CONSTANTS
    Handlers = {h1, h2}
    Keys = {k1}
    Configs <- MCConfigs
    UsageLimit = 2
    BudgetLimit = 1
    RateMax = 1
    RateWindow = 1
    ReplayTTL = 2
    MaxCalls = 3
INVARIANTS
    TypeOK
    LimitsHold
    DuplicateAllowedOnce
    AnswersJustified
PROPERTIES
    RateLimitRecovers
