SPECIFICATION FairSpec
CONSTANTS
    Rules <- MCRules
    Channels <- MCChannels
    OwnTargets <- MCOwn
    Cron = {cron}
    Fires = {fire}
    MaxFaults = 1
CHECK_DEADLOCK FALSE
INVARIANTS
    TypeOK
    AlertBurstBounded
PROPERTIES
    TargetsAreCurrent
    AlertKeepsReaching
