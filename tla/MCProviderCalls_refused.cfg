SPECIFICATION FairSpec
CONSTANTS
    Planners = {p1}
    Limit = 1
    Configs <- MCConfigs
    HistoryLimit = 2
    Timed = TRUE
    MaxDecisions = 1
    MaxRequests = 3
    MaxStrangers = 0
CHECK_DEADLOCK FALSE
INVARIANTS NeverBackToRefused
