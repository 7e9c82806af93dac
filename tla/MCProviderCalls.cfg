SPECIFICATION FairSpec
CONSTANTS
    Planners = {p1, p2}
    Limit = 1
    Configs <- MCConfigs
    HistoryLimit = 2
    Timed = TRUE
    MaxDecisions = 2
    MaxRequests = 3
    MaxStrangers = 1
CHECK_DEADLOCK FALSE
INVARIANTS SlotsConserved PendingIsStored OutcomeAgrees
PROPERTIES EveryDecisionEnds
