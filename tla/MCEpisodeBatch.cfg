SPECIFICATION MCSpec
CONSTANTS
    Episodes = {e1, e2}
    Second = e2
    Concurrency = 1
    BaseTurns = 1
    BranchTurns = 2
    RecoveryTurns = 1
    Attempts = 2
    Faults = {"transient", "fatal"}
INVARIANTS ClosedOnce NothingLeft
PROPERTIES LateTurnNeverCommits KeepsLedger EveryEpisodeSettles
