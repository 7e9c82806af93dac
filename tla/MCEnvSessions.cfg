SPECIFICATION MCSpec
CONSTANTS
    Handles = {h1, h2}
    Urls = {u1}
    NoUrl = NoUrl
    PoolMax = 1
    SingleUse = FALSE
    Sessions = {s1}
    Threads = {t1, t2, t3}
    Locks = {l1, l2}
    None = None
    Second = h2
    Third = t3
    MaxCalls = 4
    MaxSweeps = 1
INVARIANTS TypeOK ControlExclusion QuietControlOnOpen QuietOpenIsReachable
PROPERTIES QuietUsesPoolCorrectly EveryCallReturns IdleIsSwept
