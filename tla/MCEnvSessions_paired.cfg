SPECIFICATION Spec
CONSTANTS
    Handles = {h1, h2}
    Urls = {u1}
    NoUrl = NoUrl
    PoolMax = 1
    SingleUse = FALSE
    Sessions = {s1}
    Threads = {t1, t2}
    Locks = {l1, l2}
    None = None
    MaxCalls = 4
    MaxSweeps = 1
PROPERTIES UsesPoolCorrectly
