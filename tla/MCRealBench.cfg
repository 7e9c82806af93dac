SPECIFICATION Spec
CONSTANTS
    Procs = {p1, p2, p3}
    None = None
    MaxEnvs = 4
    MaxCrashes = 3
CHECK_DEADLOCK FALSE
INVARIANTS HardwareUnderLock LockFollowsEnv
