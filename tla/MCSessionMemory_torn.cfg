SPECIFICATION Spec
CONSTANTS
    Sessions = {s1, s2}
    None = None
    RetainedActions = 1
    Tearing = {s1, s2}
    Bystanders = {s2}
    MaxOps = 4
    MaxCrashes = 1
CHECK_DEADLOCK FALSE
INVARIANTS ResumeSucceeds
