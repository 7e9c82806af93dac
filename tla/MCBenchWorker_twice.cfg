SPECIFICATION Spec
CONSTANTS
    Handles = {h1}
    Requests = {r1, r2}
    Locks = {l1, l2}
    None = None
    Ops = {"create", "close"}
    MaxReqs = 3
    MaxSteps = 1
PROPERTIES LoopStaysResponsive
