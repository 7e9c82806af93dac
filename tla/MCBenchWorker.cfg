SPECIFICATION Spec
CONSTANTS
    Handles = {h1, h2}
    Requests = {r1, r2, r3}
    Locks = {l1, l2, l3}
    None = None
    Ops = {"create", "step", "reset", "observe", "close", "render_all"}
    MaxReqs = 4
    MaxSteps = 2
INVARIANTS TypeOK StepOnlyLive TerminalResultExact
PROPERTIES EveryRequestAnswered
