SPECIFICATION CacheSpec
CONSTANTS
    Envs = {h1}
    Renderers = {r1}
    Kinds = {"plain"}
    RenderMayFail = TRUE
    MaxSteps = 2
INVARIANTS CleanIsCurrent
