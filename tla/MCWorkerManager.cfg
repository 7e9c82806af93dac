SPECIFICATION MCSpec
CONSTANTS
    Handles = {h1, h2, h3}
    Urls = {u1, u2, u3}
    NoUrl = NoUrl
    PoolMax = 2
    SingleUse = FALSE
    Envs = {h1, h2}
    Second = h2
    Renderers = {r1, r2}
    Kinds = {"plain", "goal", "badreset"}
    RenderMayFail = FALSE
    MaxSteps = 2
INVARIANTS SlotAccounting NoSlotLeaks CacheTypeOK
PROPERTIES SpreadsLoad RenderNeverGoesBack DeferredGetsCurrent
