SPECIFICATION MCSpec
CONSTANTS
    Frames = {k1, k2}
    Callers = {c1, c2}
    MaxEntries = 1
    MaxInferences = 3
    Sessions = {s1, s2}
    None = None
    RetainedActions = 1
    Tearing = {s2}
    Bystanders = {s2}
    MaxOps = 4
    MaxCrashes = 1
    Commands = {r0, r1, r2, r3}
    Batch = r0
    NoFile = NoFile
CHECK_DEADLOCK FALSE
INVARIANTS OneInferencePerFrame TypeOK NothingStandsAlone IndexBehindByCrashes QuestionKept AnswersAgree
PROPERTIES NoStaleFailure EveryCallAnswered ConversationIsLog
