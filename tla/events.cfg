SPECIFICATION Spec
CONSTANTS
    r1 = r1
    r2 = r2
    s1 = s1
    h1 = h1
    h2 = h2
    w1 = w1
    t1 = t1
    Run = {r1, r2}
    Step = {s1}
    Hook = {h1, h2}
    Wait = {w1}
    Token = {t1}
    StepRun <- InRunOne
    WaitRun <- WaitInRunOne
    HookRun <- RivalHooks
    HookToken <- SameToken
    MaxLog <- ShortLogs
    None = None
INVARIANTS
    TypeOK
    ViewIsReplay
    ClaimsMatchHooks
    EndedRunsAreClean
    SettledOnce
    WaitIdsNotReused
PROPERTIES
    EndIsFinal
CHECK_DEADLOCK FALSE
