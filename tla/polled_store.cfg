SPECIFICATION Spec
CONSTANTS
    r1 = r1
    r2 = r2
    s1 = s1
    h1 = h1
    h2 = h2
    h3 = h3
    w1 = w1
    w2 = w2
    t1 = t1
    t2 = t2
    Run = {r1, r2}
    Step = {s1}
    Hook = {h1, h2, h3}
    Wait = {w1, w2}
    Token = {t1, t2}
    StepRun <- StepOfRun
    HookRun <- RunOfHook
    WaitRun <- RunOfWait
    HookToken <- TokenOfHook
    Caller = {c1, c2}
    Layouts = {"keys", "rows"}
    Starts <- Begins
    MaxCalls = 3
    MaxFaults = 1
    None = None
INVARIANTS
    LogIsApplied
    IndexIsTrue
    OneStrayPerFault
CHECK_DEADLOCK FALSE
