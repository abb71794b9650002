SPECIFICATION Spec
CONSTANTS
    r1 = r1
    s1 = s1
    s2 = s2
    s3 = s3
    h1 = h1
    w1 = w1
    t1 = t1
    p1 = p1
    p2 = p2
    Run = {r1}
    Step = {s1, s2, s3}
    Hook = {h1}
    Wait = {w1}
    Token = {t1}
    StepRun <- RunOfSteps
    HookRun <- RunOfHook
    WaitRun <- RunOfWait
    HookToken <- TokenOfHook
    MaxLog <- LongLogs
    Programs <- AllPrograms
    Worker = {p1, p2}
    MaxRetries <- NoRetries
    Keyed = TRUE
    Losses = {FALSE}
    MaxEarly = 1
    MaxStarts = 1
    MaxFailures = 1
    MaxFaults = 1
    None = None
SYMMETRY Sym
INVARIANTS
    
    HangsOnlyIfStranded
CHECK_DEADLOCK FALSE
