SPECIFICATION Spec
CONSTANTS
    c1 = c1
    c2 = c2
    c3 = c3
    a = a
    b = b
    r1 = r1
    s1 = s1
    h1 = h1
    h2 = h2
    w1 = w1
    t1 = t1
    Caller = {c1, c2, c3}
    Host = {a, b}
    HostOf <- Hosts
    Run = {r1}
    Step = {s1}
    Hook = {h1, h2}
    Wait = {w1}
    Token = {t1}
    StepRun <- StepOfRun
    HookRun <- HooksOfRun
    WaitRun <- WaitOfRun
    HookToken <- Tokens
    Scenes <- AllScenes
    MaxLog = 20
    MaxFailures = 1
    MaxExpiries = 1
    MaxGiveUps = 1
    MaxCrashes = 1
    Orphan = Orphan
    None = None
INVARIANTS
    TypeOK
    DecidedIsWritten
    IndexesMatch
    HostExclusion
    Exclusion
    SettledByOneEvent
    LogIsApplied
PROPERTIES
    ImplementsEvents
    ReleaseSparesOthers
CHECK_DEADLOCK FALSE
