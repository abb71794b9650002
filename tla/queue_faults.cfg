SPECIFICATION Spec
CONSTANTS
    Message = {m1, m2, m3}
    Ordinary = {m2, m3}
    Slot = {s1, s2}
    Host = {h1}
    Misrouted = {m1}
    HealthCheck = {}
    MaxAttempts = 2
    MaxHops = 2
    MaxSleeps = 0
    MaxDirect = 0
    MaxFaults = 2
    MaxLate = 0
    None = None
SYMMETRY Sym
INVARIANTS
    OneRunnerPerJob
    OneLossPerFetch
