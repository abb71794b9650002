SPECIFICATION Spec
CONSTANTS
    Message = {m1, m2, m3}
    Ordinary = {m2, m3}
    Slot = {s1, s2}
    Host = {h1, h2}
    Misrouted = {}
    HealthCheck = {m1}
    MaxAttempts = 2
    MaxHops = 3
    MaxSleeps = 1
    MaxDirect = 1
    MaxFaults = 0
    MaxLate = 0
    None = None
SYMMETRY Sym
INVARIANTS
    TypeOK
    AttemptsAccounted
    NoResidue
PROPERTIES
    ImplementsDurableQueue
