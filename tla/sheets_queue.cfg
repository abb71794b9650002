SPECIFICATION Spec
CONSTANTS
    Message = {m1, m2, m3}
    Host = {h1}
    Slot = {s1, s2}
    MaxAttempts = 2
    MaxSleeps = 1
    MaxFaults = 1
    None = None
SYMMETRY Sym
INVARIANTS OneLossPerFault
PROPERTIES ImplementsDurableQueue
CHECK_DEADLOCK FALSE
