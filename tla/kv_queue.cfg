SPECIFICATION Spec
CONSTANTS
    Message = {m1, m2}
    Host = {h1}
    Slot = {s1, s2}
    MaxAttempts = 2
    MaxTurns = 1
    None = None
SYMMETRY Sym
INVARIANTS OneLossPerFetch OneRunnerPerJob
PROPERTIES ImplementsDurableQueue
