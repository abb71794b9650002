SPECIFICATION FairSpec
CONSTANTS
    Message = {m1, m2, m3}
    Ordinary = {m1, m2}
    Slot = {s1, s2}
    Host = {h1}
    Misrouted = {}
    HealthCheck = {m3}
    MaxAttempts = 2
    MaxHops = 2
    MaxSleeps = 0
    MaxDirect = 0
    MaxFaults = 0
    MaxLate = 1
    None = None
INVARIANTS
    OneRunnerPerJob
PROPERTIES
    JobsSettle
