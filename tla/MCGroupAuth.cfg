\* Two groups of two teachers, groups that expire before and after a token
\* does, a day boundary, refills that do not divide the capacity and a restart.
SPECIFICATION Spec
CONSTANTS
    a1 = a1  c1 = c1  c2 = c2  ann = ann  bob = bob
    Address = {a1}
    Code = {c1, c2}
    Teacher = {ann, bob}
    Ttl = {1, 3}
    SessionCap = {1, 2}
    TokenLifetime = 2
    Day = {"d0", "d1"}
    DayOf <- HalfDays
    Capacity = 2
    RefillSeconds = 5
    Grains = 2
    WindowStart = 4
    MaxTime = 5
    MaxTokens = 3
    None = None
SYMMETRY Symmetry
INVARIANTS TypeOK DailyCap GrantBound RetryHonoured
PROPERTIES RefusalIsFinal
CHECK_DEADLOCK FALSE
