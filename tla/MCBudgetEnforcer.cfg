\* Two turns on one class, one of them with a sub-agent: the cap is reached,
\* the replay window closes within the clock, a period boundary is crossed, and
\* calls cost less and more than projected.
SPECIFICATION Spec
CONSTANTS
    p1 = p1  p2 = p2  p3 = p3
    i1 = i1  i2 = i2
    class = class
    Pair = {p1, p2, p3}
    Invocation = {i1, i2}
    Identity = {class}
    InvocationOf <- ClassInvocationOf
    IdentityOf <- ClassIdentityOf
    Projected = {2, 3}
    Actual = {1, 4}
    Cap = 5
    Soft = 4
    Window = 1
    Period = {"p0", "p1"}
    PeriodKey <- Calendar
    MaxTime = 3
    None = None
INVARIANTS TypeOK LedgerExact CapRespected
PROPERTIES NoDoubleCharge ImplementsAdmission
CHECK_DEADLOCK FALSE
