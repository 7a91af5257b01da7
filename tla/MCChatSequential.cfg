\* One request at a time, a skill with a sub-agent, nothing fails, for more
\* turns than a flush interval.
SPECIFICATION Spec
CONSTANTS
    s1 = s1  ann = ann  d1 = d1  d2 = d2
    i1 = i1  i2 = i2  r1 = r1  r2 = r2  None = None
    Session = {s1}
    User = {ann}
    Doc = {d1, d2}
    Shared = {d1}
    Attachments <- Both
    Instance = {i1}
    Request = {r1}
    Store <- AllStores
    StoreOf <- StorePerSession
    InMemory = FALSE
    Failing = {}
    MayRestart = FALSE
    Delegates = TRUE
    FlushInterval = 5
    MaxTurns = 7
SYMMETRY Symmetry
INVARIANTS CountFresh
PROPERTIES TitleSettled
CHECK_DEADLOCK FALSE
