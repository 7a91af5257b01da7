\* One turn after another on one instance; look-ups may fail.
SPECIFICATION Spec
CONSTANTS
    s1 = s1  ann = ann  d1 = d1  d2 = d2
    i1 = i1  i2 = i2  r1 = r1  r2 = r2  None = None
    Session = {s1}
    User = {ann}
    Doc = {d1}
    Shared = {d1}
    Attachments <- NothingOrD1
    Instance = {i1}
    Request = {r1}
    Store <- AllStores
    StoreOf <- StorePerSession
    InMemory = FALSE
    Failing = {"look"}
    MayRestart = FALSE
    Delegates = FALSE
    FlushInterval = 5
    MaxTurns = 2
PROPERTIES TrackerSparesRow
CHECK_DEADLOCK FALSE
