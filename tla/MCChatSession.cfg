\* Two instances that restart and lose the ADK sessions, two requests at once, on one
\* or on both, two turns; look-ups, creations and updates may fail.
SPECIFICATION Spec
CONSTANTS
    s1 = s1  ann = ann  d1 = d1  d2 = d2
    i1 = i1  i2 = i2  r1 = r1  r2 = r2  None = None
    Session = {s1}
    User = {ann}
    Doc = {d1}
    Shared = {d1}
    Attachments <- NothingOrD1
    Instance = {i1, i2}
    Request = {r1, r2}
    Store <- AllStores
    StoreOf <- StorePerSession
    InMemory = TRUE
    Failing = {"look", "create", "update"}
    MayRestart = TRUE
    Delegates = FALSE
    FlushInterval = 5
    MaxTurns = 2
SYMMETRY Symmetry
INVARIANTS TypeOK CountIsOwn
PROPERTIES RowSettles
CHECK_DEADLOCK FALSE
