SPECIFICATION RecordsSpec
CONSTANTS
    Thread = {t1, t2}
    Loads <- MCLoads
    None = None
    Instance = {i1, i2}
    MaxSkills = 4
    Authors <- MCAuthors
    Readers <- MCReaders
    Bases = {"a", "p"}
    Accesses <- MCAccesses
    Posts <- MCPosts
    Clients <- MCClients
    Edits <- MCEdits
    Templates <- MCTemplates
    Resumable <- MCResumable
    InitialSkills <- MCInitial
    TTL = 1
    Patience = 1
    MaxTime = 2
    People <- MCPeople
    MaxBuckets = 1
    MaxFolders = 1
    Sharings <- MCSharings
    MaxRows = 7
    Rows <- MCRows
    FirstRows <- MCFirstRows
    Viewer <- MCBob
    PageSize = 1
    d1 = d1
    d2 = d2
    Docs = {d1, d2}
    Fields <- MCFields
    Stored <- MCStored
    Writes <- MCWrites
    Reads <- MCReads
SYMMETRY MCSymmetry
INVARIANTS
    TypeOK
    NoDuplicates
    AnswersAreRecent
    ToolsMatchPublic
    EffectiveIsInherited
    PagesComplete
    AnswersAreRegular
CHECK_DEADLOCK FALSE
