\* Two turns over two documents that are uploaded, parsed again, deleted and
\* lost meanwhile; a restart keeps the session and loses its artifacts.
SPECIFICATION Spec
CONSTANTS
    up1 = up1  up2 = up2
    c1 = c1
    r1 = r1  r2 = r2
    Uploads = {up1, up2}
    References = {}
    Unparseable = {}
    Content = {c1}
    Requests = {r1, r2}
    MaxDocs = 2
    None = None
    MaxTurns = 2
    SessionsSurvive = TRUE
    ArtifactsSurvive = FALSE
    SharedKeys = TRUE
VIEW ContextView
SYMMETRY Symmetry
INVARIANTS TypeOK NoSilentLoss SelfHeals
CHECK_DEADLOCK FALSE
