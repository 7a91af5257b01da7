\* A click that starts a turn, then a chat turn.
SPECIFICATION Spec
CONSTANTS
    u = u
    Users = {u}
    Names = {"action", "frame", "lastAction", "board", "side", "maps", "show"}
    SurfaceIds <- MCSurfaceIds
    FrameIds <- MCFrameIds
    Configurations <- MCConfigurations
    Durable = FALSE
    MaxCalls = 2
    MaxTurns = 2
    MaxActive = 1
    MaxUpsets = 0
INVARIANT TriggerOnActionRunsOnly
CHECK_DEADLOCK FALSE
