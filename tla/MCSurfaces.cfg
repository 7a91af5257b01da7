\* Three calls of the owner, two at once.
SPECIFICATION Spec
CONSTANTS
    u = u
    Users = {u}
    Names = {"action", "frame", "lastAction", "board", "side", "maps", "show"}
    SurfaceIds <- MCSurfaceIds
    FrameIds <- MCFrameIds
    Configurations <- MCConfigurations
    Durable = FALSE
    MaxCalls = 3
    MaxTurns = 2
    MaxActive = 2
    MaxUpsets = 1
INVARIANTS TypeOK PushReachesTurn SnapshotIsCurrent OneTerminal StagesTold
CHECK_DEADLOCK FALSE
