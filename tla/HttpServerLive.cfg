SPECIFICATION FairSpec
CONSTANTS
    Clients = {c1, c2}
    Pages = {"welcome"}
    Names <- MCNames
    ArchiveGetFile <- MCArchiveGetFile
    Ports = {40000}
    MaxFd = 2
    Backlog = 1
    MaxForeign = 0
    SpawnMayFail = TRUE
INVARIANTS
    StoppedIsClean
PROPERTIES
    GuiCallsReturn
    RequestsAnswered
