SPECIFICATION Spec
CONSTANTS
    Clients = {c1}
    Pages = {"welcome"}
    Names <- MCNames
    ArchiveGetFile <- MCArchiveGetFile
    Ports = {40000}
    MaxFd = 2
    Backlog = 1
    MaxForeign = 1
    SpawnMayFail = TRUE
INVARIANT ForeignFilesIntact
