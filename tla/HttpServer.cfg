SPECIFICATION Spec
CONSTANTS
    Clients = {c1, c2}
    Pages = {"welcome", "other"}
    Names <- MCNames
    ArchiveGetFile <- MCArchiveGetFile
    Ports = {40000}
    MaxFd = 2
    Backlog = 1
    MaxForeign = 2
    SpawnMayFail = FALSE
SYMMETRY MCSymmetry
INVARIANTS
    TypeOK
    IInv
    EveryReplyAnswersItsRequest
    StoppedIsClean
    ListeningMeansServing
    ForeignFilesIntact
PROPERTY ImplementsPageService
