SPECIFICATION Spec
CONSTANTS
    Papers = {"p", "q"}
    Welcome = "welcome"
    MaxLoads = 3
    ArchiveGetFile <- MCArchive
INVARIANT NothingEscapesNoexcept
