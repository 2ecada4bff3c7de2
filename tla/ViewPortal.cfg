SPECIFICATION FairSpec
CONSTANTS
    Papers = {"p", "q"}
    Welcome = "welcome"
    MaxLoads = 6
    ArchiveGetFile <- MCArchive
INVARIANT RestsOnChoice
PROPERTY ChoicesAreShown
