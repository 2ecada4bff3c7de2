SPECIFICATION HelperSpec
CONSTANTS
    Names <- MCNames
    Words <- MCWords
    SortKey <- MCSortKey
    hardcoded_primaries <- MCPrimaries
    hardcoded_alternatives <- MCAlternatives
    Papers <- MCPapers
    AuthorSquares <- MCAuthorSquares
    MaxEntries = 2
    list <- MCList
    Files <- MCFiles
    StartsWith <- MCStartsWith
    DotAfter <- MCDotAfter
    UrlFile <- MCUrlFile
    MaxStarts = 2
    Sources = {"p1r0.html", "p1r0.pdf", "P2R0.txt", "n1.txt"}
    Blank = {"n1.txt"}
    Stem <- MCStem
    PaperOf <- MCPaperOf
    NoPaper = "none"
    Loadable = {"p1r0"}
    MaxRuns = 2
INVARIANTS
    SpellingsAreMatchedExactly
    ClustersAreComponents
    CreditsAreKept
    NamesAreConsistent
    PapersNameTheirAuthors
    NoPaperIsOverlooked
    CutFilesHaveACause
    RerunRepairsTokens
    LoadAfterRepairIsWhole
PROPERTIES
    CompletePapersAreKept
    DatabaseIsHandedOnWhole
CHECK_DEADLOCK FALSE
