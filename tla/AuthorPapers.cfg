SPECIFICATION Spec
CONSTANTS
    Null = Null
    Papers <- MCCatalogue
    PointerBytes = 4
    Lists <- AllLists
INVARIANTS
    RefCountsAsAsserted
    ActivatedPaperExists
    TreesAreSound
    DistinctPapersShown
    PapersKeepTheirIdentity
    AuthorsSortByExchanges
    DebugTabIsExactOnTables
