SPECIFICATION Spec
CONSTANTS
    Null = Null
    Papers <- MCCatalogue
    PointerBytes = 8
    Lists <- ShortLists
INVARIANT AllPapersShown
