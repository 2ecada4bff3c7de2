SPECIFICATION Spec
CONSTANTS
    Callers = {t1, t2}
    Searchers = {s}
    Args <- MCArgs
    Disks <- WholeDisk
INVARIANT ClickedPaperIsShown
