SPECIFICATION Spec
CONSTANTS
    Callers = {t1, t2}
    Searchers = {s}
    Args <- MCArgs
    Disks <- MCDisks
SYMMETRY MCSymmetry
INVARIANTS
    AnswersAgree
    ExactNameGetsItsPaper
PROPERTY DirectoryIsLostOnlyInARace
