CONSTANTS
    root = root
    f1 = f1
    f2 = f2
    dir = dir
    none = none
    Nil = Nil
    Names <- MCNames
    Root = root
    Kind <- MCKind
    Entries <- MCEntries
    Trees <- MCTrees
SPECIFICATION Spec
INVARIANTS
    AcceptedIsWhole
    LoopsAreRejected
PROPERTY ReadEnds
CHECK_DEADLOCK FALSE
