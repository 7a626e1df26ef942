SPECIFICATION Spec
CONSTANTS
    p1 = p1
    p2 = p2
    t1 = t1
    t2 = t2
    f1 = f1
    i1 = i1
    i2 = i2
    n1 = n1
    n2 = n2
    None = None
    Paths <- TwoPaths
    Targets <- TwoTargets
    Foreigns <- OneForeign
    Ids <- TwoIds
    Inodes <- OneInode
    MaxWrites = 0
SYMMETRY Symmetric
INVARIANTS NoLeftovers LedgerMatchesTree
PROPERTIES ReplacedAtOnce NoDeadLinks AtomicTree
