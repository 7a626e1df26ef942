SPECIFICATION FairSpec
CONSTANTS
    p1 = p1
    p2 = p2
    t1 = t1
    t2 = t2
    f1 = f1
    i1 = i1
    i2 = i2
    n1 = n1
    n2 = n2
    None = None
    Paths <- OnePath
    Targets <- TwoTargets
    Foreigns <- OneForeign
    Ids <- OneId
    Inodes <- OneInode
    MaxWrites = 1
INVARIANTS ForeignKept
PROPERTIES SquattersUntouched Converges
