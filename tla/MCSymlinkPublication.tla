------------------------ MODULE MCSymlinkPublication ------------------------
(* Instances of SymlinkPublication.  Ids, inodes and foreign entries are     *)
(* interchangeable; so are sources, and paths, while no order is given.      *)
EXTENDS SymlinkPublication, TLC

CONSTANTS p1, p2, t1, t2, f1, i1, i2, n1, n2

OnePath == {p1}
TwoPaths == {p1, p2}
TwoTargets == {t1, t2}
OneForeign == {f1}
OneId == {i1}
OneInode == {n1}
TwoIds == {i1, i2}
TwoInodes == {n1, n2}

Symmetric ==
    Permutations(Paths) \cup Permutations(Targets) \cup Permutations(Foreigns)
        \cup Permutations(Ids) \cup Permutations(Inodes)
=============================================================================
