------------------------- MODULE MCScanPublication --------------------------
(* Small instances of ScanPublication for TLC.                              *)
EXTENDS ScanPublication, TLC

CONSTANTS top, sub, a, b

\* One file in the root of the source and one in the directory below it.
MCIn == (a :> top) @@ (b :> sub)

\* The second request may accept what the first one has found.
MCReuse == <<{FALSE}, BOOLEAN>>

Symmetry == Permutations(Procs)
=============================================================================
