--------------------------- MODULE MCNotifications ---------------------------
(* Small instances of Notifications for TLC.                                *)
EXTENDS Notifications, TLC

Symmetry == Permutations(Drainers) \cup Permutations(Events)
=============================================================================
