---------------------------- MODULE PublishedTree ----------------------------
(***************************************************************************)
(* What an output promises to those who read it: a path changes from one   *)
(* link to the next in one step, one path at a time, and the ledger follows *)
(* the tree, never ahead of it.                                            *)
(***************************************************************************)
CONSTANTS Paths, Targets, None

VARIABLES shown,    \* link that each path shows, or None
          ledger,   \* link that the catalog knows to be its own
          change    \* the change intended, or None

vars == <<shown, ledger, change>>

Links == Targets \cup {None}

Init ==
    /\ shown = [p \in Paths |-> None]
    /\ ledger = [p \in Paths |-> None]
    /\ change = None

Intend(p, t) ==
    /\ change = None
    /\ t # shown[p]
    /\ change' = [path |-> p, from |-> shown[p], to |-> t]
    /\ UNCHANGED <<shown, ledger>>

Take ==
    /\ change # None
    /\ shown[change.path] = change.from
    /\ shown' = [shown EXCEPT ![change.path] = change.to]
    /\ UNCHANGED <<ledger, change>>

Settle ==
    /\ change # None
    /\ shown[change.path] = change.to
    /\ ledger' = [ledger EXCEPT ![change.path] = change.to]
    /\ change' = None
    /\ UNCHANGED shown

Drop ==
    /\ change # None
    /\ shown[change.path] = change.from
    /\ change' = None
    /\ UNCHANGED <<shown, ledger>>

Next ==
    \/ \E p \in Paths, t \in Links : Intend(p, t)
    \/ Take \/ Settle \/ Drop

Spec == Init /\ [][Next]_vars
=============================================================================
