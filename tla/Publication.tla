----------------------------- MODULE Publication -----------------------------
(***************************************************************************)
(* What publishing generated files promises, without jobs, claims,         *)
(* processes or a journal: intent first, then the visible name, then the   *)
(* catalog; and what the catalog lists is there.                           *)
(***************************************************************************)
CONSTANT Outputs

VARIABLES stage,   \* "idle", "intended" or "published"
          shown    \* outputs whose final name shows the validated bytes

vars == <<stage, shown>>

Init ==
    /\ stage = [o \in Outputs |-> "idle"]
    /\ shown = {}

Intend(o) ==
    /\ stage[o] = "idle"
    /\ o \notin shown
    /\ stage' = [stage EXCEPT ![o] = "intended"]
    /\ UNCHANGED shown

(* Only the names of intended outputs appear and vanish: renames, power     *)
(* losses that undo them, other users of the directory.                     *)
Files ==
    /\ shown' \subseteq Outputs
    /\ \A o \in Outputs : stage[o] # "intended" => (o \in shown' <=> o \in shown)
    /\ UNCHANGED stage

Publish(o) ==
    /\ stage[o] = "intended"
    /\ o \in shown
    /\ stage' = [stage EXCEPT ![o] = "published"]
    /\ UNCHANGED shown

Next == Files \/ \E o \in Outputs : Intend(o) \/ Publish(o)

Spec == Init /\ [][Next]_vars
=============================================================================
