---------------------------- MODULE Notifications ----------------------------
(***************************************************************************)
(* Notification deliveries: an event is handed at least once to every      *)
(* destination that subscribed to it (crates/catabolic-store/src/          *)
(* notifications.rs, driven by crates/catabolic-runtime/src/               *)
(* notifications.rs, decided by notification_delivery.rs).                 *)
(*                                                                         *)
(* A drainer leases one delivery, lets go of the catalog, looks once more  *)
(* whether its lease still holds, sends, and acknowledges.  Every action   *)
(* is one transaction or one request, so the drainers interleave more      *)
(* freely here than the writer lock lets them.                             *)
(*                                                                         *)
(* A row's token is fresh at every claim and a drainer keeps the lease of  *)
(* its last claim only, so "the row carries p's token" is: owner = p.      *)
(* lease is the time that is left of lease_until, wait 1 before due_at.     *)
(***************************************************************************)
EXTENDS Naturals, FiniteSets

CONSTANTS
    Drainers,       \* processes that run a drain loop
    Events, Dests,  \* consumer events and notification destinations
    NoDrainer,
    LeaseTicks,     \* the lease duration, 60 s in the code
    MaxTries,       \* attempts before a delivery is exhausted, 5 in the code
    MaxCommands     \* bound: commands of the operator

ASSUME NotificationAssumption ==
    /\ NoDrainer \notin Drainers
    /\ LeaseTicks \in Nat \ {0}
    /\ MaxTries \in Nat \ {0}
    /\ MaxCommands \in Nat

Deliveries == Events \X Dests

Open     == {"pending", "retry", "leased"}
States   == Open \cup {"none", "complete", "exhausted", "repair", "cancelled"}
Outcomes == {"complete", "temporary", "repair"}
Rows     == [state : States, attempts : 0 .. MaxTries, owner : Drainers \cup {NoDrainer},
             lease : 0 .. LeaseTicks, wait : 0 .. 1]
Leases   == [pc : {"idle", "claimed", "sending", "answered"},
             on : Deliveries \cup {<<>>},
             previous : 0 .. MaxTries, revision : Nat, outcome : Outcomes]

VARIABLES
    row,        \* notification_deliveries
    enabled,    \* notification_destinations that are enabled
    revision,   \* and their revision
    drain,      \* the drainers, each with the DeliveryLease it holds
    accepted,   \* deliveries the remote side has answered with success
    commands

vars == <<row, enabled, revision, drain, accepted, commands>>
dest == <<enabled, revision>>

NoRow == [state |-> "none", attempts |-> 0, owner |-> NoDrainer, lease |-> 0, wait |-> 0]

NoLease == [pc |-> "idle", on |-> <<>>, previous |-> 0, revision |-> 0,
            outcome |-> "temporary"]

Init ==
    /\ row = [x \in Deliveries |-> NoRow]
    /\ enabled = Dests
    /\ revision = [d \in Dests |-> 0]
    /\ drain = [p \in Drainers |-> NoLease]
    /\ accepted = {}
    /\ commands = 0

-----------------------------------------------------------------------------
(* Producers and operators.                                                 *)

(* An event is admitted once; which destinations subscribe is a matter of   *)
(* their policy.                                                            *)
Emit(e) ==
    /\ \A d \in Dests : row[<<e, d>>].state = "none"
    /\ \E S \in SUBSET enabled :
         row' = [x \in Deliveries |-> IF x[1] = e /\ x[2] \in S
                                        THEN [row[x] EXCEPT !.state = "pending"]
                                        ELSE row[x]]
    /\ UNCHANGED <<dest, drain, accepted, commands>>

Command == commands < MaxCommands /\ commands' = commands + 1

MutCancelAll(d) ==
    row' = [x \in Deliveries |->
              IF x[2] = d /\ row[x].state \notin {"none", "complete"}
                THEN [row[x] EXCEPT !.state = "cancelled"]
                ELSE row[x]]

CancelAll(d) ==
    row' = [x \in Deliveries |->
              IF x[2] = d /\ row[x].state \notin {"none", "complete"}
                THEN [row[x] EXCEPT !.state = "cancelled", !.owner = NoDrainer, !.lease = 0]
                ELSE row[x]]

(* configure with a changed policy; an unchanged one writes nothing.        *)
Configure(d) ==
    /\ Command
    /\ enabled' = enabled \cup {d}
    /\ revision' = [revision EXCEPT ![d] = @ + 1]
    /\ CancelAll(d)
    /\ UNCHANGED <<drain, accepted>>

Disable(d) ==
    /\ Command
    /\ enabled' = enabled \ {d}
    /\ revision' = [revision EXCEPT ![d] = @ + 1]
    /\ CancelAll(d)
    /\ UNCHANGED <<drain, accepted>>

(* Refused while the destination is disabled or a delivery is in progress.  *)
Retry(d) ==
    /\ d \in enabled
    /\ \A x \in Deliveries : x[2] = d => ~(row[x].state = "leased" /\ row[x].lease > 0)
    /\ Command
    /\ row' = [x \in Deliveries |->
                 IF x[2] = d /\ row[x].state \notin {"none", "complete", "cancelled"}
                   THEN [NoRow EXCEPT !.state = "pending"]
                   ELSE row[x]]
    /\ UNCHANGED <<dest, drain, accepted>>

-----------------------------------------------------------------------------
(* The drain loop.                                                          *)

MutSpent(r) == FALSE

(* An open delivery that has used up its attempts and whose last lease, if  *)
(* any, ran out.  Every claim sweeps these first.                           *)
Spent(r) == r.state \in Open /\ r.attempts >= MaxTries /\ r.lease = 0

Swept == [x \in Deliveries |->
            IF Spent(row[x])
              THEN [row[x] EXCEPT !.state = "exhausted", !.owner = NoDrainer]
              ELSE row[x]]

Due(x) ==
    /\ x[2] \in enabled
    /\ row[x].state \in Open
    /\ ~Spent(row[x])
    /\ row[x].wait = 0
    /\ row[x].lease = 0

LeaseOn(x) == [pc |-> "claimed", on |-> x, previous |-> row[x].attempts,
               revision |-> revision[x[2]], outcome |-> "temporary"]

MutClaim(p) ==
    /\ drain[p].pc = "idle"
    /\ \/ \E x \in Deliveries :
            /\ Due(x)
            /\ row' = [Swept EXCEPT ![x] = [row[x] EXCEPT !.state = "leased",
                                              !.owner = p, !.lease = LeaseTicks]]
            /\ drain' = [drain EXCEPT ![p] = LeaseOn(x)]
       \/ /\ \A x \in Deliveries : ~Due(x)
          /\ row' = Swept
          /\ UNCHANGED drain
    /\ UNCHANGED <<dest, accepted, commands>>

Claim(p) ==
    /\ drain[p].pc = "idle"
    /\ \/ \E x \in Deliveries :
            /\ Due(x)
            /\ row' = [Swept EXCEPT ![x] = [row[x] EXCEPT !.state = "leased",
                            !.attempts = @ + 1, !.owner = p, !.lease = LeaseTicks]]
            /\ drain' = [drain EXCEPT ![p] = LeaseOn(x)]
       \/ /\ \A x \in Deliveries : ~Due(x)
          /\ row' = Swept
          /\ UNCHANGED drain
    /\ UNCHANGED <<dest, accepted, commands>>

MutCurrent(p) ==
    LET x == drain[p].on IN
      /\ row[x].lease > 0
      /\ x[2] \in enabled
      /\ revision[x[2]] = drain[p].revision

(* The lease p holds still stands: same token, time left, and the policy    *)
(* under which it was taken.                                                *)
Current(p) ==
    LET x == drain[p].on IN
      /\ row[x].owner = p
      /\ row[x].lease > 0
      /\ x[2] \in enabled
      /\ revision[x[2]] = drain[p].revision

(* Once more before sending, through a reader of its own; a lease that was  *)
(* lost by then is dropped without an acknowledgement.                      *)
Check(p) ==
    /\ drain[p].pc = "claimed"
    /\ drain' = [drain EXCEPT ![p] =
                   IF row[drain[p].on].state = "leased" /\ Current(p)
                     THEN [drain[p] EXCEPT !.pc = "sending"] ELSE NoLease]
    /\ UNCHANGED <<row, dest, accepted, commands>>

(* The remote side may accept the event and its answer get lost or be       *)
(* malformed: then the transport reports a failure all the same.            *)
Send(p) ==
    /\ drain[p].pc = "sending"
    /\ \E o \in Outcomes, seen \in BOOLEAN :
         /\ o = "complete" => seen
         /\ accepted' = IF seen THEN accepted \cup {drain[p].on} ELSE accepted
         /\ drain' = [drain EXCEPT ![p].pc = "answered", ![p].outcome = o]
    /\ UNCHANGED <<row, dest, commands>>

MutVerdict(outcome, previous) ==
    IF outcome = "temporary"
      THEN IF previous + 1 >= MaxTries THEN "exhausted" ELSE "retry"
      ELSE "complete"

Decide(outcome, previous) ==
    IF outcome = "temporary"
      THEN IF previous + 1 >= MaxTries THEN "exhausted" ELSE "retry"
      ELSE outcome

(* A stale acknowledgement changes nothing.                                 *)
Acknowledge(p) ==
    /\ drain[p].pc = "answered"
    /\ row' = IF Current(p)
                THEN [row EXCEPT ![drain[p].on] =
                        [row[drain[p].on] EXCEPT
                            !.state = Decide(drain[p].outcome, drain[p].previous),
                            !.owner = NoDrainer, !.lease = 0, !.wait = 1]]
                ELSE row
    /\ drain' = [drain EXCEPT ![p] = NoLease]
    /\ UNCHANGED <<dest, accepted, commands>>

-----------------------------------------------------------------------------
(* Time and failures.                                                       *)

(* The process ends, or its session is lost after the detached section.     *)
Abandon(p) ==
    /\ drain[p].pc # "idle"
    /\ drain' = [drain EXCEPT ![p] = NoLease]
    /\ UNCHANGED <<row, dest, accepted, commands>>

Tick ==
    /\ \E x \in Deliveries : row[x].lease > 0
    /\ row' = [x \in Deliveries |->
                 IF row[x].lease > 0 THEN [row[x] EXCEPT !.lease = @ - 1] ELSE row[x]]
    /\ UNCHANGED <<dest, drain, accepted, commands>>

BackoffEnds(x) ==
    /\ row[x].wait > 0
    /\ row' = [row EXCEPT ![x].wait = 0]
    /\ UNCHANGED <<dest, drain, accepted, commands>>

Next ==
    \/ \E e \in Events : Emit(e)
    \/ \E d \in Dests : Configure(d) \/ Disable(d) \/ Retry(d)
    \/ \E p \in Drainers : Claim(p) \/ Check(p) \/ Send(p) \/ Acknowledge(p) \/ Abandon(p)
    \/ Tick
    \/ \E x \in Deliveries : BackoffEnds(x)

Spec == Init /\ [][Next]_vars

(* The drain loop is run again and again (http_worker.rs drains in every    *)
(* round), a started round goes on or is abandoned, and time passes.        *)
Fairness ==
    /\ \A p \in Drainers : WF_vars(Claim(p) \/ Check(p) \/ Send(p) \/ Acknowledge(p))
    /\ WF_vars(Tick)
    /\ \A x \in Deliveries : WF_vars(BackoffEnds(x))

FairSpec == Spec /\ Fairness

-----------------------------------------------------------------------------
(* Properties.                                                              *)

(* Also: no delivery is tried more than MaxTries times between two retries  *)
(* of the operator, however its drainers end.                               *)
TypeOK ==
    /\ row \in [Deliveries -> Rows]
    /\ enabled \in SUBSET Dests
    /\ revision \in [Dests -> Nat]
    /\ drain \in [Drainers -> Leases]
    /\ accepted \in SUBSET Deliveries
    /\ commands \in 0 .. MaxCommands

(* A delivery is given up only after all its attempts, whichever of sweep   *)
(* and acknowledgement gives it up.                                         *)
GivesUpLate ==
    \A x \in Deliveries : row[x].state = "exhausted" => row[x].attempts = MaxTries

(* A row that still carries a token carries it for the present policy: an   *)
(* edit or a disabling takes every lease of the destination away, also      *)
(* from a drainer that is in the middle of sending.                         *)
EditRevokes ==
    \A p \in Drainers : LET x == drain[p].on IN
        drain[p].pc # "idle" /\ row[x].owner = p =>
            /\ row[x].state = "leased"
            /\ x[2] \in enabled
            /\ revision[x[2]] = drain[p].revision

(* A delivery is complete only if the destination has accepted it.          *)
CompleteWasAccepted ==
    \A x \in Deliveries : row[x].state = "complete" => x \in accepted

(* A drainer whose lease was taken over, cancelled or swept changes no row  *)
(* any more, whatever it was told by the destination.                       *)
StaleAckIsPowerless ==
    [][\A p \in Drainers :
         (drain[p].pc = "answered" /\ row[drain[p].on].owner # p /\ drain'[p] # drain[p])
           => UNCHANGED row]_vars

(* Complete and cancelled are for ever: no late answer, retry or new policy *)
(* sends such a delivery again.                                             *)
SettledStays ==
    [][\A x \in Deliveries : row[x].state \in {"complete", "cancelled"} =>
         row'[x].state = row[x].state]_vars

(* Every delivery is settled in the end, even if each answer is lost.       *)
DeliverySettles ==
    \A x \in Deliveries : row[x].state \in Open ~> row[x].state \notin Open
=============================================================================
