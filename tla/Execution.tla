------------------------------ MODULE Execution ------------------------------
(***************************************************************************)
(* The decisions of the durable-job reducer, crates/catabolic-core/src/    *)
(* execution.rs: which inputs are admitted for a job row j, its claim row  *)
(* c and the set up of process ids that exist.  The store evaluates them   *)
(* inside the transaction that also writes the result, so the component    *)
(* modules use them as guards.                                             *)
(*                                                                         *)
(* A claim row is [owner, attempt, lease].  lease is the time that is left *)
(* (lease_until - now, floored at 0), so that a run needs no clock.  The   *)
(* generation and the random token of a proof are fresh at every           *)
(* acquisition; a process runs one job at a time and holds the proof of    *)
(* its last acquisition only, so "the row still carries the token of p's   *)
(* proof" is: the row was last written by p's acquisition, owner = p.      *)
(***************************************************************************)
EXTENDS Integers

CONSTANT LeaseTicks      \* the lease duration, LEASE_SECONDS in the code

ASSUME LeaseAssumption == LeaseTicks \in Nat \ {0}

Terminal == {"complete", "partial", "unsupported", "timeout", "changed",
             "failed", "mismatch", "cancelled"}
Phases   == Terminal \cup {"none", "queued", "running"}

MutLive(c, up) == c.owner \in up

Live(c, up) == c.lease > 0 /\ c.owner \in up

MutFence(j, c, p, n, up) ==
    j.state = "running" /\ j.attempts = n /\ n > 0 /\ Live(c, up) /\ c.attempt = n

(* A proof (p, n) passes the fence: nobody replaced the claim, the lease    *)
(* has not run out and the job is still running that attempt.               *)
Fence(j, c, p, n, up) ==
    /\ j.state = "running"
    /\ j.attempts = n
    /\ n > 0
    /\ Live(c, up)
    /\ c.owner = p
    /\ c.attempt = n

CanStart(j, c, up) == ~Live(c, up) /\ j.state \in {"queued", "running"}

CanRecover(j, c, n, up) ==
    /\ ~Live(c, up)
    /\ j.state = "running"
    /\ j.attempts = n
    /\ n > 0

MutCanCancel(j, publicationIntent) == j.state \in {"queued", "running"}

CanCancel(j, publicationIntent) ==
    ~publicationIntent /\ j.state \in {"queued", "running"}

CanRetry(j, pendingArtifact) ==
    ~pendingArtifact /\ j.state \in {"failed", "timeout", "cancelled"}

(* An abandoned analysis goes back to the queue without a new attempt.      *)
CanReclaim(j, c, up) == ~Live(c, up) /\ j.state = "running"

CanFinish(j, c, p, n, up, outcome) ==
    Fence(j, c, p, n, up) /\ outcome \in Terminal

Claim(p, n) == [owner |-> p, attempt |-> n, lease |-> LeaseTicks]
=============================================================================
