--------------------------- MODULE RenditionDemand ---------------------------
(***************************************************************************)
(* The demand ledger of the HTTP API: callers ask for the same rendition,  *)
(* share one render job and one disk reservation, and must not disturb     *)
(* each other (crates/catabolic-store/src/rendition_mutation.rs, decided   *)
(* by crates/catabolic-core/src/rendition.rs; the triggers of              *)
(* 022_http_access.sql carry every job state over to demands and           *)
(* reservations).                                                          *)
(*                                                                         *)
(* All demands are for one output (one cache key) of one source, pinned to *)
(* one revision of it.  Every action is one transaction.  What happens to  *)
(* a job physically is RenderJobs; here it is the job state it leaves.     *)
(***************************************************************************)
EXTENDS Naturals, FiniteSets

CONSTANTS
    Principals,        \* API callers
    Keys,              \* idempotency keys, of which a caller uses one per demand
    MaxJobs,           \* bound: jobs created for this output, one after the other
    PrincipalLimit,    \* demands on unfinished jobs a caller may have at admission
    GlobalLimit,
    Slots,             \* outputs the destination device has room for
    LocalRetries       \* the jobs that the operator retries on the command line

ASSUME DemandAssumption ==
    /\ MaxJobs \in Nat /\ PrincipalLimit \in Nat /\ GlobalLimit \in Nat /\ Slots \in Nat
    /\ IsFiniteSet(Principals) /\ IsFiniteSet(Keys)
    /\ LocalRetries \subseteq 1 .. MaxJobs

Demands == Principals \X Keys
Jobs    == 1 .. MaxJobs
NoJob   == 0

Pending   == {"queued", "running"}
Terminal  == {"complete", "failed", "cancelled", "changed"}
JobStates == Pending \cup Terminal
DemandStates == Pending \cup {"none", "ready", "failed", "cancelled", "blocked", "stale"}

VARIABLES
    job,        \* processing_jobs.state
    created,    \* how many of the jobs exist; the latest one is job "created"
    demand,     \* api_requests.state
    of,         \* api_requests.job_id
    reserved,   \* the jobs with a row in api_reservations
    granted,    \* callers whose token and grants cover the request
    approved,   \* the operation is enabled
    current     \* the source has the revision the demands are pinned to

vars   == <<job, created, demand, of, reserved, granted, approved, current>>
policy == <<granted, approved, current>>

Init ==
    /\ job = [j \in Jobs |-> "queued"]
    /\ created = 0
    /\ demand = [d \in Demands |-> "none"]
    /\ of = [d \in Demands |-> NoJob]
    /\ reserved = {}
    /\ granted = Principals
    /\ approved = TRUE
    /\ current = TRUE

Exists(j) == j <= created
Unfinished == {j \in Jobs : Exists(j) /\ job[j] \in Pending}
Waiting == {d \in Demands : of[d] \in Unfinished}

-----------------------------------------------------------------------------
(* The job's state as its demands see it: the triggers                      *)
(* api_job_request_states and api_release_reservations.                     *)

Fan(s) == CASE s = "complete" -> "ready" [] s = "changed" -> "stale" [] OTHER -> s

MutKeptBlocked(j, s) ==
    [d \in Demands |-> IF of[d] = j /\ demand[d] \notin {"cancelled", "blocked"}
                         THEN Fan(s) ELSE demand[d]]

Fanned(j, s) ==
    [d \in Demands |-> IF of[d] = j /\ demand[d] # "cancelled" THEN Fan(s) ELSE demand[d]]

MutReleased(j, s) == IF s \in Terminal \cup {"queued"} THEN reserved \ {j} ELSE reserved

Released(j, s) == IF s \in Terminal THEN reserved \ {j} ELSE reserved

JobMoves(j, s) ==
    /\ job' = [job EXCEPT ![j] = s]
    /\ demand' = Fanned(j, s)
    /\ reserved' = Released(j, s)
    /\ UNCHANGED <<created, of, policy>>

Start(j)  == Exists(j) /\ job[j] = "queued" /\ JobMoves(j, "running")
Finish(j) == /\ Exists(j) /\ job[j] = "running"
             /\ \E s \in {"complete", "failed"} : JobMoves(j, s)
Resume(j) == Exists(j) /\ job[j] = "running" /\ JobMoves(j, "queued")
LocalCancel(j) == Exists(j) /\ job[j] \in Pending /\ JobMoves(j, "cancelled")
LocalRetry(j) ==
    /\ j \in LocalRetries
    /\ Exists(j)
    /\ job[j] \in {"failed", "cancelled"}
    /\ JobMoves(j, "queued")

(* The job that an enqueue finds or makes; a complete one is used if its    *)
(* artifact still is.                                                       *)
Enqueued(j, usable) ==
    IF created > 0 /\ (job[created] \in Pending \/ (job[created] = "complete" /\ usable))
      THEN j = created /\ created' = created
      ELSE j = created + 1 /\ j \in Jobs /\ created' = j

(* artifact enqueue on the command line.                                    *)
LocalEnqueue(j) ==
    /\ \E usable \in BOOLEAN : Enqueued(j, usable)
    /\ created' # created
    /\ UNCHANGED <<job, demand, of, reserved, policy>>

-----------------------------------------------------------------------------
(* The callers.                                                             *)

WithinLimits(d, others) ==
    /\ Cardinality({e \in others : e[1] = d[1]}) < PrincipalLimit
    /\ Cardinality(others) < GlobalLimit

Needs(j) == job[j] # "complete" /\ j \notin reserved

MutReserve(j) == reserved' = IF Needs(j) THEN reserved \cup {j} ELSE reserved

(* One reservation per unfinished job, if the device has room for it.       *)
Reserve(j) ==
    IF Needs(j)
      THEN Cardinality(reserved) < Slots /\ reserved' = reserved \cup {j}
      ELSE UNCHANGED reserved

Admissible(d) == d[1] \in granted /\ approved /\ current

(* A new idempotency key.  Counting comes before the job is made.           *)
Admit(d) ==
    /\ demand[d] = "none"
    /\ Admissible(d)
    /\ WithinLimits(d, Waiting)
    /\ \E j \in Jobs, usable \in BOOLEAN :
         /\ Enqueued(j, usable)
         /\ Reserve(j)
         /\ of' = [of EXCEPT ![d] = j]
         /\ demand' = [demand EXCEPT ![d] = Fan(job[j])]
    /\ UNCHANGED <<job, policy>>

(* Cancelling is the caller's own affair: job and reservation stay.         *)
Cancel(d) ==
    /\ demand[d] # "none"
    /\ d[1] \in granted
    /\ demand' = [demand EXCEPT ![d] = "cancelled"]
    /\ UNCHANGED <<job, created, of, reserved, policy>>

(* A retry keeps the job: it joins an unfinished one, is answered by a      *)
(* complete one and requeues a failed or cancelled one, for all its demands.*)
Retry(d) ==
    /\ demand[d] \in {"failed", "cancelled", "blocked"}
    /\ Admissible(d)
    /\ WithinLimits(d, Waiting \ {d})
    /\ LET j == of[d]
           requeue == job[j] \in {"failed", "cancelled"} IN
         /\ Reserve(j)
         /\ job' = IF requeue THEN [job EXCEPT ![j] = "queued"] ELSE job
         /\ demand' = [IF requeue THEN Fanned(j, "queued") ELSE demand EXCEPT
                         ![d] = IF job[j] = "complete" THEN "ready" ELSE "queued"]
    /\ UNCHANGED <<created, of, policy>>

-----------------------------------------------------------------------------
(* select_work of the HTTP worker, for one demand of an unfinished job.     *)

Selectable(d) ==
    /\ demand[d] \in Pending \cup {"blocked", "cancelled"}
    /\ of[d] \in Unfinished

Block(d) ==
    /\ Selectable(d)
    /\ demand[d] # "cancelled"
    /\ \/ d[1] \notin granted
       \/ ~approved /\ (current \/ job[of[d]] # "queued")
    /\ demand' = [demand EXCEPT ![d] = "blocked"]
    /\ UNCHANGED <<job, created, of, reserved, policy>>

ChangeQueuedJob(d) ==
    /\ Selectable(d)
    /\ demand[d] # "cancelled"
    /\ d[1] \in granted
    /\ ~current
    /\ job[of[d]] = "queued"
    /\ JobMoves(of[d], "changed")

-----------------------------------------------------------------------------
(* Grants, operations and the source change at any time.                    *)
Grants ==
    /\ \E p \in Principals :
         granted' = IF p \in granted THEN granted \ {p} ELSE granted \cup {p}
    /\ UNCHANGED <<job, created, demand, of, reserved, approved, current>>

Operation ==
    /\ approved' = ~approved
    /\ UNCHANGED <<job, created, demand, of, reserved, granted, current>>

(* A volume goes away and comes back, a file is replaced and restored.      *)
Source ==
    /\ current' = ~current
    /\ UNCHANGED <<job, created, demand, of, reserved, granted, approved>>

Next ==
    \/ \E j \in Jobs : \/ Start(j) \/ Finish(j) \/ Resume(j)
                       \/ LocalCancel(j) \/ LocalRetry(j) \/ LocalEnqueue(j)
    \/ \E d \in Demands : Admit(d) \/ Cancel(d) \/ Retry(d) \/ Block(d) \/ ChangeQueuedJob(d)
    \/ Grants \/ Operation \/ Source

Spec == Init /\ [][Next]_vars

-----------------------------------------------------------------------------
(* Properties.                                                              *)

TypeOK ==
    /\ job \in [Jobs -> JobStates]
    /\ created \in 0 .. MaxJobs
    /\ demand \in [Demands -> DemandStates]
    /\ of \in [Demands -> Jobs \cup {NoJob}]
    /\ \A d \in Demands : of[d] <= created /\ (of[d] = NoJob <=> demand[d] = "none")
    /\ reserved \in SUBSET Jobs
    /\ granted \in SUBSET Principals
    /\ approved \in BOOLEAN
    /\ current \in BOOLEAN

(* An unfinished job that a caller asked for has its reservation, whoever   *)
(* cancelled, retried or lost it in between, unless the operator retries    *)
(* that very job on the command line.                                       *)
PendingIsReserved ==
    \A d \in Demands : of[d] \in Unfinished \ LocalRetries => of[d] \in reserved

(* docs/HTTP.md:413: "Shared demand reserves once, terminal jobs release      *)
(* reservations, and retry must reserve again": a job that a caller asked    *)
(* for is reserved exactly as long as it is unfinished.                      *)
ReservedWhileUnfinished ==
    \A d \in Demands : of[d] # NoJob => (of[d] \in reserved <=> of[d] \in Unfinished)

(* The device is never promised twice, whoever cancels, fails or retries.   *)
NoOvercommit == Cardinality(reserved) <= Slots

Ended == {j \in Jobs : job[j] \in Terminal}

Answered(d) == demand[d] \in {Fan(job[of[d]]), "cancelled"}

RetriedLate(d) == of[d] \in Jobs /\ job[of[d]] = "changed" /\ demand[d] = "queued"

(* While a job is ended, in whatever state, every demand on it that is not  *)
(* cancelled has its answer, also one that was blocked or retried before,   *)
(* with one exception, in the code as here: a cancelled demand of a job     *)
(* that is "changed" can be retried once the source is current again.  The  *)
(* retry leaves the job as it is and queues the demand, which then waits    *)
(* for a job that no worker selects any more (rendition.rs:174,             *)
(* rendition_mutation.rs:413).  No other step withholds or undoes an answer.*)
EveryDemandAnswered ==
    [][\A d \in Demands : (of[d] \in Ended)' =>
          \/ Answered(d)'
          \/ /\ RetriedLate(d)'
             /\ RetriedLate(d) \/ (demand[d] = "cancelled" /\ Admissible(d))]_vars

Revived == {d \in Demands : demand[d] = "cancelled" /\ demand'[d] # "cancelled"}

(* A cancelled demand comes back by its own caller's retry only: not by the *)
(* job moving on, not by the retry of another caller of the same job.       *)
CancelledStays ==
    [][\A d \in Revived : d[1] \in granted /\ Revived = {d}]_vars
=============================================================================
