----------------------- MODULE ScanPublicationProofs ------------------------
(***************************************************************************)
(* Proofs about ScanPublication, for any number of processes, directories, *)
(* files, jobs, requests and events.  In this order: the types; who walks  *)
(* (TInv); the bound on claims (TokenInv); what the disk remembers (Past); *)
(* the evidence of jobs, walks and requests (Sound), with one lemma for    *)
(* each action that it survives; and the theorems that follow from it.     *)
(***************************************************************************)
EXTENDS ScanPublication, SequenceTheorems, TLAPS

-----------------------------------------------------------------------------
(* Types.                                                                   *)

LEMMA Bounds == MaxEvents \in Nat /\ MaxJobs \in Nat /\ MaxRequests \in Nat
BY ScanAssumption

LEMMA NoScopeTyped == NoScope \in [state : ScopeStates, ident : Times] /\ FirstScopes \in Scopes
<1>1. 0 \in Times
  BY Bounds DEF Times
<1>2. NoScope \in [state : ScopeStates, ident : Times]
  BY <1>1 DEF NoScope, ScopeStates
<1>3. [NoScope EXCEPT !.state = "pending"] \in [state : ScopeStates, ident : Times]
  BY <1>1 DEF NoScope, ScopeStates
<1> QED BY <1>2, <1>3 DEF FirstScopes, Scopes

LEMMA ClaimedTyped ==
    ASSUME NEW row \in JobRows, Now \in Times, Disk \in Disks
    PROVE  Claimed(row) \in JobRows
<1> DEFINE begun == IF row.started THEN row ELSE [row EXCEPT !.started = TRUE, !.at = Now]
           scopes == [d \in Dirs |-> IF begun.scopes[d].state = "running"
                                     THEN [begun.scopes[d] EXCEPT !.state = "pending"]
                                     ELSE begun.scopes[d]]
<1>1. begun \in JobRows
  BY DEF JobRows
<1> HIDE DEF begun
<1>2. scopes \in Scopes
  BY <1>1 DEF JobRows, Scopes, ScopeStates
<1>3. Disk.ident[Root] \in Times
  BY DEF Disks, Dirs
<1>4. begun.token + 1 \in Nat
  BY <1>1 DEF JobRows
<1> HIDE DEF scopes
<1>5. [begun EXCEPT !.state = "unavailable", !.lease = FALSE] \in JobRows
  BY <1>1 DEF JobRows
<1>6. [begun EXCEPT !.state = "failed", !.lease = FALSE, !.resume = FALSE] \in JobRows
  BY <1>1 DEF JobRows
<1>7. [begun EXCEPT !.state = "running", !.token = begun.token + 1, !.lease = TRUE,
                    !.pinned = Disk.ident[Root], !.scopes = scopes] \in JobRows
  BY <1>1, <1>2, <1>3, <1>4 DEF JobRows
<1> QED BY <1>5, <1>6, <1>7 DEF Claimed, begun, scopes

LEMMA WalkTyped ==
    ASSUME NEW row \in JobRows, Now \in Times, NEW j \in JobIds, NEW n \in 1 .. MaxRequests
    PROVE  NoWalk \in Walks /\ WalkOf(row, j, n) \in Walks
<1>1. 0 \in Times /\ 0 \in 0 .. MaxJobs /\ 0 \in 0 .. MaxRequests /\ j \in 0 .. MaxJobs
      /\ n \in 0 .. MaxRequests
  BY Bounds DEF Times, JobIds
<1>2. NoWalk \in Walks
  BY <1>1, NoScopeTyped DEF NoWalk, Walks, Dirs
<1>3. row.token \in Nat /\ row.pinned \in Times /\ row.scopes \in Scopes
  BY DEF JobRows
<1>4. [NoWalk EXCEPT !.job = j, !.req = n, !.token = row.token, !.from = Now,
                     !.root = row.pinned, !.queue = row.scopes, !.pc = "walk"] \in Walks
  BY <1>1, <1>2, <1>3 DEF Walks
<1> QED BY <1>2, <1>4 DEF WalkOf

LEMMA IdleTyped == NoWalk \in Walks
<1>1. 0 \in Times /\ 0 \in 0 .. MaxJobs /\ 0 \in 0 .. MaxRequests
  BY Bounds DEF Times
<1> QED BY <1>1, NoScopeTyped DEF NoWalk, Walks, Dirs

LEMMA ToldTyped ==
    ASSUME NEW r \in Requests, NEW row, dirtyAt \in Times
    PROVE  Told(r, row) \in Requests
<1>1. [r EXCEPT !.answer = "complete", !.at = IF dirtyAt > @ THEN dirtyAt ELSE @] \in Requests
  BY DEF Requests
<1>2. [r EXCEPT !.answer = "deferred"] \in Requests
  BY DEF Requests
<1> QED BY <1>1, <1>2 DEF Told

LEMMA QueuedTyped ==
    ASSUME NEW parent \in 0 .. MaxJobs, dirty \in 0 .. MaxEvents
    PROVE  Queued(parent) \in JobRows
<1>1. 0 \in Times /\ 0 \in Nat
  BY Bounds DEF Times
<1> QED BY <1>1, NoScopeTyped DEF Queued, JobRows

(* The variables, in their types and with the counters that bound them.     *)
Clock == /\ hist \in Seq(Disks) /\ Now >= 1 /\ Now <= events + 1
         /\ dirtyAt \in 1 .. Now /\ dirty \in 0 .. events /\ events \in 0 .. MaxEvents
         /\ rows \in [Files -> Times]
JobsTyped     == jobs \in Seq(JobRows) /\ Len(jobs) <= MaxJobs
RequestsTyped == requests \in Seq(Requests) /\ Len(requests) <= MaxRequests
WalksTyped    == walks \in [Procs -> Walks]
RequestsKnown == \A n \in DOMAIN requests : requests[n].job \in DOMAIN jobs
Typed == Clock /\ JobsTyped /\ RequestsTyped /\ WalksTyped

LEMMA ClockFacts ==
    ASSUME Clock
    PROVE  /\ Now \in Times /\ Now \in Nat /\ dirtyAt \in Times /\ dirty \in 0 .. MaxEvents
           /\ Disk \in Disks
<1>1. Now \in Nat
  BY LenProperties DEF Clock, Now
<1>2. Now \in 1 .. Len(hist)
  BY <1>1 DEF Clock, Now
<1>3. Disk \in Disks
  BY <1>2, ElementOfSeq DEF Clock, Disk
<1> QED BY <1>1, <1>3, Bounds DEF Clock, Times

LEMMA JobFacts ==
    ASSUME NEW J \in Seq(JobRows), Len(J) <= MaxJobs
    PROVE  /\ Len(J) \in Nat /\ DOMAIN J = 1 .. Len(J) /\ DOMAIN J \subseteq JobIds
           /\ \A j \in DOMAIN J : J[j] \in JobRows
BY LenProperties, ElementOfSeq, Bounds DEF JobIds

LEMMA RecoveredTyped ==
    ASSUME JobsTyped
    PROVE  /\ Recovered \in Seq(JobRows) /\ Len(Recovered) = Len(jobs)
           /\ DOMAIN Recovered = DOMAIN jobs
<1>1. /\ Len(jobs) \in Nat /\ DOMAIN jobs = 1 .. Len(jobs)
      /\ \A j \in DOMAIN jobs : jobs[j] \in JobRows
  BY JobFacts DEF JobsTyped
<1>2. \A j \in DOMAIN jobs : [jobs[j] EXCEPT !.state = "stale", !.lease = FALSE] \in JobRows
  BY <1>1 DEF JobRows
<1>3. Recovered \in [1 .. Len(jobs) -> JobRows]
  BY <1>1, <1>2 DEF Recovered
<1> QED BY <1>1, <1>3, LenProperties

LEMMA ServeTyped ==
    ASSUME Typed, NEW p \in Procs, NEW J \in Seq(JobRows), Len(J) <= MaxJobs, NEW j \in DOMAIN J,
           NEW n \in 1 .. MaxRequests, n \in DOMAIN requests \/ n = Len(requests) + 1,
           NEW r \in Requests, Serve(p, J, j, n, r)
    PROVE  Typed'
<1> DEFINE ends == J[j].state \in {"complete", "unavailable"} \/ J[j].deferred
           row  == IF ends \/ Running(J) THEN J[j] ELSE Claimed(J[j])
           told == IF ends THEN Told([r EXCEPT !.job = j], row) ELSE [r EXCEPT !.job = j]
<1>1. /\ jobs' = [J EXCEPT ![j] = row]
      /\ requests' = IF n \in DOMAIN requests THEN [requests EXCEPT ![n] = told]
                     ELSE Append(requests, told)
      /\ walks' = IF row = J[j] THEN walks ELSE [walks EXCEPT ![p] = WalkOf(row, j, n)]
      /\ UNCHANGED <<hist, rows, dirty, dirtyAt, events>>
  BY DEF Serve
<1>2. Now \in Times /\ dirtyAt \in Times /\ Disk \in Disks
  BY ClockFacts DEF Typed
<1>3. J[j] \in JobRows /\ j \in JobIds /\ j \in 1 .. Len(J)
  BY JobFacts
<1>4. row \in JobRows
  BY <1>2, <1>3, ClaimedTyped
<1>5. [r EXCEPT !.job = j] \in Requests
  BY <1>3 DEF Requests
<1>6. told \in Requests
  BY <1>2, <1>5, ToldTyped
<1>7. WalkOf(row, j, n) \in Walks
  BY <1>2, <1>3, <1>4, WalkTyped
<1> HIDE DEF row, told, ends
<1>8. JobsTyped'
  BY <1>1, <1>3, <1>4, ExceptSeq DEF JobsTyped
<1>9. RequestsTyped'
  <2>1. requests \in Seq(Requests) /\ Len(requests) <= MaxRequests /\ DOMAIN requests = 1 .. Len(requests)
        /\ Len(requests) \in Nat
    BY LenProperties DEF Typed, RequestsTyped
  <2>2. CASE n \in DOMAIN requests
    BY <1>1, <1>6, <2>1, <2>2, ExceptSeq DEF RequestsTyped
  <2>3. CASE n \notin DOMAIN requests
    <3>1. requests' = Append(requests, told)
      BY <1>1, <2>3
    <3>2. requests' \in Seq(Requests) /\ Len(requests') = Len(requests) + 1
      BY <1>6, <2>1, <3>1
    <3> QED BY <2>1, <2>3, <3>2, Bounds DEF RequestsTyped
  <2> QED BY <2>2, <2>3
<1>10. WalksTyped'
  BY <1>1, <1>7 DEF Typed, WalksTyped
<1>11. Clock'
  BY <1>1 DEF Typed, Clock, Now
<1> QED BY <1>8, <1>9, <1>10, <1>11 DEF Typed

LEMMA AppendTyped ==
    ASSUME NEW J \in Seq(JobRows), NEW row \in JobRows
    PROVE  /\ Append(J, row) \in Seq(JobRows) /\ Len(Append(J, row)) = Len(J) + 1
           /\ Len(J) + 1 \in DOMAIN Append(J, row)
           /\ Append(J, row)[Len(J) + 1] = row
           /\ \A j \in DOMAIN J : j \in DOMAIN Append(J, row) /\ Append(J, row)[j] = J[j]
<1>1. Len(J) \in Nat /\ DOMAIN J = 1 .. Len(J)
  BY LenProperties
<1>2. Append(J, row) \in Seq(JobRows) /\ Len(Append(J, row)) = Len(J) + 1
  OBVIOUS
<1>3. DOMAIN Append(J, row) = 1 .. Len(J) + 1
  BY <1>2, LenProperties
<1> QED BY <1>1, <1>2, <1>3

(* What admission hands to Serve: the jobs as recovered, perhaps with a new *)
(* one at the end.  A job that is going to be claimed was not overtaken by  *)
(* a dirty event, and if it failed it may be resumed.                       *)
Fit(row) == row.dirty >= dirty /\ (row.state = "failed" => row.resume)
Served(row) == row.state \in {"complete", "unavailable"} \/ row.deferred
Fresh(row) == row \in JobRows /\ row.state = "queued" /\ row.token = 0 /\ row.dirty = dirty

(* Where the jobs J, the job j and the row r that are handed over come from *)
(* (scan, resume_scan and the continuation of observation.rs).              *)
NewDemand(reuse) ==
    [job |-> 1, parent |-> 0, reuse |-> reuse,
     before |-> IF reuse THEN {} ELSE {j \in DOMAIN Recovered : Recovered[j].started},
     at |-> IF reuse THEN 1 ELSE Now, active |-> TRUE, answer |-> "none"]
Child(j) == [Queued(j) EXCEPT !.started = TRUE, !.at = jobs[j].at,
                !.pinned = jobs[j].pinned, !.seen = jobs[j].seen,
                !.scopes = [d \in Dirs |->
                    IF jobs[j].scopes[d].state \in {"none", "complete"} THEN jobs[j].scopes[d]
                    ELSE [jobs[j].scopes[d] EXCEPT !.state = "pending"]]]
Continued(r) == [r EXCEPT !.parent = r.job, !.reuse = FALSE, !.active = TRUE, !.answer = "none",
                          !.at = IF jobs[r.job].at < @ THEN jobs[r.job].at ELSE @]
Origin(J, j, n, r) ==
    \/ /\ n = Len(requests) + 1
       /\ \E reuse \in BOOLEAN : r = NewDemand(reuse) /\
             \/ J = Recovered /\ j \in UNION {Reusable(J, r, {"complete", "unavailable"}),
                                             Blocked(J), Joinable(J, r)}
             \/ J = Append(Recovered, Queued(0)) /\ j = Len(Recovered) + 1
    \/ /\ n \in DOMAIN requests /\ r = requests[n]
       /\ \/ J = Recovered /\ j = r.job /\ J[j].dirty >= dirty
          \/ /\ Recovered[r.job].state # "running" \/ ~ Recovered[r.job].dirty >= dirty
             /\ \/ J = Recovered /\ j \in Joinable(J, r) \union Reusable(J, r, {"complete"})
                \/ J = Append(Recovered, Queued(r.parent)) /\ j = Len(Recovered) + 1
    \/ /\ n = Len(requests) + 1
       /\ \E m \in DOMAIN requests :
          /\ r = Continued(requests[m])
          /\ J = Append(Recovered, Child(requests[m].job)) /\ j = Len(Recovered) + 1
          /\ jobs[requests[m].job].state \notin {"queued", "running"}
          /\ dirty <= jobs[requests[m].job].dirty

Admits(p, J, j, n, r) ==
    /\ Origin(J, j, n, r)
    /\ Serve(p, J, j, n, r) /\ J \in Seq(JobRows) /\ Len(J) <= MaxJobs /\ j \in DOMAIN J
    /\ n \in 1 .. MaxRequests /\ (n \in DOMAIN requests \/ n = Len(requests) + 1)
    /\ r \in Requests
    /\ Served(J[j]) \/ J[j].state = "running" \/ Fit(J[j])
    /\ \/ J = Recovered
       \/ \E row : J = Append(Recovered, row) /\ Fresh(row)

LEMMA AdmitsNew ==
    ASSUME Typed, NEW p, NEW row, Fresh(row), NEW n, NEW r,
           Origin(Append(Recovered, row), Len(Recovered) + 1, n, r), Len(Recovered) < MaxJobs, Serve(p, Append(Recovered, row), Len(Recovered) + 1, n, r),
           n \in 1 .. MaxRequests, n \in DOMAIN requests \/ n = Len(requests) + 1, r \in Requests
    PROVE  \E J, j : Admits(p, J, j, n, r)
<1>1. Recovered \in Seq(JobRows) /\ Len(Recovered) \in Nat
  BY RecoveredTyped, LenProperties DEF Typed
<1>2. /\ Append(Recovered, row) \in Seq(JobRows) /\ Len(Append(Recovered, row)) <= MaxJobs
      /\ Len(Recovered) + 1 \in DOMAIN Append(Recovered, row)
      /\ Append(Recovered, row)[Len(Recovered) + 1] = row
  BY <1>1, AppendTyped, Bounds DEF Fresh
<1>3. Fit(row)
  BY ClockFacts DEF Fresh, Fit, Typed
<1>4. Admits(p, Append(Recovered, row), Len(Recovered) + 1, n, r)
  BY <1>2, <1>3 DEF Admits
<1> QED BY <1>4

LEMMA AdmitsOld ==
    ASSUME Typed, NEW p, NEW j \in DOMAIN Recovered, NEW n, NEW r,
           Origin(Recovered, j, n, r), Serve(p, Recovered, j, n, r),
           Served(Recovered[j]) \/ Recovered[j].state = "running" \/ Fit(Recovered[j]),
           n \in 1 .. MaxRequests, n \in DOMAIN requests \/ n = Len(requests) + 1, r \in Requests
    PROVE  \E J, k : Admits(p, J, k, n, r)
<1>1. Recovered \in Seq(JobRows) /\ Len(Recovered) <= MaxJobs
  BY RecoveredTyped DEF Typed, JobsTyped
<1>2. Admits(p, Recovered, j, n, r)
  BY <1>1 DEF Admits
<1> QED BY <1>2

LEMMA RequestFacts ==
    ASSUME Typed
    PROVE  /\ Len(requests) \in Nat /\ DOMAIN requests = 1 .. Len(requests)
           /\ Len(requests) <= MaxRequests
           /\ \A n \in DOMAIN requests : requests[n] \in Requests
BY LenProperties, ElementOfSeq DEF Typed, RequestsTyped

LEMMA RequestAdmits ==
    ASSUME Typed, NEW p \in Procs, NEW reuse \in BOOLEAN, Request(p, reuse)
    PROVE  walks[p] = NoWalk /\ \E J, j, n, r : Admits(p, J, j, n, r)
<1> DEFINE J == Recovered
           r == [job |-> 1, parent |-> 0, reuse |-> reuse,
                 before |-> IF reuse THEN {} ELSE {j \in DOMAIN J : J[j].started},
                 at |-> IF reuse THEN 1 ELSE Now, active |-> TRUE, answer |-> "none"]
           n == Len(requests) + 1
<1>1. n \in 1 .. MaxRequests
  BY RequestFacts, Bounds DEF Request
<1>2. DOMAIN J \subseteq JobIds /\ Len(J) \in Nat /\ Len(J) <= MaxJobs
  BY RecoveredTyped, JobFacts DEF Typed, JobsTyped
<1>3. CASE DOMAIN J = {} /\ MaxJobs = 0
  BY <1>3 DEF Request, Reusable, Blocked, Joinable, Compatible, Latest
<1>4. CASE MaxJobs > 0
  <2>1. 1 \in JobIds /\ 1 \in Times /\ Now \in Times /\ 0 \in 0 .. MaxJobs
    BY <1>4, ClockFacts, Bounds DEF JobIds, Times, Typed
  <2>2. (IF reuse THEN {} ELSE {j \in DOMAIN J : J[j].started}) \in SUBSET JobIds
    BY <1>2
  <2>3. r \in Requests
    BY <2>1, <2>2 DEF Requests
  <2>4. Fresh(Queued(0))
    BY <2>1, QueuedTyped, ClockFacts DEF Queued, Typed, Fresh
  <2>o. r = NewDemand(reuse)
    BY DEF NewDemand
  <2> HIDE DEF r
  <2>5. ASSUME NEW j \in DOMAIN J, Serve(p, J, j, n, r), Origin(J, j, n, r),
               Served(J[j]) \/ J[j].state = "running" \/ Fit(J[j])
        PROVE  \E K, k : Admits(p, K, k, n, r)
    BY <1>1, <2>3, <2>5, AdmitsOld
  <2>6. ASSUME Len(J) < MaxJobs, Serve(p, Append(J, Queued(0)), Len(J) + 1, n, r)
        PROVE  \E K, k : Admits(p, K, k, n, r)
    <3>1. Origin(Append(J, Queued(0)), Len(J) + 1, n, r)
      BY <2>o DEF Origin
    <3> QED BY <1>1, <2>3, <2>4, <2>6, <3>1, AdmitsNew
  <2> DEFINE pool == UNION {Reusable(J, r, {"complete", "unavailable"}), Blocked(J), Joinable(J, r)}
  <2>a. \A j \in pool : Origin(J, j, n, r)
    BY <2>o DEF Origin
  <2>b. \A j \in pool : j \in DOMAIN J
    BY DEF Reusable, Blocked, Joinable, Compatible
  <2>c. \A j \in pool : Served(J[j]) \/ J[j].state = "running" \/ Fit(J[j])
    BY DEF Reusable, Blocked, Joinable, Compatible, Served, Fit
  <2>d. \/ \E j \in pool : Serve(p, J, j, n, r)
        \/ Len(J) < MaxJobs /\ Serve(p, Append(J, Queued(0)), Len(J) + 1, n, r)
    BY DEF Request, Latest, r
  <2>7. \/ \E j \in DOMAIN J : /\ Serve(p, J, j, n, r) /\ Origin(J, j, n, r)
                               /\ Served(J[j]) \/ J[j].state = "running" \/ Fit(J[j])
        \/ Len(J) < MaxJobs /\ Serve(p, Append(J, Queued(0)), Len(J) + 1, n, r)
    BY <2>a, <2>b, <2>c, <2>d
  <2>8. walks[p] = NoWalk
    BY DEF Request
  <2> QED BY <2>5, <2>6, <2>7, <2>8
<1> QED BY <1>2, <1>3, <1>4, Bounds, RecoveredTyped, LenProperties DEF Typed

LEMMA ResumeAdmits ==
    ASSUME Typed, NEW p \in Procs, NEW n \in DOMAIN requests, RequestsKnown, Resume(p, n)
    PROVE  walks[p] = NoWalk /\ \E J, j, k, r : Admits(p, J, j, k, r)
<1> DEFINE J == Recovered
           r == requests[n]
<1>1. n \in 1 .. MaxRequests /\ r \in Requests
  BY RequestFacts, Bounds
<1>2. r.job \in DOMAIN J
  BY RecoveredTyped DEF Typed, RequestsKnown
<1>3. Fresh(Queued(r.parent))
  BY <1>1, QueuedTyped, ClockFacts DEF Queued, Typed, Requests, Fresh
<1> DEFINE stale == J[r.job].state # "running" \/ ~ J[r.job].dirty >= dirty
           pool == Joinable(J, r) \union Reusable(J, r, {"complete"})
<1>4. ASSUME NEW j \in DOMAIN J, Serve(p, J, j, n, r), Origin(J, j, n, r),
             Served(J[j]) \/ J[j].state = "running" \/ Fit(J[j])
      PROVE  \E K, k : Admits(p, K, k, n, r)
  BY <1>1, <1>4, AdmitsOld
<1>5. ASSUME Len(J) < MaxJobs, stale, Serve(p, Append(J, Queued(r.parent)), Len(J) + 1, n, r)
      PROVE  \E K, k : Admits(p, K, k, n, r)
  <2>1. Origin(Append(J, Queued(r.parent)), Len(J) + 1, n, r)
    BY <1>5 DEF Origin
  <2> QED BY <1>1, <1>3, <1>5, <2>1, AdmitsNew
<1>a. \A j \in pool : /\ j \in DOMAIN J /\ (stale => Origin(J, j, n, r))
                      /\ Served(J[j]) \/ J[j].state = "running" \/ Fit(J[j])
  <2>1. \A j \in pool : stale => Origin(J, j, n, r)
    BY DEF Origin
  <2> QED BY <2>1 DEF Reusable, Joinable, Compatible, Served, Fit
<1>b. \/ /\ Serve(p, J, r.job, n, r) /\ J[r.job].dirty >= dirty
         /\ Served(J[r.job]) \/ J[r.job].state = "running" \/ Fit(J[r.job])
      \/ stale /\ \E j \in pool : Serve(p, J, j, n, r)
      \/ stale /\ Len(J) < MaxJobs /\ Serve(p, Append(J, Queued(r.parent)), Len(J) + 1, n, r)
  BY DEF Resume, Latest, Served, Fit
<1>c. J[r.job].dirty >= dirty => Origin(J, r.job, n, r)
  BY DEF Origin
<1>6. \/ \E j \in DOMAIN J : /\ Serve(p, J, j, n, r) /\ Origin(J, j, n, r)
                             /\ Served(J[j]) \/ J[j].state = "running" \/ Fit(J[j])
      \/ stale /\ Len(J) < MaxJobs /\ Serve(p, Append(J, Queued(r.parent)), Len(J) + 1, n, r)
  BY <1>2, <1>a, <1>b, <1>c
<1>7. walks[p] = NoWalk
  BY DEF Resume
<1> QED BY <1>4, <1>5, <1>6, <1>7

LEMMA ContinueAdmits ==
    ASSUME Typed, NEW p \in Procs, NEW n \in DOMAIN requests, RequestsKnown, Continue(p, n)
    PROVE  walks[p] = NoWalk /\ \E J, j, k, r : Admits(p, J, j, k, r)
<1> DEFINE J == Recovered
           r == requests[n]
           parent == jobs[r.job]
           scopes == [d \in Dirs |->
                        IF parent.scopes[d].state \in {"none", "complete"} THEN parent.scopes[d]
                        ELSE [parent.scopes[d] EXCEPT !.state = "pending"]]
           child == [Queued(r.job) EXCEPT !.started = TRUE, !.at = parent.at,
                        !.pinned = parent.pinned, !.seen = parent.seen, !.scopes = scopes]
           next == [r EXCEPT !.parent = r.job, !.reuse = FALSE, !.active = TRUE, !.answer = "none",
                             !.at = IF parent.at < @ THEN parent.at ELSE @]
<1>1. r \in Requests /\ r.job \in DOMAIN jobs /\ r.job \in 0 .. MaxJobs
  BY RequestFacts, Bounds DEF Requests, JobIds, RequestsKnown
<1>2. parent \in JobRows
  BY <1>1, JobFacts DEF Typed, JobsTyped
<1>3. scopes \in Scopes
  BY <1>2 DEF JobRows, Scopes, ScopeStates
<1>4. Fresh(Queued(r.job))
  BY <1>1, QueuedTyped, ClockFacts DEF Queued, Typed, Fresh
<1> HIDE DEF scopes
<1>5. Fresh(child)
  BY <1>2, <1>3, <1>4 DEF JobRows, Fresh
<1>6. next \in Requests
  BY <1>1, <1>2 DEF Requests, JobRows
<1>7. Len(requests) + 1 \in 1 .. MaxRequests
  BY RequestFacts, Bounds DEF Continue
<1>8. walks[p] = NoWalk /\ Len(J) < MaxJobs
      /\ Serve(p, Append(J, child), Len(J) + 1, Len(requests) + 1, next)
  BY DEF Continue, scopes
<1>9. Origin(Append(J, child), Len(J) + 1, Len(requests) + 1, next)
  <2>1. child = Child(r.job) /\ next = Continued(r)
    BY DEF Child, Continued, scopes
  <2>2. parent.state \notin {"queued", "running"} /\ dirty <= parent.dirty
    BY DEF Continue
  <2> HIDE DEF child, next
  <2> QED BY <2>1, <2>2 DEF Origin
<1> HIDE DEF child, next
<1> QED BY <1>5, <1>6, <1>7, <1>8, <1>9, AdmitsNew

-----------------------------------------------------------------------------
(* Who walks.  A process that is not idle walks for a running job, and no   *)
(* other process does: jobs are claimed only when none is running, and a    *)
(* running job that somebody walks for is never taken for abandoned.        *)

Walker(p) == walks[p].pc # "idle"

Engaged ==
    /\ \A p \in Procs : ~Walker(p) => walks[p] = NoWalk
    /\ \A p \in Procs : Walker(p) =>
          /\ walks[p].job \in DOMAIN jobs /\ walks[p].req \in DOMAIN requests
          /\ jobs[walks[p].job].state = "running"

Alone == \A p, q \in Procs : Walker(p) /\ Walker(q) => p = q

TInv == Typed /\ RequestsKnown /\ Engaged /\ Alone

LEMMA IdleWalk == NoWalk.pc = "idle" /\ NoWalk.job = 0
BY DEF NoWalk

LEMMA AdmitsSafe ==
    ASSUME TInv, NEW p \in Procs, walks[p] = NoWalk,
           NEW J, NEW j, NEW n, NEW r, Admits(p, J, j, n, r)
    PROVE  TInv'
<1> USE DEF TInv
<1> DEFINE ends == J[j].state \in {"complete", "unavailable"} \/ J[j].deferred
           row  == IF ends \/ Running(J) THEN J[j] ELSE Claimed(J[j])
           told == IF ends THEN Told([r EXCEPT !.job = j], row) ELSE [r EXCEPT !.job = j]
<1>1. /\ jobs' = [J EXCEPT ![j] = row]
      /\ requests' = IF n \in DOMAIN requests THEN [requests EXCEPT ![n] = told]
                     ELSE Append(requests, told)
      /\ walks' = IF row = J[j] THEN walks ELSE [walks EXCEPT ![p] = WalkOf(row, j, n)]
  BY DEF Admits, Serve
<1>2. J \in Seq(JobRows) /\ j \in DOMAIN J /\ n \in 1 .. MaxRequests /\ r \in Requests
      /\ (n \in DOMAIN requests \/ n = Len(requests) + 1) /\ Len(J) <= MaxJobs
      /\ DOMAIN J \subseteq JobIds
  BY JobFacts DEF Admits
<1>3. Typed'
  BY <1>2, ServeTyped DEF Admits
<1>4. /\ DOMAIN jobs \subseteq DOMAIN J
      /\ \A k \in DOMAIN jobs : J[k] = Recovered[k]
  <2>1. Recovered \in Seq(JobRows) /\ DOMAIN Recovered = DOMAIN jobs
    BY RecoveredTyped DEF Typed
  <2> QED BY <2>1, AppendTyped DEF Admits, Fresh
<1>5. DOMAIN jobs' = DOMAIN J
  BY <1>1
<1>6. told.job = j
  BY <1>2 DEF Told, Requests
<1>7. DOMAIN requests \subseteq DOMAIN requests' /\ n \in DOMAIN requests'
      /\ requests'[n] = told /\ \A k \in DOMAIN requests' : k # n => k \in DOMAIN requests /\ requests'[k] = requests[k]
  <2>1. requests \in Seq(Requests) /\ DOMAIN requests = 1 .. Len(requests) /\ Len(requests) \in Nat
    BY LenProperties DEF Typed, RequestsTyped
  <2>2. CASE n \in DOMAIN requests
    BY <1>1, <2>1, <2>2
  <2>3. CASE n \notin DOMAIN requests
    <3>1. requests' = Append(requests, told) /\ n = Len(requests) + 1
      BY <1>1, <1>2, <2>3
    <3>2. requests' \in Seq(Requests)
      BY <1>3 DEF Typed, RequestsTyped
    <3>3. Len(requests') = Len(requests) + 1 /\ DOMAIN requests' = 1 .. Len(requests')
      BY <2>1, <3>1, <3>2, LenProperties
    <3> QED BY <2>1, <3>1, <3>3
  <2> QED BY <2>2, <2>3
<1> HIDE DEF told
<1>8. RequestsKnown'
  BY <1>2, <1>4, <1>5, <1>6, <1>7 DEF RequestsKnown
<1>9. \A q \in Procs : Walker(q) => Recovered[walks[q].job] = jobs[walks[q].job]
  BY DEF Engaged, Recovered, Abandoned, Walking
<1>10. \A q \in Procs : Walker(q) => /\ walks[q].job \in DOMAIN J
                                    /\ J[walks[q].job].state = "running"
  BY <1>4, <1>9 DEF Engaged
<1>11. CASE row = J[j]
  <2>1. walks' = walks /\ \A k \in DOMAIN J : jobs'[k] = J[k]
    BY <1>1, <1>2, <1>11
  <2>2. Engaged'
    BY <1>5, <1>7, <1>10, <2>1 DEF Engaged, Walker
  <2> QED BY <1>3, <1>8, <2>1, <2>2 DEF Alone, Walker
<1>12. CASE row # J[j]
  <2>1. ~Running(J)
    BY <1>12
  <2>2. \A q \in Procs : ~Walker(q)
    BY <1>10, <2>1 DEF Running
  <2>3. \A q \in Procs : q # p => walks'[q] = NoWalk
    BY <1>1, <1>12, <2>2 DEF Engaged, Typed, WalksTyped
  <2>4. walks'[p] = WalkOf(row, j, n) /\ jobs'[j] = row
    BY <1>1, <1>2, <1>12 DEF Typed, WalksTyped
  <2> HIDE DEF row
  <2>5. CASE row.state # "running"
    <3>1. walks'[p] = NoWalk
      BY <2>4, <2>5 DEF WalkOf
    <3> QED BY <1>3, <1>8, <2>3, <3>1, IdleWalk DEF Engaged, Alone, Walker
  <2>6. CASE row.state = "running"
    <3>1. walks'[p].job = j /\ walks'[p].req = n /\ walks'[p].pc = "walk"
      BY <2>4, <2>6 DEF WalkOf, NoWalk
    <3>2. Engaged'
      BY <1>2, <1>5, <1>7, <2>3, <2>4, <2>6, <3>1, IdleWalk DEF Engaged, Walker
    <3> QED BY <1>3, <1>8, <2>3, <3>2, IdleWalk DEF Alone, Walker
  <2> QED BY <2>5, <2>6
<1> QED BY <1>11, <1>12

LEMMA AdmissionSafe ==
    ASSUME TInv, Admission
    PROVE  TInv'
BY RequestAdmits, ResumeAdmits, ContinueAdmits, AdmitsSafe DEF Admission, TInv

LEMMA WalkerFacts ==
    ASSUME TInv, NEW p \in Procs
    PROVE  /\ walks[p] \in Walks
           /\ Walker(p) => /\ walks[p].job \in DOMAIN jobs /\ walks[p].job \in 1 .. Len(jobs)
                           /\ walks[p].req \in DOMAIN requests
                           /\ jobs[walks[p].job] \in JobRows
                           /\ jobs[walks[p].job].state = "running"
           /\ walks \in [Procs -> Walks] /\ jobs \in Seq(JobRows)
BY JobFacts DEF TInv, Typed, WalksTyped, JobsTyped, Engaged

(* A walk goes on: its job stays running, nothing else of the catalog's     *)
(* bookkeeping changes.                                                     *)
LEMMA GoesOnSafe ==
    ASSUME TInv, NEW p \in Procs, Walker(p), NEW w \in Walks, NEW row \in JobRows,
           w.job = walks[p].job, w.req = walks[p].req, w.pc # "idle", row.state = "running",
           walks' = [walks EXCEPT ![p] = w],
           jobs' = jobs \/ jobs' = [jobs EXCEPT ![w.job] = row],
           Clock', UNCHANGED requests
    PROVE  TInv'
<1>1. walks \in [Procs -> Walks] /\ w.job \in 1 .. Len(jobs) /\ jobs \in Seq(JobRows)
  BY WalkerFacts
<1>2. /\ DOMAIN jobs' = DOMAIN jobs /\ JobsTyped'
      /\ \A k \in DOMAIN jobs : jobs[k].state = "running" => jobs'[k].state = "running"
  <2>1. CASE jobs' = jobs
    BY <2>1 DEF TInv, Typed, JobsTyped
  <2>2. CASE jobs' = [jobs EXCEPT ![w.job] = row]
    <3>1. JobsTyped'
      BY <1>1, <2>2, ExceptSeq DEF TInv, Typed, JobsTyped
    <3> QED BY <2>2, <3>1
  <2> QED BY <2>1, <2>2
<1>3. WalksTyped' /\ RequestsTyped'
  BY <1>1 DEF WalksTyped, RequestsTyped, TInv, Typed
<1>4. RequestsKnown'
  BY <1>2 DEF TInv, RequestsKnown
<1>5. \A q \in Procs : /\ q # p => walks'[q] = walks[q]
                       /\ q = p => walks'[q] = w
  BY <1>1
<1>6. Engaged' /\ Alone'
  BY <1>2, <1>5 DEF TInv, Engaged, Alone, Walker
<1> QED BY <1>2, <1>3, <1>4, <1>6 DEF TInv, Typed

LEMMA ClockStays ==
    ASSUME TInv, Stays, rows' \in [Files -> Times]
    PROVE  Clock' /\ UNCHANGED requests
BY DEF TInv, Typed, Clock, Stays, Now

LEMMA StepSafe ==
    ASSUME TInv, NEW p \in Procs, Walker(p), NEW w \in Walks,
           w.job = walks[p].job, w.req = walks[p].req, w.pc # "idle", Steps(p, w)
    PROVE  TInv'
<1>1. rows' \in [Files -> Times]
  BY DEF TInv, Typed, Clock, Steps
<1> QED BY <1>1, WalkerFacts, ClockStays, GoesOnSafe DEF Steps

LEMMA PublishedTyped ==
    ASSUME NEW w \in Walks, NEW verified, w.job \in DOMAIN jobs, jobs[w.job] \in JobRows
    PROVE  Published(w, verified) \in JobRows /\ Published(w, verified).state = jobs[w.job].state
<1> DEFINE row    == jobs[w.job]
           begun  == {d \in w.dirs : w.queue[d].state = "running"}
           scopes == [d \in Dirs |->
                        IF d \notin w.dirs THEN row.scopes[d]
                        ELSE IF w.queue[d].state = "complete" /\ d \notin verified
                        THEN [w.queue[d] EXCEPT !.state = "failed"] ELSE w.queue[d]]
           seen == {f \in Files : w.entries[f] # 0 \/ (f \in row.seen /\ In[f] \notin begun)}
<1>1. w.queue \in Scopes /\ row.scopes \in Scopes
  BY DEF Walks, JobRows
<1>2. scopes \in Scopes
  BY <1>1 DEF Scopes, ScopeStates
<1>3. seen \in SUBSET Files
  OBVIOUS
<1>4. Published(w, verified) = [row EXCEPT !.scopes = scopes, !.seen = seen]
  BY DEF Published
<1> HIDE DEF scopes, seen
<1> QED BY <1>2, <1>3, <1>4 DEF JobRows

LEMMA FlushSafe ==
    ASSUME TInv, NEW p \in Procs, Walker(p), NEW w \in Walks, NEW verified, NEW next \in Walks,
           w.job = walks[p].job, next.job = w.job, next.req = walks[p].req, next.pc # "idle",
           Flush(p, w, verified, next), Stays
    PROVE  TInv'
<1> DEFINE v == [next EXCEPT !.dirs = {}, !.entries = NoWalk.entries]
           row == Published(w, verified)
<1>1. 0 \in Times
  BY Bounds DEF Times
<1>2. v \in Walks /\ v.job = w.job /\ v.req = walks[p].req /\ v.pc # "idle"
  BY <1>1 DEF Walks, NoWalk
<1>3. row \in JobRows /\ row.state = "running"
  BY WalkerFacts, PublishedTyped
<1>4. w.entries \in [Files -> Times] /\ rows \in [Files -> Times]
  BY DEF Walks, TInv, Typed, Clock
<1>5. rows' \in [Files -> Times]
  BY <1>1, <1>4 DEF Flush
<1>6. walks' = [walks EXCEPT ![p] = v] /\ jobs' = [jobs EXCEPT ![v.job] = row]
  BY <1>2 DEF Flush
<1> HIDE DEF v, row
<1> QED BY <1>2, <1>3, <1>5, <1>6, ClockStays, GoesOnSafe

LEMMA EndsSafe ==
    ASSUME TInv, NEW p \in Procs, Walker(p), NEW row \in JobRows,
           jobs' = jobs \/ jobs' = [jobs EXCEPT ![walks[p].job] = row],
           \/ requests' = requests
           \/ requests' = [requests EXCEPT ![walks[p].req] = IF @.active THEN Told(@, row) ELSE @],
           walks' = [walks EXCEPT ![p] = NoWalk], Clock'
    PROVE  TInv'
<1>1. walks \in [Procs -> Walks] /\ walks[p].job \in 1 .. Len(jobs) /\ jobs \in Seq(JobRows)
      /\ walks[p].req \in DOMAIN requests
  BY WalkerFacts
<1>2. DOMAIN jobs' = DOMAIN jobs /\ JobsTyped' /\ \A k \in DOMAIN jobs : k # walks[p].job => jobs'[k] = jobs[k]
  <2>1. CASE jobs' = jobs
    BY <2>1 DEF TInv, Typed, JobsTyped
  <2>2. CASE jobs' = [jobs EXCEPT ![walks[p].job] = row]
    <3>1. JobsTyped'
      BY <1>1, <2>2, ExceptSeq DEF TInv, Typed, JobsTyped
    <3> QED BY <2>2, <3>1
  <2> QED BY <2>1, <2>2
<1>3. /\ RequestsTyped' /\ DOMAIN requests' = DOMAIN requests
      /\ \A n \in DOMAIN requests : requests'[n].job = requests[n].job
  <2>1. CASE requests' = requests
    BY <2>1 DEF TInv, Typed, RequestsTyped
  <2>2. CASE requests' = [requests EXCEPT ![walks[p].req] = IF @.active THEN Told(@, row) ELSE @]
    <3> DEFINE n == walks[p].req
               r == IF requests[n].active THEN Told(requests[n], row) ELSE requests[n]
    <3>1. requests[n] \in Requests /\ n \in 1 .. Len(requests) /\ requests \in Seq(Requests)
      BY <1>1, RequestFacts DEF TInv, Typed, RequestsTyped
    <3>2. r \in Requests /\ r.job = requests[n].job
      <4>1. dirtyAt \in Times
        BY ClockFacts DEF TInv, Typed
      <4>2. Told(requests[n], row).job = requests[n].job
        BY <3>1 DEF Told, Requests
      <4> QED BY <3>1, <4>1, <4>2, ToldTyped
    <3>3. requests' = [requests EXCEPT ![n] = r]
      BY <2>2
    <3> HIDE DEF r
    <3>4. RequestsTyped'
      BY <3>1, <3>2, <3>3, ExceptSeq DEF TInv, Typed, RequestsTyped
    <3> QED BY <3>1, <3>2, <3>3, <3>4
  <2> QED BY <2>1, <2>2
<1>4. \A q \in Procs : /\ q # p => walks'[q] = walks[q]
                       /\ q = p => walks'[q] = NoWalk
  BY <1>1
<1>5. WalksTyped'
  <2>1. NoWalk \in Walks
    BY IdleTyped
  <2> QED BY <1>1, <2>1 DEF WalksTyped
<1>6. RequestsKnown'
  BY <1>2, <1>3 DEF TInv, RequestsKnown
<1>7. \A q \in Procs : Walker(q)' => q # p /\ Walker(q)
  BY <1>4, IdleWalk DEF Walker
<1>8. Engaged' /\ Alone'
  BY <1>2, <1>3, <1>4, <1>7, IdleWalk DEF TInv, Engaged, Alone, Walker
<1> QED BY <1>2, <1>3, <1>5, <1>6, <1>8 DEF TInv, Typed

(* The steps of a walk.                                                     *)
LEMMA DiskFacts ==
    ASSUME TInv
    PROVE  /\ Disk \in Disks /\ \A d \in Dirs : Disk.ident[d] \in Times /\ Disk.stamp[d] \in Times
           /\ \A f \in Files : Disk.ver[f] \in Times
           /\ 0 \in Times /\ Root \in Dirs
BY ClockFacts, Bounds DEF TInv, Typed, Disks, Times, Dirs

LEMMA OpenSafe ==
    ASSUME TInv, NEW p \in Procs, NEW d \in Dirs, Open(p, d)
    PROVE  TInv'
<1> DEFINE w == walks[p]
           ident == Opened(w, d)
           q == [w.queue EXCEPT ![d] = [state |-> "running", ident |-> ident]]
           v == [w EXCEPT !.queue[d] = [state |-> "running", ident |-> ident],
                       !.dirs = @ \union {d}, !.pc = "reading", !.dir = d, !.left = TRUE,
                       !.stamp = Disk.stamp[d], !.status = "complete"]
<1>1. w \in Walks /\ w.queue \in Scopes /\ w.dirs \in SUBSET Dirs /\ w.root \in Times
  BY WalkerFacts DEF Walks
<1>2. Walker(p)
  BY DEF Open, Walker
<1>3. ident \in Times
  BY <1>1, DiskFacts DEF Opened
<1>4. q \in Scopes
  BY <1>1, <1>3 DEF Scopes, ScopeStates
<1>5. v = [w EXCEPT !.queue = q, !.dirs = w.dirs \union {d}, !.pc = "reading", !.dir = d, !.left = TRUE,
                    !.stamp = Disk.stamp[d], !.status = "complete"]
  BY <1>1 DEF Walks
<1>6. Flush(p, v, {}, v) /\ Stays
  BY DEF Open
<1> HIDE DEF q, v
<1>7. v \in Walks /\ v.job = w.job /\ v.req = w.req /\ v.pc = "reading"
  BY <1>1, <1>4, <1>5, DiskFacts DEF Walks
<1> QED BY <1>2, <1>6, <1>7, FlushSafe

LEMMA CannotOpenSafe ==
    ASSUME TInv, NEW p \in Procs, NEW d \in Dirs, CannotOpen(p, d)
    PROVE  TInv'
<1> DEFINE w == walks[p]
           q == [w.queue EXCEPT ![d] = [state |-> "failed", ident |-> 0]]
           v == [w EXCEPT !.queue = q, !.dirs = w.dirs \union {d}]
<1>1. w \in Walks /\ w.queue \in Scopes /\ w.dirs \in SUBSET Dirs
  BY WalkerFacts DEF Walks
<1>2. Walker(p) /\ w.pc = "walk"
  BY DEF CannotOpen, Walker
<1>3. q \in Scopes
  BY <1>1, DiskFacts DEF Scopes, ScopeStates
<1>4. Steps(p, v)
  BY <1>1 DEF CannotOpen, Walks
<1> HIDE DEF q
<1>5. v \in Walks /\ v.job = w.job /\ v.req = w.req /\ v.pc = "walk"
  BY <1>1, <1>2, <1>3 DEF Walks
<1> HIDE DEF v
<1> QED BY <1>2, <1>4, <1>5, StepSafe

LEMMA ListedTyped ==
    ASSUME TInv, NEW w \in Walks, NEW names \in SUBSET (Files \union Subs)
    PROVE  Listed(w, names) \in Walks /\ Listed(w, names).job = w.job
           /\ Listed(w, names).req = w.req /\ Listed(w, names).pc = w.pc
<1> DEFINE there == IF InPlace(w) THEN names ELSE {}
           new == {s \in there \intersect Subs : Disk.ident[s] # 0 /\ w.queue[s].state = "none"}
           entries == [f \in Files |-> IF f \in there THEN Disk.ver[f] ELSE 0]
           queue == [d \in Dirs |-> IF d \in new THEN [state |-> "pending", ident |-> Disk.ident[d]]
                                    ELSE w.queue[d]]
<1>1. entries \in [Files -> Times]
  BY DiskFacts
<1>2. w.queue \in Scopes /\ w.dirs \in SUBSET Dirs
  BY DEF Walks
<1>3. queue \in Scopes
  BY <1>2, DiskFacts DEF Scopes, ScopeStates
<1>4. w.dirs \union new \in SUBSET Dirs
  BY <1>2 DEF Dirs
<1>5. Listed(w, names) = [w EXCEPT !.left = FALSE, !.dirs = w.dirs \union new,
                                   !.entries = entries, !.queue = queue]
  BY DEF Listed
<1> HIDE DEF entries, queue, new
<1> QED BY <1>1, <1>3, <1>4, <1>5 DEF Walks

LEMMA ListSafe ==
    ASSUME TInv, NEW p \in Procs, List(p)
    PROVE  TInv'
<1>1. Names(walks[p].dir) \in SUBSET (Files \union Subs)
  BY DEF Names
<1>2. Walker(p) /\ walks[p].pc = "reading" /\ Steps(p, Listed(walks[p], Names(walks[p].dir)))
  BY DEF List, Walker
<1> QED BY <1>1, <1>2, WalkerFacts, ListedTyped, StepSafe

LEMMA SpendFacts ==
    ASSUME TInv, Spend
    PROVE  events' \in 0 .. MaxEvents /\ events' = events + 1 /\ events \in Nat
BY Bounds DEF TInv, Typed, Clock, Spend

LEMMA ListPartSafe ==
    ASSUME TInv, NEW p \in Procs, NEW names \in SUBSET Names(walks[p].dir),
           NEW status \in {"failed", "deferred"}, ListPart(p, names, status)
    PROVE  TInv'
<1> DEFINE w == walks[p]
           v == [Listed(w, names) EXCEPT !.status = status]
<1>1. names \in SUBSET (Files \union Subs)
  BY DEF Names
<1>2. Walker(p) /\ w.pc = "reading" /\ walks' = [walks EXCEPT ![p] = v] /\ Spend
      /\ UNCHANGED <<hist, rows, dirty, dirtyAt, jobs, requests>>
  BY DEF ListPart, Walker
<1>3. v \in Walks /\ v.job = w.job /\ v.req = w.req /\ v.pc = "reading"
  <2>1. Listed(w, names) \in Walks /\ Listed(w, names).job = w.job
        /\ Listed(w, names).req = w.req /\ Listed(w, names).pc = "reading"
    BY <1>1, <1>2, WalkerFacts, ListedTyped
  <2> QED BY <2>1 DEF Walks
<1>4. Clock'
  BY <1>2, SpendFacts DEF TInv, Typed, Clock, Now
<1> HIDE DEF v
<1> QED BY <1>2, <1>3, <1>4, WalkerFacts, GoesOnSafe

LEMMA CheckpointSafe ==
    ASSUME TInv, NEW p \in Procs, Checkpoint(p)
    PROVE  TInv'
BY WalkerFacts, FlushSafe DEF Checkpoint, Walker

LEMMA CloseSafe ==
    ASSUME TInv, NEW p \in Procs, Close(p)
    PROVE  TInv'
<1> DEFINE w == walks[p]
           status == IF Disk.stamp[w.dir] # w.stamp THEN "deferred" ELSE w.status
           q == [w.queue EXCEPT ![w.dir].state = status]
           v == [w EXCEPT !.pc = "closed", !.queue = q, !.dirs = w.dirs \union {w.dir}]
<1>1. w \in Walks /\ w.queue \in Scopes /\ w.dirs \in SUBSET Dirs /\ w.dir \in Dirs
      /\ w.status \in {"complete", "failed", "deferred"}
  BY WalkerFacts DEF Walks
<1>2. Walker(p)
  BY DEF Close, Walker
<1>3. status \in ScopeStates
  BY <1>1 DEF ScopeStates
<1>4. q \in Scopes
  BY <1>1, <1>3 DEF Scopes
<1>5. Steps(p, v)
  BY <1>1 DEF Close, Walks
<1> HIDE DEF q
<1>6. v \in Walks /\ v.job = w.job /\ v.req = w.req /\ v.pc = "closed"
  BY <1>1, <1>4 DEF Walks
<1> HIDE DEF v
<1> QED BY <1>2, <1>5, <1>6, StepSafe

LEMMA RecheckSafe ==
    ASSUME TInv, NEW p \in Procs, Recheck(p)
    PROVE  TInv'
<1> DEFINE w == walks[p]
           ok == /\ w.queue[w.dir].state = "complete" /\ InPlace(w)
                 /\ Disk.stamp[w.dir] = w.stamp
           v == [w EXCEPT !.pc = "checked", !.verified = ok]
<1>1. w \in Walks /\ Walker(p) /\ Steps(p, v)
  BY WalkerFacts DEF Recheck, Walker
<1>2. ok \in BOOLEAN
  OBVIOUS
<1> HIDE DEF ok
<1>3. v \in Walks /\ v.job = w.job /\ v.req = w.req /\ v.pc = "checked"
  BY <1>1, <1>2 DEF Walks
<1> HIDE DEF v
<1> QED BY <1>1, <1>3, StepSafe

LEMMA CommitSafe ==
    ASSUME TInv, NEW p \in Procs, Commit(p)
    PROVE  TInv'
<1> DEFINE w == walks[p]
           v == [w EXCEPT !.pc = "walk", !.dir = Root, !.stamp = 0,
                       !.status = "complete", !.verified = FALSE]
<1>1. w \in Walks /\ Walker(p)
  BY WalkerFacts DEF Commit, Walker
<1>2. v \in Walks /\ v.job = w.job /\ v.req = w.req /\ v.pc = "walk"
  BY <1>1, DiskFacts DEF Walks
<1>3. Flush(p, w, IF w.verified THEN {w.dir} ELSE {}, v) /\ Stays
  BY DEF Commit
<1> HIDE DEF v
<1> QED BY <1>1, <1>2, <1>3, FlushSafe

(* The end of a walk.                                                       *)
LEMMA FinishedTyped ==
    ASSUME NEW row \in JobRows, NEW stopped \in BOOLEAN, NEW over \in BOOLEAN
    PROVE  Finished(row, stopped, over) \in JobRows
<1> DEFINE whole == ~ stopped /\ \A d \in Dirs : row.scopes[d].state \in {"none", "complete"}
           left == over \/ \E d \in Dirs : row.scopes[d].state = "deferred"
           state == IF whole THEN "complete" ELSE "failed"
<1>1. left \in BOOLEAN /\ state \in {"complete", "failed"}
  OBVIOUS
<1>2. Finished(row, stopped, over) =
        [row EXCEPT !.state = state, !.lease = FALSE, !.deferred = left, !.resume = FALSE]
  BY DEF Finished
<1> HIDE DEF left, state
<1> QED BY <1>1, <1>2 DEF JobRows

LEMMA FinishSafe ==
    ASSUME TInv, NEW p \in Procs, Finish(p)
    PROVE  TInv'
<1> DEFINE w == walks[p]
           row == Finished(Published(w, {}), FALSE, FALSE)
<1>1. w \in Walks /\ Walker(p)
  BY WalkerFacts DEF Finish, Walker
<1>2. row \in JobRows
  BY <1>1, WalkerFacts, PublishedTyped, FinishedTyped
<1>3. Ends(p, row) /\ UNCHANGED events
  BY DEF Finish
<1> HIDE DEF row
<1>4. Clock'
  BY <1>3 DEF Ends, TInv, Typed, Clock, Now
<1> QED BY <1>1, <1>2, <1>3, <1>4, EndsSafe DEF Ends

LEMMA AbortSafe ==
    ASSUME TInv, NEW p \in Procs, NEW over \in BOOLEAN, Abort(p, over)
    PROVE  TInv'
<1> DEFINE w == walks[p]
           row == Finished(jobs[w.job], TRUE, over)
<1>1. w \in Walks /\ Walker(p)
  BY WalkerFacts DEF Abort, Walker
<1>2. row \in JobRows
  BY <1>1, WalkerFacts, FinishedTyped
<1>3. Ends(p, row) /\ Spend
  BY DEF Abort
<1> HIDE DEF row
<1>4. Clock'
  BY <1>3, SpendFacts DEF Ends, TInv, Typed, Clock, Now
<1> QED BY <1>1, <1>2, <1>3, <1>4, EndsSafe DEF Ends

LEMMA FencedSafe ==
    ASSUME TInv, NEW p \in Procs, Fenced(p)
    PROVE  TInv'
<1> DEFINE w == walks[p]
           row == [jobs[w.job] EXCEPT !.state = "failed", !.lease = FALSE,
                                      !.deferred = FALSE, !.resume = TRUE]
<1>1. Walker(p) /\ jobs[w.job] \in JobRows
  BY WalkerFacts DEF Fenced, Walker
<1>2. row \in JobRows
  BY <1>1 DEF JobRows
<1>3. /\ jobs' = jobs \/ jobs' = [jobs EXCEPT ![w.job] = row]
      /\ walks' = [walks EXCEPT ![p] = NoWalk]
      /\ UNCHANGED <<hist, rows, dirty, dirtyAt, requests, events>>
  BY DEF Fenced
<1> HIDE DEF row
<1>4. Clock'
  BY <1>3 DEF TInv, Typed, Clock, Now
<1> QED BY <1>1, <1>2, <1>3, <1>4, EndsSafe

LEMMA CrashSafe ==
    ASSUME TInv, NEW p \in Procs, Crash(p)
    PROVE  TInv'
<1>1. Walker(p) /\ jobs[walks[p].job] \in JobRows
  BY WalkerFacts DEF Crash, TInv, Engaged
<1>2. Clock'
  BY SpendFacts DEF Crash, TInv, Typed, Clock, Now
<1> QED BY <1>1, <1>2, EndsSafe DEF Crash

(* Events around the walks.                                                 *)
LEMMA AroundSafe ==
    ASSUME TInv, Clock', walks' = walks, JobsTyped', RequestsTyped',
           DOMAIN jobs' = DOMAIN jobs, DOMAIN requests' = DOMAIN requests,
           \A j \in DOMAIN jobs : jobs'[j].state = jobs[j].state,
           \A n \in DOMAIN requests : requests'[n].job = requests[n].job
    PROVE  TInv'
BY DEF TInv, Typed, WalksTyped, RequestsKnown, Engaged, Alone, Walker

LEMMA CancelSafe ==
    ASSUME TInv, NEW n \in DOMAIN requests, Cancel(n)
    PROVE  TInv'
<1>1. requests[n] \in Requests /\ requests \in Seq(Requests) /\ n \in 1 .. Len(requests)
  BY RequestFacts DEF TInv, Typed, RequestsTyped
<1>2. [requests[n] EXCEPT !.active = FALSE] \in Requests
  BY <1>1 DEF Requests
<1>3. requests' = [requests EXCEPT ![n] = [requests[n] EXCEPT !.active = FALSE]]
  BY DEF Cancel
<1>4. RequestsTyped' /\ DOMAIN requests' = DOMAIN requests
  BY <1>1, <1>2, <1>3, ExceptSeq DEF TInv, Typed, RequestsTyped
<1>5. \A k \in DOMAIN requests : requests'[k].job = requests[k].job
  BY <1>1, <1>3 DEF Requests
<1>6. Clock' /\ JobsTyped' /\ UNCHANGED <<walks, jobs>>
  BY SpendFacts DEF Cancel, TInv, Typed, Clock, Now, JobsTyped
<1> QED BY <1>4, <1>5, <1>6, AroundSafe

LEMMA LapseSafe ==
    ASSUME TInv, NEW j \in DOMAIN jobs, Lapse(j)
    PROVE  TInv'
<1>1. jobs[j] \in JobRows /\ jobs \in Seq(JobRows) /\ j \in 1 .. Len(jobs)
  BY JobFacts DEF TInv, Typed, JobsTyped
<1>2. [jobs[j] EXCEPT !.lease = FALSE] \in JobRows
  BY <1>1 DEF JobRows
<1>3. jobs' = [jobs EXCEPT ![j] = [jobs[j] EXCEPT !.lease = FALSE]]
  BY DEF Lapse
<1>4. JobsTyped' /\ DOMAIN jobs' = DOMAIN jobs
  BY <1>1, <1>2, <1>3, ExceptSeq DEF TInv, Typed, JobsTyped
<1>5. \A k \in DOMAIN jobs : jobs'[k].state = jobs[k].state
  BY <1>1, <1>3 DEF JobRows
<1>6. Clock' /\ RequestsTyped' /\ UNCHANGED <<walks, requests>>
  BY SpendFacts DEF Lapse, TInv, Typed, Clock, Now, RequestsTyped
<1> QED BY <1>4, <1>5, <1>6, AroundSafe

LEMMA DirtySafe ==
    ASSUME TInv, Dirty
    PROVE  TInv'
<1>1. Clock'
  <2>1. Now \in Nat /\ Now >= 1
    BY ClockFacts DEF TInv, Typed, Clock
  <2> QED BY <2>1, SpendFacts DEF Dirty, TInv, Typed, Clock, Now
<1> QED BY <1>1, AroundSafe DEF Dirty, TInv, Typed, JobsTyped, RequestsTyped

LEMMA EditSafe ==
    ASSUME TInv, NEW disk \in Disks, Edit(disk)
    PROVE  TInv'
<1>1. Clock'
  <2>1. hist' = Append(hist, disk) /\ hist \in Seq(Disks) /\ Len(hist) \in Nat
    BY LenProperties DEF Edit, TInv, Typed, Clock
  <2>2. hist' \in Seq(Disks) /\ Len(hist') = Len(hist) + 1
    BY <2>1
  <2> QED BY <2>1, <2>2, SpendFacts DEF Edit, TInv, Typed, Clock, Now
<1> QED BY <1>1, AroundSafe DEF Edit, TInv, Typed, JobsTyped, RequestsTyped

LEMMA WorldSafe ==
    ASSUME TInv, World
    PROVE  TInv'
<1>1. Now + 1 \in Times \/ events >= MaxEvents
  BY ClockFacts, Bounds DEF TInv, Typed, Clock, Times
<1>2. ASSUME NEW f \in Files, Write(f) PROVE TInv'
  <2> DEFINE disk == [Disk EXCEPT !.ver[f] = Now + 1,
                         !.stamp[In[f]] = IF Disk.ver[f] = 0 THEN Now + 1 ELSE @]
  <2>1. Edit(disk)
    BY <1>2 DEF Write
  <2>2. Now + 1 \in Times
    BY <1>1, <2>1, Bounds DEF Edit, Spend, TInv, Typed, Clock
  <2>3. disk \in Disks
    BY <2>2, DiskFacts DEF Disks
  <2> HIDE DEF disk
  <2> QED BY <2>1, <2>3, EditSafe
<1>3. ASSUME NEW f \in Files, Remove(f) PROVE TInv'
  <2> DEFINE disk == [Disk EXCEPT !.ver[f] = 0, !.stamp[In[f]] = Now + 1]
  <2>1. Edit(disk)
    BY <1>3 DEF Remove
  <2>2. Now + 1 \in Times
    BY <1>1, <2>1, Bounds DEF Edit, Spend, TInv, Typed, Clock
  <2>3. disk \in Disks
    BY <2>2, DiskFacts DEF Disks
  <2> HIDE DEF disk
  <2> QED BY <2>1, <2>3, EditSafe
<1>4. ASSUME NEW d \in Dirs, MakeDir(d) PROVE TInv'
  <2> DEFINE disk == [Disk EXCEPT !.ident[d] = Now + 1, !.stamp[d] = Now + 1, !.stamp[Root] = Now + 1]
  <2>1. Edit(disk)
    BY <1>4 DEF MakeDir
  <2>2. Now + 1 \in Times
    BY <1>1, <2>1, Bounds DEF Edit, Spend, TInv, Typed, Clock
  <2>3. disk \in Disks
    BY <2>2, DiskFacts DEF Disks
  <2> HIDE DEF disk
  <2> QED BY <2>1, <2>3, EditSafe
<1>5. ASSUME NEW d \in Dirs, RemoveDir(d) PROVE TInv'
  <2> DEFINE gone == IF d = Root THEN Dirs ELSE {d}
             disk == [ver   |-> [f \in Files |-> IF In[f] \in gone THEN 0 ELSE Disk.ver[f]],
                      ident |-> [x \in Dirs |-> IF x \in gone THEN 0 ELSE Disk.ident[x]],
                      stamp |-> [x \in Dirs |-> IF x \in gone \union {Root} THEN Now + 1 ELSE Disk.stamp[x]]]
  <2>1. Edit(disk)
    BY <1>5 DEF RemoveDir
  <2>2. Now + 1 \in Times
    BY <1>1, <2>1, Bounds DEF Edit, Spend, TInv, Typed, Clock
  <2>3. disk \in Disks
    BY <2>2, DiskFacts DEF Disks
  <2> HIDE DEF disk
  <2> QED BY <2>1, <2>3, EditSafe
<1> QED BY <1>2, <1>3, <1>4, <1>5, DirtySafe DEF World

LEMMA StutterSafe == TInv /\ UNCHANGED vars => TInv'
<1> SUFFICES ASSUME TInv, UNCHANGED vars PROVE TInv'
  OBVIOUS
<1>1. Clock' /\ JobsTyped' /\ RequestsTyped'
  BY DEF TInv, Typed, Clock, JobsTyped, RequestsTyped, Now, vars
<1> QED BY <1>1, AroundSafe DEF vars

LEMMA NextSafe == TInv /\ [Next]_vars => TInv'
<1> SUFFICES ASSUME TInv, [Next]_vars PROVE TInv'
  OBVIOUS
<1>1. CASE UNCHANGED vars
  BY <1>1, StutterSafe
<1>2. CASE Traversal
  BY <1>2, OpenSafe, CannotOpenSafe, ListSafe, CheckpointSafe, CloseSafe, RecheckSafe, CommitSafe,
     FinishSafe, FencedSafe DEF Traversal
<1>3. CASE Trouble
  BY <1>3, CrashSafe, ListPartSafe, AbortSafe, CancelSafe, LapseSafe DEF Trouble
<1> QED BY <1>1, <1>2, <1>3, AdmissionSafe, WorldSafe DEF Next

LEMMA InitSafe == Init => TInv
<1> SUFFICES ASSUME Init PROVE TInv
  OBVIOUS
<1>1. PICK ver \in [Files -> {0, 1}], ident \in [Dirs -> {0, 1}] :
        hist = <<[ver |-> ver, ident |-> ident, stamp |-> [d \in Dirs |-> 1]]>>
  BY DEF Init
<1>2. 0 \in Times /\ 1 \in Times
  BY Bounds DEF Times
<1>3. [ver |-> ver, ident |-> ident, stamp |-> [d \in Dirs |-> 1]] \in Disks
  BY <1>1, <1>2 DEF Disks
<1>4. hist \in Seq(Disks) /\ Len(hist) = 1
  BY <1>1, <1>3
<1>5. Clock
  BY <1>2, <1>4, Bounds DEF Init, Clock, Now
<1>6. jobs = <<>> /\ requests = <<>> /\ JobsTyped /\ RequestsTyped
  BY EmptySeq, Bounds DEF Init, JobsTyped, RequestsTyped
<1>7. WalksTyped /\ \A p \in Procs : walks[p] = NoWalk
  BY IdleTyped DEF Init, WalksTyped
<1>8. RequestsKnown
  BY <1>6 DEF RequestsKnown
<1> QED BY <1>5, <1>6, <1>7, <1>8, IdleWalk DEF TInv, Typed, Engaged, Alone, Walker

(* In every reachable state jobs, requests and walks are well formed, a     *)
(* request points at a job that exists, and at most one process is on a     *)
(* walk, for a job that is running (recover, observation.rs:882, makes a    *)
(* running job stale only when nobody walks for it).                        *)
THEOREM Invariant == Spec => []TInv
BY InitSafe, NextSafe, PTL DEF Spec

(* There is never a second traversal of the source next to another, however *)
(* a lease lapsed, a process died or several callers asked for a scan at    *)
(* once (recover, observation.rs:882).                                      *)
THEOREM OneTraversalHolds == Spec => []OneTraversal
<1>1. TInv => OneTraversal
  BY IdleWalk DEF TInv, Engaged, Alone, OneTraversal, Walker
<1> QED BY <1>1, Invariant, PTL

-----------------------------------------------------------------------------
(* Claims are counted by events.  A job is claimed again only after its     *)
(* last claim was lost, and no claim is lost without an event: a crash, a   *)
(* lapsed lease, a dirty event or another root.                             *)

Settled(j) ==
    \/ jobs[j].state \in {"complete", "unavailable"}
    \/ jobs[j].state = "failed" /\ ~ jobs[j].resume
    \/ \E p \in Procs : Walker(p) /\ walks[p].job = j /\ Fence(walks[p])

Counted(j) ==
    /\ jobs[j].dirty <= dirty /\ jobs[j].token <= events + 1
    /\ jobs[j].token <= events \/ Settled(j)

TokenInv == \A j \in DOMAIN jobs : Counted(j)

LEMMA JobsInt ==
    ASSUME TInv
    PROVE  /\ events \in Nat /\ dirty \in Nat /\ jobs \in Seq(JobRows)
           /\ \A j \in DOMAIN jobs : j \in 1 .. Len(jobs) /\ jobs[j] \in JobRows
                                     /\ jobs[j].token \in Nat /\ jobs[j].dirty \in Nat
<1>1. \A j \in DOMAIN jobs : j \in 1 .. Len(jobs) /\ jobs[j] \in JobRows
  BY JobFacts DEF TInv, Typed, JobsTyped
<1>2. \A j \in DOMAIN jobs : jobs[j].token \in Nat /\ jobs[j].dirty \in Nat
  BY <1>1, Bounds DEF JobRows
<1> QED BY <1>1, <1>2, Bounds DEF TInv, Typed, Clock, JobsTyped

LEMMA EventCounts ==
    ASSUME TInv, TokenInv, events' = events + 1, dirty' \in {dirty, dirty + 1},
           DOMAIN jobs' = DOMAIN jobs,
           \A j \in DOMAIN jobs : jobs'[j].token = jobs[j].token /\ jobs'[j].dirty = jobs[j].dirty
    PROVE  TokenInv'
<1> SUFFICES ASSUME NEW j \in DOMAIN jobs PROVE Counted(j)'
  BY DEF TokenInv
<1>1. jobs[j].dirty <= dirty /\ jobs[j].token <= events + 1
  BY DEF TokenInv, Counted
<1>2. jobs'[j].dirty <= dirty' /\ jobs'[j].token <= events'
  BY <1>1, JobsInt
<1>3. jobs'[j].token <= events' + 1
  BY <1>2, JobsInt
<1> QED BY <1>2, <1>3 DEF Counted

(* A step of a walk leaves the fence of every walk as it is.                *)
LEMMA WalkCounts ==
    ASSUME TInv, TokenInv, UNCHANGED <<events, dirty, hist>>, DOMAIN jobs' = DOMAIN jobs,
           \A j \in DOMAIN jobs : /\ jobs'[j].token = jobs[j].token /\ jobs'[j].dirty = jobs[j].dirty
                                  /\ jobs'[j].state = jobs[j].state /\ jobs'[j].lease = jobs[j].lease
                                  /\ jobs'[j].resume = jobs[j].resume,
           \A q \in Procs : /\ walks'[q].job = walks[q].job /\ walks'[q].token = walks[q].token
                            /\ walks'[q].root = walks[q].root /\ (Walker(q) => Walker(q)')
    PROVE  TokenInv'
<1> SUFFICES ASSUME NEW j \in DOMAIN jobs PROVE Counted(j)'
  BY DEF TokenInv
<1>1. Counted(j)
  BY DEF TokenInv
<1>2. \A q \in Procs : walks[q].job = j /\ Fence(walks[q]) => Fence(walks[q])'
  BY DEF Fence, Disk, Now
<1>3. Settled(j) => Settled(j)'
  BY <1>2 DEF Settled
<1> QED BY <1>1, <1>3 DEF Counted

LEMMA StepCounts ==
    ASSUME TInv, TokenInv, NEW p \in Procs, Walker(p), NEW w, w.pc # "idle", w.job = walks[p].job,
           w.token = walks[p].token, w.root = walks[p].root, Steps(p, w)
    PROVE  TokenInv'
<1>1. walks' = [walks EXCEPT ![p] = w] /\ UNCHANGED <<jobs, events, dirty, hist>>
  BY DEF Steps, Stays
<1>2. \A q \in Procs : /\ walks'[q].job = walks[q].job /\ walks'[q].token = walks[q].token
                       /\ walks'[q].root = walks[q].root /\ (Walker(q) => Walker(q)')
  BY <1>1, WalkerFacts DEF Walker
<1> QED BY <1>1, <1>2, WalkCounts

LEMMA FlushCounts ==
    ASSUME TInv, TokenInv, NEW p \in Procs, Walker(p), NEW w \in Walks, NEW verified, NEW next \in Walks,
           w.job = walks[p].job, next.pc # "idle", next.job = walks[p].job,
           next.token = walks[p].token, next.root = walks[p].root,
           Flush(p, w, verified, next), Stays
    PROVE  TokenInv'
<1> DEFINE v == [next EXCEPT !.dirs = {}, !.entries = NoWalk.entries]
           row == Published(w, verified)
<1>1. walks' = [walks EXCEPT ![p] = v] /\ jobs' = [jobs EXCEPT ![w.job] = row]
      /\ UNCHANGED <<events, dirty, hist>>
  BY DEF Flush, Stays
<1>2. v.pc # "idle" /\ v.job = walks[p].job /\ v.token = walks[p].token /\ v.root = walks[p].root
  BY DEF Walks
<1>3. /\ row.token = jobs[w.job].token /\ row.dirty = jobs[w.job].dirty
      /\ row.state = jobs[w.job].state /\ row.lease = jobs[w.job].lease
      /\ row.resume = jobs[w.job].resume
  BY WalkerFacts DEF Published, JobRows
<1> HIDE DEF v, row
<1>4. \A q \in Procs : /\ walks'[q].job = walks[q].job /\ walks'[q].token = walks[q].token
                       /\ walks'[q].root = walks[q].root /\ (Walker(q) => Walker(q)')
  BY <1>1, <1>2, WalkerFacts DEF Walker
<1>5. DOMAIN jobs' = DOMAIN jobs
  BY <1>1
<1>6. \A j \in DOMAIN jobs : /\ jobs'[j].token = jobs[j].token /\ jobs'[j].dirty = jobs[j].dirty
                             /\ jobs'[j].state = jobs[j].state /\ jobs'[j].lease = jobs[j].lease
                             /\ jobs'[j].resume = jobs[j].resume
  BY <1>1, <1>3
<1> QED BY <1>1, <1>4, <1>5, <1>6, WalkCounts

(* The end of a walk settles its job, or its fence no longer held.          *)
LEMMA EndCounts ==
    ASSUME TInv, TokenInv, NEW p \in Procs, Walker(p), NEW row \in JobRows,
           jobs' = [jobs EXCEPT ![walks[p].job] = row],
           walks' = [walks EXCEPT ![p] = NoWalk], UNCHANGED <<events, dirty, hist>>,
           row.token = jobs[walks[p].job].token, row.dirty = jobs[walks[p].job].dirty,
           ~ Fence(walks[p]) \/ row.state = "complete" \/ (row.state = "failed" /\ ~ row.resume)
    PROVE  TokenInv'
<1>k. PICK k \in DOMAIN jobs : k = walks[p].job
  BY WalkerFacts
<1>1. k \in DOMAIN jobs /\ k \in 1 .. Len(jobs) /\ jobs[k].state = "running" /\ jobs[k] \in JobRows
      /\ DOMAIN jobs' = DOMAIN jobs /\ jobs'[k] = row
  BY <1>k, WalkerFacts
<1>2. Counted(k)'
  <2>1. Counted(k)
    BY <1>1 DEF TokenInv
  <2>2. CASE row.state = "complete" \/ (row.state = "failed" /\ ~ row.resume)
    BY <1>k, <1>1, <2>1, <2>2 DEF Counted, Settled
  <2>3. CASE ~ Fence(walks[p])
    <3>1. ~ Settled(k)
      BY <1>k, <1>1, <2>3 DEF Settled, TInv, Alone
    <3> QED BY <1>k, <1>1, <2>1, <3>1 DEF Counted
  <2> QED BY <2>2, <2>3
<1>3. ASSUME NEW j \in DOMAIN jobs, j # k PROVE Counted(j)'
  <2>1. Counted(j) /\ jobs'[j] = jobs[j]
    BY <1>k, <1>3 DEF TokenInv
  <2>2. ASSUME NEW q \in Procs, Walker(q), walks[q].job = j, Fence(walks[q])
        PROVE  Walker(q)' /\ walks'[q].job = j /\ Fence(walks[q])'
    <3>1. q # p /\ walks'[q] = walks[q]
      BY <1>k, <1>3, <2>2, WalkerFacts
    <3> QED BY <2>1, <2>2, <3>1 DEF Fence, Disk, Now, Walker
  <2>3. Settled(j) => Settled(j)'
    BY <2>1, <2>2 DEF Settled
  <2> QED BY <2>1, <2>3 DEF Counted
<1> QED BY <1>1, <1>2, <1>3 DEF TokenInv

(* Only a job without a live claim is claimed, and its fence holds then.    *)
LEMMA ClaimedCounts ==
    ASSUME NEW row \in JobRows, Claimed(row).state = "running", row.state # "running"
    PROVE  LET new == Claimed(row) IN
           /\ new.token = row.token + 1 /\ new.dirty = row.dirty
           /\ new.lease /\ new.pinned = Disk.ident[Root]
<1> DEFINE begun == IF row.started THEN row ELSE [row EXCEPT !.started = TRUE, !.at = Now]
           scopes == [d \in Dirs |-> IF begun.scopes[d].state = "running"
                                     THEN [begun.scopes[d] EXCEPT !.state = "pending"]
                                     ELSE begun.scopes[d]]
<1>1. begun.token = row.token /\ begun.dirty = row.dirty /\ DOMAIN begun = DOMAIN row
  BY DEF JobRows
<1>2. {"token", "lease", "pinned", "state", "dirty"} \subseteq DOMAIN row
  BY DEF JobRows
<1>3. \/ Claimed(row).state \in {"unavailable", "failed"}
      \/ Claimed(row) = [begun EXCEPT !.state = "running", !.token = begun.token + 1, !.lease = TRUE,
                             !.pinned = Disk.ident[Root], !.scopes = scopes]
  BY DEF Claimed, JobRows
<1> HIDE DEF begun, scopes
<1> QED BY <1>1, <1>2, <1>3

LEMMA ClaimedRest ==
    ASSUME NEW row \in JobRows, Claimed(row).state # "running"
    PROVE  LET new == Claimed(row) IN
           /\ new.token = row.token /\ new.dirty = row.dirty
           /\ new.state = "unavailable" \/ (new.state = "failed" /\ ~ new.resume)
BY DEF Claimed, JobRows

LEMMA AdmitsCounts ==
    ASSUME TInv, TokenInv, NEW p \in Procs, walks[p] = NoWalk,
           NEW J, NEW j, NEW n, NEW r, Admits(p, J, j, n, r)
    PROVE  TokenInv'
<1> DEFINE ends == J[j].state \in {"complete", "unavailable"} \/ J[j].deferred
           row  == IF ends \/ Running(J) THEN J[j] ELSE Claimed(J[j])
<1>1. /\ jobs' = [J EXCEPT ![j] = row] /\ J \in Seq(JobRows) /\ j \in DOMAIN J
      /\ walks' = IF row = J[j] THEN walks ELSE [walks EXCEPT ![p] = WalkOf(row, j, n)]
      /\ UNCHANGED <<hist, dirty, events>>
      /\ Served(J[j]) \/ J[j].state = "running" \/ Fit(J[j])
  BY DEF Admits, Serve
<1>2. /\ DOMAIN jobs' = DOMAIN J
      /\ \A k \in DOMAIN J : J[k] \in JobRows
      /\ \A k \in DOMAIN J : jobs'[k] = IF k = j THEN row ELSE J[k]
  BY <1>1, ElementOfSeq, LenProperties
<1>3. /\ DOMAIN Recovered = DOMAIN jobs
      /\ \A k \in DOMAIN J : \/ k \in DOMAIN jobs /\ J[k] = Recovered[k]
                             \/ J[k].token = 0 /\ J[k].dirty = dirty
  <2>1. Recovered \in Seq(JobRows) /\ DOMAIN Recovered = DOMAIN jobs
    BY RecoveredTyped DEF TInv, Typed
  <2>2. CASE J = Recovered
    BY <2>1, <2>2
  <2>3. ASSUME NEW new, J = Append(Recovered, new), Fresh(new)
        PROVE  \A k \in DOMAIN J : \/ k \in DOMAIN jobs /\ J[k] = Recovered[k]
                                   \/ J[k].token = 0 /\ J[k].dirty = dirty
    <3>1. DOMAIN J = 1 .. Len(Recovered) + 1 /\ DOMAIN Recovered = 1 .. Len(Recovered)
          /\ Len(Recovered) \in Nat
      BY <1>1, <2>1, <2>3, AppendTyped, LenProperties DEF Fresh
    <3> QED BY <2>1, <2>3, <3>1, AppendTyped DEF Fresh
  <2> QED BY <2>1, <2>2, <2>3 DEF Admits
<1>4. \A k \in DOMAIN jobs : /\ Recovered[k].token = jobs[k].token /\ Recovered[k].dirty = jobs[k].dirty
                             /\ Recovered[k] = jobs[k]
                                \/ (Abandoned(k) /\ Recovered[k].state = "stale")
  BY JobsInt DEF Recovered, JobRows
<1>5. \A q \in Procs : Walker(q) => ~ Abandoned(walks[q].job)
  BY DEF Abandoned, Walking
<1> DEFINE Live(k) == \E q \in Procs : Walker(q) /\ walks[q].job = k /\ Fence(walks[q])
           Rest(k) == J[k].state \in {"complete", "unavailable"}
                      \/ (J[k].state = "failed" /\ ~ J[k].resume)
<1>6. ASSUME NEW k \in DOMAIN J
      PROVE  /\ J[k].dirty <= dirty /\ J[k].token <= events + 1 /\ J[k].token \in Nat
             /\ J[k].token <= events \/ Rest(k) \/ (k \in DOMAIN jobs /\ J[k] = jobs[k] /\ Live(k))
  <2>1. CASE J[k].token = 0 /\ J[k].dirty = dirty
    BY <2>1, JobsInt
  <2>2. CASE k \in DOMAIN jobs /\ J[k] = Recovered[k]
    <3>1. Counted(k) /\ jobs[k].token \in Nat
      BY <2>2, JobsInt DEF TokenInv
    <3>2. /\ J[k].dirty <= dirty /\ J[k].token <= events + 1 /\ J[k].token \in Nat
      BY <1>4, <2>2, <3>1 DEF Counted
    <3>3. CASE Recovered[k] = jobs[k]
      BY <2>2, <3>1, <3>2, <3>3 DEF Counted, Settled
    <3>4. CASE Abandoned(k)
      <4>1. jobs[k].state = "running" /\ ~ Live(k)
        BY <1>5, <3>4 DEF Abandoned
      <4>2. jobs[k].token <= events
        BY <3>1, <4>1 DEF Counted, Settled
      <4> QED BY <1>4, <2>2, <3>2, <4>2
    <3> QED BY <1>4, <2>2, <3>3, <3>4
  <2> QED BY <1>3, <2>1, <2>2
<1>7. CASE row = J[j]
  <2> SUFFICES ASSUME NEW k \in DOMAIN J PROVE Counted(k)'
    BY <1>2 DEF TokenInv
  <2>1. jobs'[k] = J[k] /\ walks' = walks
    BY <1>1, <1>2, <1>7
  <2>2. ASSUME NEW q \in Procs, Walker(q), walks[q].job = k, Fence(walks[q]), J[k] = jobs[k]
        PROVE  Walker(q)' /\ walks'[q].job = k /\ Fence(walks[q])'
    BY <1>1, <2>1, <2>2 DEF Walker, Fence, Disk, Now
  <2>3. J[k].token <= events \/ Rest(k) \/ Settled(k)'
    BY <1>6, <2>2 DEF Settled
  <2>4. Rest(k) => Settled(k)'
    BY <2>1 DEF Settled
  <2> QED BY <1>1, <1>6, <2>1, <2>3, <2>4 DEF Counted
<1>8. CASE row # J[j]
  <2>1. ~ ends /\ ~ Running(J) /\ row = Claimed(J[j]) /\ Fit(J[j]) /\ J[j].state # "running"
    BY <1>1, <1>8 DEF Running, Served
  <2>2. \A q \in Procs : ~ Walker(q)
    <3> SUFFICES ASSUME NEW q \in Procs, Walker(q) PROVE FALSE
      OBVIOUS
    <3>1. walks[q].job \in DOMAIN jobs /\ jobs[walks[q].job].state = "running"
          /\ Recovered[walks[q].job] = jobs[walks[q].job]
      BY <1>4, <1>5, WalkerFacts
    <3>2. DOMAIN jobs \subseteq DOMAIN J /\ \A k \in DOMAIN jobs : J[k] = Recovered[k]
      <4>1. Recovered \in Seq(JobRows) /\ DOMAIN Recovered = DOMAIN jobs
        BY RecoveredTyped DEF TInv, Typed
      <4> QED BY <4>1, AppendTyped DEF Admits, Fresh
    <3> QED BY <2>1, <3>1, <3>2 DEF Running
  <2>3. \A k \in DOMAIN J : J[k].token <= events \/ Rest(k)
    BY <1>6, <2>2
  <2>4. ASSUME NEW k \in DOMAIN J, k # j PROVE Counted(k)'
    BY <1>1, <1>2, <1>6, <2>3, <2>4 DEF Counted, Settled
  <2>5. J[j].dirty = dirty /\ J[j].token <= events /\ J[j].token \in Nat /\ J[j] \in JobRows
    <3>1. J[j].dirty \in Nat
      BY <1>1, <1>2, Bounds DEF JobRows
    <3> QED BY <1>1, <1>2, <1>6, <2>1, <2>3, <3>1, JobsInt DEF Fit
  <2>6. walks'[p] = WalkOf(row, j, n) /\ jobs'[j] = row
    BY <1>1, <1>2, <1>8, WalkerFacts
  <2> HIDE DEF row
  <2>7. CASE row.state = "running"
    <3>1. row.token = J[j].token + 1 /\ row.dirty = J[j].dirty /\ row.lease
          /\ row.pinned = Disk.ident[Root]
      BY <2>1, <2>5, <2>7, ClaimedCounts
    <3>2. walks'[p].job = j /\ walks'[p].token = row.token /\ walks'[p].root = row.pinned
          /\ walks'[p].pc = "walk"
      BY <2>6, <2>7 DEF WalkOf, NoWalk
    <3>3. Walker(p)' /\ Fence(walks[p])'
      BY <1>1, <2>5, <2>6, <2>7, <3>1, <3>2 DEF Walker, Fence, Disk, Now
    <3>4. Settled(j)'
      BY <3>2, <3>3 DEF Settled
    <3>5. jobs'[j].token <= events' + 1 /\ jobs'[j].dirty <= dirty'
      BY <1>1, <2>5, <2>6, <3>1, JobsInt
    <3>6. Counted(j)'
      BY <3>4, <3>5 DEF Counted
    <3> QED BY <1>2, <2>4, <3>6 DEF TokenInv
  <2>8. CASE row.state # "running"
    <3>1. row.token = J[j].token /\ row.dirty = J[j].dirty
      BY <2>1, <2>5, <2>8, ClaimedRest
    <3>2. jobs'[j].token <= events' /\ jobs'[j].token <= events' + 1 /\ jobs'[j].dirty <= dirty'
      BY <1>1, <2>5, <2>6, <3>1, JobsInt
    <3>3. Counted(j)'
      BY <3>2 DEF Counted
    <3> QED BY <1>2, <2>4, <3>3 DEF TokenInv
  <2> QED BY <2>7, <2>8
<1> QED BY <1>7, <1>8

LEMMA TraversalCounts ==
    ASSUME TInv, TokenInv, Traversal
    PROVE  TokenInv'
<1> SUFFICES ASSUME NEW p \in Procs,
                    \/ \E d \in Dirs : Open(p, d) \/ CannotOpen(p, d)
                    \/ List(p) \/ Checkpoint(p) \/ Close(p) \/ Recheck(p)
                    \/ Commit(p) \/ Finish(p) \/ Fenced(p)
             PROVE  TokenInv'
  BY DEF Traversal
<1> DEFINE w == walks[p]
<1>1. w \in Walks
  BY WalkerFacts
<1>2. ASSUME NEW d \in Dirs, Open(p, d) PROVE TokenInv'
  <2> DEFINE v == [w EXCEPT !.queue[d] = [state |-> "running", ident |-> Opened(w, d)],
                       !.dirs = @ \union {d}, !.pc = "reading", !.dir = d, !.left = TRUE,
                       !.stamp = Disk.stamp[d], !.status = "complete"]
  <2>1. Flush(p, v, {}, v) /\ Stays /\ Walker(p)
    BY <1>2 DEF Open, Walker
  <2>2. v \in Walks
    <3> DEFINE q == [w.queue EXCEPT ![d] = [state |-> "running", ident |-> Opened(w, d)]]
    <3>1. w.queue \in Scopes /\ w.dirs \in SUBSET Dirs /\ w.root \in Times
      BY <1>1 DEF Walks
    <3>2. Opened(w, d) \in Times
      BY <3>1, DiskFacts DEF Opened
    <3>3. q \in Scopes
      BY <3>1, <3>2 DEF Scopes, ScopeStates
    <3>4. v = [w EXCEPT !.queue = q, !.dirs = w.dirs \union {d}, !.pc = "reading", !.dir = d,
                        !.left = TRUE, !.stamp = Disk.stamp[d], !.status = "complete"]
      BY <1>1 DEF Walks
    <3> HIDE DEF q, v
    <3> QED BY <1>1, <3>1, <3>3, <3>4, DiskFacts DEF Walks
  <2>3. v.pc = "reading" /\ v.job = w.job /\ v.token = w.token /\ v.root = w.root
    BY <1>1 DEF Walks
  <2> HIDE DEF v
  <2> QED BY <2>1, <2>2, <2>3, FlushCounts
<1>3. ASSUME NEW d \in Dirs, CannotOpen(p, d) PROVE TokenInv'
  <2> DEFINE v == [w EXCEPT !.queue[d] = [state |-> "failed", ident |-> 0], !.dirs = @ \union {d}]
  <2>1. Steps(p, v) /\ w.pc = "walk" /\ Walker(p)
    BY <1>3 DEF CannotOpen, Walker
  <2>2. v.pc = "walk" /\ v.job = w.job /\ v.token = w.token /\ v.root = w.root
    BY <1>1, <2>1 DEF Walks
  <2> HIDE DEF v
  <2> QED BY <2>1, <2>2, StepCounts
<1>4. CASE List(p)
  <2> DEFINE v == Listed(w, Names(w.dir))
  <2>1. Steps(p, v) /\ w.pc = "reading" /\ Walker(p)
    BY <1>4 DEF List, Walker
  <2>2. v.pc = "reading" /\ v.job = w.job /\ v.token = w.token /\ v.root = w.root
    BY <1>1, <2>1 DEF Listed, Walks
  <2> HIDE DEF v
  <2> QED BY <2>1, <2>2, StepCounts
<1>5. CASE Checkpoint(p)
  BY <1>1, <1>5, FlushCounts DEF Checkpoint, Walker
<1>6. CASE Close(p)
  <2> DEFINE status == IF Disk.stamp[w.dir] # w.stamp THEN "deferred" ELSE w.status
             v == [w EXCEPT !.pc = "closed", !.queue[w.dir].state = status, !.dirs = @ \union {w.dir}]
  <2>1. Steps(p, v) /\ Walker(p)
    BY <1>6 DEF Close, Walker
  <2>2. v.pc = "closed" /\ v.job = w.job /\ v.token = w.token /\ v.root = w.root
    BY <1>1 DEF Walks
  <2> HIDE DEF v
  <2> QED BY <2>1, <2>2, StepCounts
<1>7. CASE Recheck(p)
  <2> DEFINE ok == /\ w.queue[w.dir].state = "complete" /\ InPlace(w)
                   /\ Disk.stamp[w.dir] = w.stamp
             v == [w EXCEPT !.pc = "checked", !.verified = ok]
  <2>1. Steps(p, v) /\ Walker(p)
    BY <1>7 DEF Recheck, Walker
  <2>2. v.pc = "checked" /\ v.job = w.job /\ v.token = w.token /\ v.root = w.root
    BY <1>1 DEF Walks
  <2> HIDE DEF v
  <2> QED BY <2>1, <2>2, StepCounts
<1>8. CASE Commit(p)
  <2> DEFINE v == [w EXCEPT !.pc = "walk", !.dir = Root, !.stamp = 0,
                       !.status = "complete", !.verified = FALSE]
  <2>1. Flush(p, w, IF w.verified THEN {w.dir} ELSE {}, v) /\ Stays /\ Walker(p)
    BY <1>8 DEF Commit, Walker
  <2>2. v \in Walks /\ v.pc = "walk" /\ v.job = w.job /\ v.token = w.token /\ v.root = w.root
    BY <1>1, DiskFacts DEF Walks
  <2> HIDE DEF v
  <2> QED BY <1>1, <2>1, <2>2, FlushCounts
<1>9. CASE Finish(p)
  <2> DEFINE old == Published(w, {})
             row == Finished(old, FALSE, FALSE)
  <2>1. Ends(p, row) /\ UNCHANGED events /\ Walker(p)
    BY <1>9 DEF Finish, Walker
  <2>2. old \in JobRows /\ old.token = jobs[w.job].token /\ old.dirty = jobs[w.job].dirty
    <3>1. old \in JobRows
      BY <1>1, <2>1, WalkerFacts, PublishedTyped
    <3> QED BY <2>1, <3>1, WalkerFacts DEF Published, JobRows
  <2>3. row \in JobRows
    BY <2>2, FinishedTyped
  <2> HIDE DEF old
  <2>4. row.token = old.token /\ row.dirty = old.dirty
        /\ (row.state = "complete" \/ (row.state = "failed" /\ ~ row.resume))
    BY <2>2 DEF Finished, JobRows
  <2> HIDE DEF row
  <2> QED BY <2>1, <2>2, <2>3, <2>4, EndCounts DEF Ends
<1>10. CASE Fenced(p)
  <2> DEFINE row == [jobs[w.job] EXCEPT !.state = "failed", !.lease = FALSE,
                                        !.deferred = FALSE, !.resume = TRUE]
  <2>1. Walker(p) /\ jobs[w.job] \in JobRows /\ ~ Fence(w) /\ jobs \in Seq(JobRows)
        /\ w.job \in DOMAIN jobs
    BY <1>10, WalkerFacts DEF Fenced, Walker
  <2>2. row \in JobRows /\ row.token = jobs[w.job].token /\ row.dirty = jobs[w.job].dirty
    BY <2>1 DEF JobRows
  <2>3. /\ walks' = [walks EXCEPT ![p] = NoWalk] /\ UNCHANGED <<events, dirty, hist>>
        /\ jobs' = jobs \/ jobs' = [jobs EXCEPT ![w.job] = row]
    BY <1>10 DEF Fenced
  <2> HIDE DEF row
  <2>4. CASE jobs' = [jobs EXCEPT ![w.job] = row]
    BY <2>1, <2>2, <2>3, <2>4, EndCounts
  <2>5. CASE jobs' = jobs
    <3>1. jobs' = [jobs EXCEPT ![w.job] = jobs[w.job]]
      BY <2>1, <2>5
    <3> QED BY <2>1, <2>3, <3>1, EndCounts
  <2> QED BY <2>3, <2>4, <2>5
<1> QED BY <1>2, <1>3, <1>4, <1>5, <1>6, <1>7, <1>8, <1>9, <1>10

LEMMA TroubleCounts ==
    ASSUME TInv, TokenInv, Trouble
    PROVE  TokenInv'
<1>1. events' = events + 1 /\ dirty' = dirty
  BY DEF Trouble, Crash, ListPart, Abort, Ends, Cancel, Lapse, Spend
<1>2. \/ jobs' = jobs
      \/ \E p \in Procs, over \in BOOLEAN : Abort(p, over)
      \/ \E j \in DOMAIN jobs : Lapse(j)
  BY DEF Trouble, Crash, ListPart, Cancel
<1>3. CASE jobs' = jobs
  BY <1>1, <1>3, EventCounts
<1>4. ASSUME NEW p \in Procs, NEW over \in BOOLEAN, Abort(p, over) PROVE TokenInv'
  <2> DEFINE k == walks[p].job
             row == Finished(jobs[k], TRUE, over)
  <2>1. jobs[k] \in JobRows /\ jobs \in Seq(JobRows) /\ k \in DOMAIN jobs
        /\ jobs' = [jobs EXCEPT ![k] = row]
    BY <1>4, WalkerFacts DEF Abort, Ends, Walker
  <2>2. row.token = jobs[k].token /\ row.dirty = jobs[k].dirty
    BY <2>1 DEF Finished, JobRows
  <2> HIDE DEF row
  <2>3. /\ DOMAIN jobs' = DOMAIN jobs
        /\ \A j \in DOMAIN jobs : jobs'[j].token = jobs[j].token /\ jobs'[j].dirty = jobs[j].dirty
    BY <2>1, <2>2
  <2> QED BY <1>1, <2>3, EventCounts
<1>5. ASSUME NEW j \in DOMAIN jobs, Lapse(j) PROVE TokenInv'
  <2>1. jobs[j] \in JobRows /\ jobs' = [jobs EXCEPT ![j] = [jobs[j] EXCEPT !.lease = FALSE]]
    BY <1>5, JobsInt DEF Lapse
  <2>2. /\ DOMAIN jobs' = DOMAIN jobs
        /\ \A i \in DOMAIN jobs : jobs'[i].token = jobs[i].token /\ jobs'[i].dirty = jobs[i].dirty
    BY <2>1 DEF JobRows
  <2> QED BY <1>1, <2>2, EventCounts
<1> QED BY <1>2, <1>3, <1>4, <1>5

LEMMA NextCounts == TInv /\ TokenInv /\ [Next]_vars => TokenInv'
<1> SUFFICES ASSUME TInv, TokenInv, [Next]_vars PROVE TokenInv'
  OBVIOUS
<1>1. CASE UNCHANGED vars
  BY <1>1, WalkCounts DEF vars, Walker
<1>2. CASE Admission
  BY <1>2, RequestAdmits, ResumeAdmits, ContinueAdmits, AdmitsCounts DEF Admission, TInv
<1>3. CASE World
  <2>1. events' = events + 1 /\ jobs' = jobs /\ dirty' \in {dirty, dirty + 1}
    BY <1>3 DEF World, Write, Remove, MakeDir, RemoveDir, Edit, Dirty, Spend
  <2> QED BY <2>1, EventCounts
<1> QED BY <1>1, <1>2, <1>3, TraversalCounts, TroubleCounts DEF Next

(* The variables keep their types, and no job is claimed more often than    *)
(* there were events to lose its claim (token of coordination.rs).          *)
THEOREM TypeCorrect == Spec => []TypeOK
<1>1. Init => TokenInv
  BY DEF Init, TokenInv
<1>2. TInv /\ TokenInv => TypeOK
  <2> SUFFICES ASSUME TInv, TokenInv PROVE TypeOK
    OBVIOUS
  <2>1. Now \in 1 .. MaxEvents + 1 /\ dirty \in 0 .. MaxEvents
    BY ClockFacts, Bounds DEF TInv, Typed, Clock
  <2>2. \A j \in DOMAIN jobs : jobs[j].token <= MaxEvents + 1
    <3> SUFFICES ASSUME NEW j \in DOMAIN jobs PROVE jobs[j].token <= MaxEvents + 1
      OBVIOUS
    <3>1. jobs[j].token <= events + 1 /\ events <= MaxEvents /\ events \in Nat /\ jobs[j].token \in Nat
      BY JobsInt DEF TokenInv, Counted, TInv, Typed, Clock
    <3> QED BY <3>1, Bounds
  <2> QED BY <2>1, <2>2 DEF TypeOK, TInv, Typed, Clock, JobsTyped, RequestsTyped, WalksTyped
<1> QED BY <1>1, <1>2, Invariant, NextCounts, PTL DEF Spec

-----------------------------------------------------------------------------
(* What the disk remembers.  A directory that is there has been since the   *)
(* time that is its identity; from the time that is its stamp the same      *)
(* files have existed in it; where there is no directory there is no file.  *)
Remembers(i, d) ==
    LET then == hist[i] IN
    /\ then.ident[d] # 0 => /\ then.ident[d] \in 1 .. i
                            /\ \A k \in then.ident[d] .. i : hist[k].ident[d] = then.ident[d]
    /\ then.stamp[d] \in 1 .. i
    /\ \A k \in then.stamp[d] .. i, f \in Files :
          In[f] = d => (hist[k].ver[f] = 0) = (then.ver[f] = 0)
    /\ then.ident[d] = 0 => \A f \in Files : In[f] = d => then.ver[f] = 0
Past == \A i \in 1 .. Now, d \in Dirs : Remembers(i, d)

LEMMA HistFacts ==
    ASSUME TInv
    PROVE  /\ hist \in Seq(Disks) /\ Now \in Nat /\ Now >= 1 /\ Now = Len(hist)
           /\ dirtyAt \in 1 .. Now /\ dirtyAt \in Nat /\ dirty \in Nat
           /\ \A i \in 1 .. Now : /\ hist[i] \in Disks
                                  /\ \A f \in Files : hist[i].ver[f] \in Nat
                                  /\ \A d \in Dirs : hist[i].ident[d] \in Nat /\ hist[i].stamp[d] \in Nat
<1>1. hist \in Seq(Disks) /\ Now \in Nat /\ Now >= 1 /\ Now = Len(hist) /\ dirtyAt \in 1 .. Now
  BY ClockFacts DEF TInv, Typed, Clock, Now
<1>2. \A i \in 1 .. Now : hist[i] \in Disks
  BY <1>1, ElementOfSeq
<1>3. dirtyAt \in Nat /\ dirty \in Nat
  BY <1>1, JobsInt
<1> QED BY <1>1, <1>2, <1>3, Bounds DEF Disks, Times

LEMMA EditHist ==
    ASSUME TInv, NEW disk, Edit(disk)
    PROVE  /\ Now' = Now + 1 /\ Disk' = disk /\ hist'[Now + 1] = disk
           /\ \A i \in 1 .. Now : hist'[i] = hist[i]
<1>1. hist' = Append(hist, disk) /\ hist \in Seq(Disks)
  BY HistFacts DEF Edit
<1> DEFINE S == Disks \union {disk}
<1>2. hist \in Seq(S) /\ disk \in S
  <2>1. Len(hist) \in Nat /\ hist \in [1 .. Len(hist) -> Disks]
    BY <1>1, LenProperties
  <2> QED BY <1>1, <2>1
<1> HIDE DEF S
<1>3. Now' = Now + 1 /\ \A i \in 1 .. Now : hist'[i] = hist[i]
  BY <1>1, <1>2, HistFacts DEF Now
<1>4. hist'[Now + 1] = disk
  BY <1>1, <1>2, HistFacts DEF Now
<1> QED BY <1>3, <1>4 DEF Disk

(* A change of the disk is remembered if it gives a new identity and a new  *)
(* stamp to what it makes, and a new stamp to where it takes a name.        *)
LEMMA Remembered ==
    ASSUME TInv, Past, NEW disk \in Disks, Edit(disk),
           \A d \in Dirs : disk.ident[d] \in {0, Now + 1, Disk.ident[d]},
           \A d \in Dirs : disk.stamp[d] \in {Now + 1, Disk.stamp[d]},
           \A f \in Files : disk.stamp[In[f]] = Disk.stamp[In[f]]
                              => (disk.ver[f] = 0) = (Disk.ver[f] = 0),
           \A f \in Files : disk.ident[In[f]] = 0 => disk.ver[f] = 0
    PROVE  Past'
<1>1. /\ Now' = Now + 1 /\ hist'[Now + 1] = disk /\ \A i \in 1 .. Now : hist'[i] = hist[i]
      /\ Now \in Nat /\ Now >= 1
  BY EditHist, HistFacts
<1>2. ASSUME NEW i \in 1 .. Now, NEW d \in Dirs PROVE Remembers(i, d)'
  <2>1. Remembers(i, d) /\ hist[i].ident[d] \in Nat /\ hist[i].stamp[d] \in Nat
    BY HistFacts DEF Past
  <2>2. hist'[i] = hist[i]
    BY <1>1
  <2>3. hist[i].ident[d] # 0 => \A k \in hist[i].ident[d] .. i : k \in 1 .. Now
    BY <1>1, <2>1 DEF Remembers
  <2>4. \A k \in hist[i].stamp[d] .. i : k \in 1 .. Now
    BY <1>1, <2>1 DEF Remembers
  <2> QED BY <1>1, <2>1, <2>2, <2>3, <2>4 DEF Remembers
<1>3. ASSUME NEW m, m = Now + 1, NEW d \in Dirs PROVE Remembers(m, d)'
  <2>1. /\ Remembers(Now, d) /\ hist[Now] = Disk /\ Disk.ident[d] \in Nat /\ Disk.stamp[d] \in Nat
    BY <1>1, HistFacts DEF Past, Disk
  <2>2. disk.ident[d] # 0 => /\ disk.ident[d] \in 1 .. Now + 1
                             /\ \A k \in disk.ident[d] .. Now + 1 : hist'[k].ident[d] = disk.ident[d]
    <3>1. CASE disk.ident[d] = Now + 1
      BY <1>1, <3>1
    <3>2. CASE disk.ident[d] # 0 /\ disk.ident[d] = Disk.ident[d]
      <4>1. Disk.ident[d] \in 1 .. Now /\ \A k \in Disk.ident[d] .. Now : hist[k].ident[d] = Disk.ident[d]
        BY <2>1, <3>2 DEF Remembers
      <4>2. ASSUME NEW k \in Disk.ident[d] .. Now + 1 PROVE hist'[k].ident[d] = disk.ident[d]
        <5>1. CASE k = Now + 1
          BY <1>1, <5>1
        <5>2. CASE k # Now + 1
          <6>1. k \in 1 .. Now /\ k \in Disk.ident[d] .. Now
            BY <1>1, <4>1, <5>2
          <6> QED BY <1>1, <3>2, <4>1, <6>1
        <5> QED BY <5>1, <5>2
      <4> QED BY <1>1, <3>2, <4>1, <4>2
    <3> QED BY <3>1, <3>2
  <2>3. /\ disk.stamp[d] \in 1 .. Now + 1
        /\ \A k \in disk.stamp[d] .. Now + 1, f \in Files :
              In[f] = d => (hist'[k].ver[f] = 0) = (disk.ver[f] = 0)
    <3>1. CASE disk.stamp[d] = Now + 1
      BY <1>1, <3>1
    <3>2. CASE disk.stamp[d] = Disk.stamp[d]
      <4>1. /\ Disk.stamp[d] \in 1 .. Now
            /\ \A k \in Disk.stamp[d] .. Now, f \in Files :
                  In[f] = d => (hist[k].ver[f] = 0) = (Disk.ver[f] = 0)
        BY <2>1 DEF Remembers
      <4>2. ASSUME NEW k \in Disk.stamp[d] .. Now + 1, NEW f \in Files, In[f] = d
            PROVE  (hist'[k].ver[f] = 0) = (disk.ver[f] = 0)
        <5>1. CASE k = Now + 1
          BY <1>1, <5>1
        <5>2. CASE k # Now + 1
          <6>1. k \in 1 .. Now /\ k \in Disk.stamp[d] .. Now
            BY <1>1, <4>1, <5>2
          <6>2. (hist[k].ver[f] = 0) = (Disk.ver[f] = 0)
            BY <4>1, <4>2, <6>1
          <6> QED BY <1>1, <3>2, <4>2, <6>1, <6>2
        <5> QED BY <5>1, <5>2
      <4> QED BY <1>1, <3>2, <4>1, <4>2
    <3> QED BY <3>1, <3>2
  <2>4. disk.ident[d] = 0 => \A f \in Files : In[f] = d => disk.ver[f] = 0
    OBVIOUS
  <2>5. hist'[m] = disk
    BY <1>1, <1>3
  <2> QED BY <1>3, <2>2, <2>3, <2>4, <2>5 DEF Remembers
<1>4. \A i \in 1 .. Now' : i \in 1 .. Now \/ i = Now + 1
  BY <1>1
<1> SUFFICES ASSUME NEW i \in (1 .. Now)', NEW d \in Dirs PROVE Remembers(i, d)'
  BY DEF Past
<1> QED BY <1>2, <1>3, <1>4

LEMMA WorldPast ==
    ASSUME TInv, Past, World
    PROVE  Past'
<1>1. Now + 1 \in Times \/ events >= MaxEvents
  BY ClockFacts, Bounds DEF TInv, Typed, Clock, Times
<1>2. /\ Now \in Nat /\ Now >= 1 /\ Disk \in Disks /\ Root \in Dirs /\ 0 \in Times
      /\ \A d \in Dirs : /\ Disk.ident[d] \in Nat /\ Disk.stamp[d] \in Nat /\ Disk.stamp[d] < Now + 1
                         /\ Disk.ident[d] = 0 => \A f \in Files : In[f] = d => Disk.ver[f] = 0
      /\ \A f \in Files : In[f] \in Dirs /\ Disk.ver[f] \in Nat
  <2>1. Now \in 1 .. Now /\ \A d \in Dirs : Remembers(Now, d)
    BY HistFacts DEF Past
  <2>2. \A d \in Dirs : Disk.stamp[d] \in 1 .. Now
    BY <2>1 DEF Remembers, Disk
  <2>3. \A d \in Dirs : Disk.ident[d] = 0 => \A f \in Files : In[f] = d => Disk.ver[f] = 0
    BY <2>1 DEF Remembers, Disk
  <2> QED BY <2>1, <2>2, <2>3, HistFacts, DiskFacts, ScanAssumption DEF Disk, Dirs
<1>t. ASSUME NEW disk, Edit(disk) PROVE Now + 1 \in Times
  BY <1>1, <1>t, Bounds DEF Edit, Spend, TInv, Typed, Clock
<1>3. ASSUME NEW f \in Files, Write(f) PROVE Past'
  <2> DEFINE disk == [Disk EXCEPT !.ver[f] = Now + 1,
                         !.stamp[In[f]] = IF Disk.ver[f] = 0 THEN Now + 1 ELSE @]
  <2>1. Edit(disk) /\ Disk.ident[In[f]] # 0
    BY <1>3 DEF Write
  <2>2. disk \in Disks /\ disk.ident = Disk.ident
    BY <1>2, <1>t, <2>1 DEF Disks
  <2>3. \A g \in Files : disk.ver[g] = IF g = f THEN Now + 1 ELSE Disk.ver[g]
    BY <1>2 DEF Disks
  <2>4. \A d \in Dirs : disk.stamp[d] = IF d = In[f] /\ Disk.ver[f] = 0 THEN Now + 1 ELSE Disk.stamp[d]
    BY <1>2 DEF Disks
  <2> HIDE DEF disk
  <2>5. \A g \in Files : disk.stamp[In[g]] = Disk.stamp[In[g]] => (disk.ver[g] = 0) = (Disk.ver[g] = 0)
    BY <1>2, <2>3, <2>4
  <2>6. \A g \in Files : disk.ident[In[g]] = 0 => disk.ver[g] = 0
    BY <1>2, <2>1, <2>2, <2>3
  <2> QED BY <1>2, <2>1, <2>2, <2>4, <2>5, <2>6, Remembered
<1>4. ASSUME NEW f \in Files, Remove(f) PROVE Past'
  <2> DEFINE disk == [Disk EXCEPT !.ver[f] = 0, !.stamp[In[f]] = Now + 1]
  <2>1. Edit(disk)
    BY <1>4 DEF Remove
  <2>2. disk \in Disks /\ disk.ident = Disk.ident
    BY <1>2, <1>t, <2>1 DEF Disks
  <2>3. \A g \in Files : disk.ver[g] = IF g = f THEN 0 ELSE Disk.ver[g]
    BY <1>2 DEF Disks
  <2>4. \A d \in Dirs : disk.stamp[d] = IF d = In[f] THEN Now + 1 ELSE Disk.stamp[d]
    BY <1>2 DEF Disks
  <2> HIDE DEF disk
  <2>5. \A g \in Files : disk.stamp[In[g]] = Disk.stamp[In[g]] => (disk.ver[g] = 0) = (Disk.ver[g] = 0)
    BY <1>2, <2>3, <2>4
  <2>6. \A g \in Files : disk.ident[In[g]] = 0 => disk.ver[g] = 0
    BY <1>2, <2>1, <2>2, <2>3
  <2> QED BY <1>2, <2>1, <2>2, <2>4, <2>5, <2>6, Remembered
<1>5. ASSUME NEW d \in Dirs, MakeDir(d) PROVE Past'
  <2> DEFINE disk == [Disk EXCEPT !.ident[d] = Now + 1, !.stamp[d] = Now + 1, !.stamp[Root] = Now + 1]
  <2>1. Edit(disk) /\ Disk.ident[d] = 0
    BY <1>5 DEF MakeDir
  <2>2. disk \in Disks /\ disk.ver = Disk.ver
    BY <1>2, <1>t, <2>1 DEF Disks
  <2>3. \A x \in Dirs : disk.ident[x] = IF x = d THEN Now + 1 ELSE Disk.ident[x]
    BY <1>2 DEF Disks
  <2>4. \A x \in Dirs : disk.stamp[x] = IF x \in {d, Root} THEN Now + 1 ELSE Disk.stamp[x]
    BY <1>2 DEF Disks
  <2> HIDE DEF disk
  <2>6. \A g \in Files : disk.ident[In[g]] = 0 => disk.ver[g] = 0
    BY <1>2, <2>1, <2>2, <2>3
  <2> QED BY <1>2, <2>1, <2>2, <2>3, <2>4, <2>6, Remembered
<1>6. ASSUME NEW d \in Dirs, RemoveDir(d) PROVE Past'
  <2> DEFINE gone == IF d = Root THEN Dirs ELSE {d}
             disk == [ver   |-> [f \in Files |-> IF In[f] \in gone THEN 0 ELSE Disk.ver[f]],
                      ident |-> [x \in Dirs |-> IF x \in gone THEN 0 ELSE Disk.ident[x]],
                      stamp |-> [x \in Dirs |-> IF x \in gone \union {Root} THEN Now + 1 ELSE Disk.stamp[x]]]
  <2>1. Edit(disk)
    BY <1>6 DEF RemoveDir
  <2>2. disk \in Disks
    BY <1>2, <1>t, <2>1 DEF Disks
  <2>3. \A x \in Dirs : /\ disk.ident[x] = IF x \in gone THEN 0 ELSE Disk.ident[x]
                        /\ disk.stamp[x] = IF x \in gone \union {Root} THEN Now + 1 ELSE Disk.stamp[x]
    OBVIOUS
  <2>4. \A f \in Files : disk.ver[f] = IF In[f] \in gone THEN 0 ELSE Disk.ver[f]
    OBVIOUS
  <2> HIDE DEF disk, gone
  <2>5. \A g \in Files : disk.stamp[In[g]] = Disk.stamp[In[g]] => (disk.ver[g] = 0) = (Disk.ver[g] = 0)
    BY <1>2, <2>3, <2>4
  <2>6. \A g \in Files : disk.ident[In[g]] = 0 => disk.ver[g] = 0
    BY <1>2, <2>1, <2>3, <2>4
  <2> QED BY <1>2, <2>1, <2>2, <2>3, <2>5, <2>6, Remembered
<1>7. CASE Dirty
  BY <1>7 DEF Dirty, Past, Remembers, Now
<1> QED BY <1>3, <1>4, <1>5, <1>6, <1>7 DEF World

LEMMA NextPast == TInv /\ Past /\ [Next]_vars => Past'
<1> SUFFICES ASSUME TInv, Past, [Next]_vars PROVE Past'
  OBVIOUS
<1>1. ASSUME UNCHANGED hist PROVE Past'
  BY <1>1 DEF Past, Remembers, Now
<1>2. CASE UNCHANGED vars
  BY <1>1, <1>2 DEF vars
<1>3. CASE Admission
  <2>1. UNCHANGED hist
    <3>1. \E p, J, j, n, r : Admits(p, J, j, n, r)
      BY <1>3, RequestAdmits, ResumeAdmits, ContinueAdmits DEF Admission, TInv
    <3> QED BY <3>1 DEF Admits, Serve
  <2> QED BY <1>1, <2>1
<1>4. CASE Traversal
  BY <1>1, <1>4 DEF Traversal, Open, CannotOpen, List, Checkpoint, Close, Recheck, Commit, Finish,
     Fenced, Stays, Steps, Ends
<1>5. CASE Trouble
  BY <1>1, <1>5 DEF Trouble, Crash, ListPart, Abort, Ends, Cancel, Lapse
<1> QED BY <1>2, <1>3, <1>4, <1>5, WorldPast DEF Next

LEMMA InitPast == Init => Past
<1> SUFFICES ASSUME Init PROVE Past
  OBVIOUS
<1>1. PICK ver \in [Files -> {0, 1}], ident \in [Dirs -> {0, 1}] :
        /\ \A f \in Files : ver[f] <= ident[In[f]]
        /\ hist = <<[ver |-> ver, ident |-> ident, stamp |-> [d \in Dirs |-> 1]]>>
  BY DEF Init
<1>2. Now = 1 /\ hist[1] = [ver |-> ver, ident |-> ident, stamp |-> [d \in Dirs |-> 1]]
  BY <1>1 DEF Now
<1>3. \A f \in Files : In[f] \in Dirs
  BY ScanAssumption DEF Dirs
<1> SUFFICES ASSUME NEW d \in Dirs PROVE Remembers(1, d)
  BY <1>2 DEF Past
<1>4. ident[d] \in {0, 1} /\ \A f \in Files : ver[f] \in {0, 1}
  OBVIOUS
<1>5. ident[d] = 0 => \A f \in Files : In[f] = d => ver[f] = 0
  BY <1>1, <1>3, <1>4
<1> QED BY <1>2, <1>4, <1>5 DEF Remembers

-----------------------------------------------------------------------------
(* Evidence.  The operators below have what they speak about as parameters: *)
(* H is a history of the disk, R the rows on record, J the jobs, Q the      *)
(* requests, g the dirty generation and a the time it began.                *)

Since(H, f, t) == {H[i].ver[f] : i \in {k \in 1 .. Len(H) : k >= t}}
Extends(H, K) == /\ Len(H) \in Nat /\ Len(K) \in Nat /\ Len(H) <= Len(K)
                 /\ \A i \in 1 .. Len(H) : K[i] = H[i]

(* A job: when its evidence began, what its scopes and its seen rows allow. *)
Shaped(H, g, a, row) ==
    /\ row.at <= Len(H)
    /\ row.state # "queued" => row.started
    /\ ~ row.started => \A d \in Dirs : row.scopes[d].state # "complete"
    /\ row.state = "complete" => \A d \in Dirs : row.scopes[d].state \in {"none", "complete"}
    /\ row.scopes[Root].state # "none"
    /\ \A f \in row.seen : row.scopes[In[f]].state # "none"
    /\ row.started /\ row.dirty >= g => a <= row.at

(* A scope that is complete speaks for the files in it, and that of the     *)
(* root also for the directories that the job has no scope for.             *)
SpeaksFor(row, f) ==
    \/ row.scopes[In[f]].state = "complete"
    \/ row.scopes[Root].state = "complete" /\ row.scopes[In[f]].state = "none"
Vouches(H, R, row) == \A f \in Files : SpeaksFor(row, f) => R[f] \in Since(H, f, row.at)

(* A continuation carries on from a job that has been started; a job that   *)
(* is queued otherwise has not been.                                        *)
Descends(J, j) ==
    /\ J[j].parent = 0 /\ J[j].state = "queued" => ~ J[j].started
    /\ J[j].parent # 0 =>
          /\ J[j].parent \in DOMAIN J /\ J[J[j].parent].started
          /\ J[j].started => J[J[j].parent].at <= J[j].at

(* A walk w and the row of its job.  ReadAt: t is a time at which all of    *)
(* the directory was listed, as it is in the entries and the seen rows.     *)
InPlaceAt(H, w, t) == H[t].ident[Root] = w.root /\ H[t].ident[w.dir] = w.queue[w.dir].ident

Reads(w) == w.pc \in {"reading", "closed", "checked"}

Queues(w, row) ==
    \A d \in Dirs :
        /\ d \in w.dirs => w.queue[d].state \notin {"none", "running"}
        /\ d \notin w.dirs => (w.queue[d].state = "none") = (row.scopes[d].state = "none")

ReadAt(H, w, row, t) ==
    /\ w.queue[w.dir].ident <= t /\ w.stamp <= t
    /\ \A f \in Files : In[f] = w.dir =>
          (w.entries[f] # 0 \/ f \in row.seen) = (InPlaceAt(H, w, t) /\ H[t].ver[f] # 0)
    /\ w.dir = Root /\ InPlaceAt(H, w, t) =>
          \A s \in Subs : w.queue[s].state = "none" => H[t].ident[s] = 0
    /\ w.verified => \E u \in t .. Len(H) : H[u].stamp[w.dir] = w.stamp /\ InPlaceAt(H, w, u)

Buffers(H, w) ==
    \A f \in Files : w.entries[f] # 0 =>
        Reads(w) /\ ~ w.left /\ In[f] = w.dir /\ w.entries[f] \in Since(H, f, w.from)

Phases(w) ==
    /\ w.pc = "reading" => w.queue[w.dir].state = "running"
    /\ w.left => w.pc = "reading"
    /\ w.verified => w.pc = "checked" /\ w.queue[w.dir].state = "complete"
    /\ w.pc \in {"closed", "checked"} =>
          /\ w.queue[w.dir].state \in {"complete", "failed", "deferred"}
          /\ w.queue[w.dir].state = "complete" => w.status = "complete"

Covers(H, R, w, row) ==
    Reads(w) =>
        /\ w.queue[w.dir].ident \in 1 .. Len(H) /\ w.stamp \in 1 .. Len(H)
        /\ \A f \in row.seen : In[f] = w.dir => ~ w.left /\ R[f] # 0 /\ R[f] \in Since(H, f, w.from)
        /\ ~ w.left /\ w.status = "complete" => \E t \in w.from .. Len(H) : ReadAt(H, w, row, t)

Tracks(H, R, w, row) ==
    /\ w.from \in 1 .. Len(H) /\ w.root \in 1 .. w.from
    /\ Queues(w, row) /\ Buffers(H, w) /\ Phases(w) /\ Covers(H, R, w, row)

(* No evidence is younger than the claim of a walk, and while no dirty      *)
(* event has overtaken the job its request still waits for it.              *)
Tied(J, Q, g, a, w) ==
    /\ \A j \in DOMAIN J : J[j].at <= w.from
    /\ J[w.job].dirty >= g => a <= w.from /\ Q[w.req].job = w.job

(* A request r that waits for the job j: its minimum start is no later than *)
(* the last dirty event, or than the evidence it continues, or than every   *)
(* job that began after it asked.                                           *)
Backed(J, a, t) == t <= a \/ \E k \in DOMAIN J : J[k].started /\ t <= J[k].at
Dated(J, a, j, r) ==
    \/ r.at <= a
    \/ r.parent # 0 /\ r.at <= J[r.parent].at
    \/ /\ r.parent = 0 /\ ~ r.reuse
       /\ \A k \in DOMAIN J : J[k].parent = 0 /\ J[k].started /\ k \notin r.before => r.at <= J[k].at
       /\ j \in r.before => J[j].state = "failed" /\ J[j].deferred
Waits(H, R, J, a, j, r) ==
    /\ r.at <= Len(H) /\ J[j].parent = r.parent
    /\ \A k \in r.before : k \in DOMAIN J /\ J[k].started
    /\ Dated(J, a, j, r)
    /\ r.answer = "complete" => Backed(J, a, r.at) /\ \A f \in Files : R[f] \in Since(H, f, r.at)

(* All of it, for the present state.                                        *)
JobsSound == \A j \in DOMAIN jobs :
    /\ Shaped(hist, dirty, dirtyAt, jobs[j]) /\ Vouches(hist, rows, jobs[j]) /\ Descends(jobs, j)
    /\ jobs[j].dirty <= dirty
WalksSound == \A p \in Procs : Walker(p) =>
    /\ Tracks(hist, rows, walks[p], jobs[walks[p].job])
    /\ Tied(jobs, requests, dirty, dirtyAt, walks[p])
RequestsSound == \A n \in DOMAIN requests :
    Waits(hist, rows, jobs, dirtyAt, requests[n].job, requests[n])
Sound == Past /\ JobsSound /\ WalksSound /\ RequestsSound
SInv == TInv /\ Sound

-----------------------------------------------------------------------------
(* Time passes.                                                             *)

LEMMA SinceGrows ==
    ASSUME NEW H, NEW K, Extends(H, K), NEW f, NEW t \in Nat, NEW u \in Nat, u <= t
    PROVE  Since(H, f, t) \subseteq Since(K, f, u)
<1> SUFFICES ASSUME NEW i \in 1 .. Len(H), i >= t PROVE H[i].ver[f] \in Since(K, f, u)
  BY DEF Since
<1>1. i \in 1 .. Len(K) /\ i >= u /\ K[i].ver[f] = H[i].ver[f]
  BY DEF Extends
<1> QED BY <1>1 DEF Since

LEMMA SinceLater ==
    ASSUME NEW H, Len(H) \in Nat, NEW f, NEW t \in Nat, NEW u \in Nat, u <= t
    PROVE  Since(H, f, t) \subseteq Since(H, f, u)
BY SinceGrows DEF Extends

LEMMA RowInts ==
    ASSUME NEW row \in JobRows
    PROVE  /\ row.at \in Nat /\ row.dirty \in Nat /\ row.parent \in Nat /\ row.seen \subseteq Files
           /\ row.pinned \in Nat /\ row.scopes \in Scopes /\ row.started \in BOOLEAN /\ row.deferred \in BOOLEAN
BY Bounds DEF JobRows, Times

LEMMA WalkInts ==
    ASSUME NEW w \in Walks
    PROVE  /\ w.from \in Nat /\ w.root \in Nat /\ w.stamp \in Nat /\ w.dir \in Dirs
           /\ w.queue \in Scopes /\ w.dirs \subseteq Dirs /\ w.entries \in [Files -> Times]
           /\ w.left \in BOOLEAN /\ w.verified \in BOOLEAN
           /\ \A d \in Dirs : w.queue[d].ident \in Nat
BY Bounds DEF Walks, Times, Scopes

LEMMA RequestInts ==
    ASSUME NEW r \in Requests
    PROVE  /\ r.at \in Nat /\ r.parent \in Nat /\ r.reuse \in BOOLEAN /\ r.before \subseteq JobIds
           /\ r.job \in JobIds /\ r.job # 0
BY Bounds DEF Requests, Times, JobIds

LEMMA ShapedLater ==
    ASSUME NEW H, NEW K, Extends(H, K), NEW g, NEW a, NEW row \in JobRows, Shaped(H, g, a, row)
    PROVE  Shaped(K, g, a, row)
BY RowInts DEF Shaped, Extends

LEMMA VouchesLater ==
    ASSUME NEW H, NEW K, Extends(H, K), NEW R, NEW row \in JobRows, Vouches(H, R, row)
    PROVE  Vouches(K, R, row)
BY RowInts, SinceGrows DEF Vouches

LEMMA TracksLater ==
    ASSUME NEW H, NEW K, Extends(H, K), NEW R, NEW w \in Walks, NEW row, Tracks(H, R, w, row)
    PROVE  Tracks(K, R, w, row)
<1>0. \A f \in Files : Since(H, f, w.from) \subseteq Since(K, f, w.from)
  BY WalkInts, SinceGrows
<1>1. w.from \in 1 .. Len(K) /\ w.root \in 1 .. w.from /\ Queues(w, row) /\ Phases(w)
  BY WalkInts DEF Tracks, Extends
<1>2. Buffers(K, w)
  BY <1>0 DEF Tracks, Buffers
<1>3. \A t \in 1 .. Len(H) : InPlaceAt(H, w, t) = InPlaceAt(K, w, t) /\ H[t] = K[t] /\ t \in 1 .. Len(K)
  BY DEF InPlaceAt, Extends
<1>4. ASSUME NEW t \in w.from .. Len(H), ReadAt(H, w, row, t)
      PROVE  t \in w.from .. Len(K) /\ ReadAt(K, w, row, t)
  <2>1. t \in 1 .. Len(H) /\ t \in w.from .. Len(K)
    BY <1>1, WalkInts DEF Extends
  <2>2. w.verified => \E u \in t .. Len(K) : K[u].stamp[w.dir] = w.stamp /\ InPlaceAt(K, w, u)
    <3> SUFFICES ASSUME w.verified
                 PROVE  \E u \in t .. Len(K) : K[u].stamp[w.dir] = w.stamp /\ InPlaceAt(K, w, u)
      OBVIOUS
    <3>1. PICK u \in t .. Len(H) : H[u].stamp[w.dir] = w.stamp /\ InPlaceAt(H, w, u)
      BY <1>4 DEF ReadAt
    <3>2. u \in 1 .. Len(H) /\ u \in t .. Len(K)
      BY <2>1 DEF Extends
    <3> QED BY <1>3, <3>1, <3>2
  <2> QED BY <1>3, <1>4, <2>1, <2>2 DEF ReadAt
<1>5. Covers(K, R, w, row)
  <2> SUFFICES ASSUME Reads(w) PROVE Covers(K, R, w, row)
    BY DEF Covers
  <2>1. /\ w.queue[w.dir].ident \in 1 .. Len(H) /\ w.stamp \in 1 .. Len(H)
        /\ \A f \in row.seen : In[f] = w.dir => ~ w.left /\ R[f] # 0 /\ R[f] \in Since(H, f, w.from)
        /\ ~ w.left /\ w.status = "complete" => \E t \in w.from .. Len(H) : ReadAt(H, w, row, t)
    BY DEF Tracks, Covers
  <2>2. w.queue[w.dir].ident \in 1 .. Len(K) /\ w.stamp \in 1 .. Len(K)
    BY <2>1 DEF Extends
  <2>3. \A f : Since(H, f, w.from) \subseteq Since(K, f, w.from)
    BY WalkInts, SinceGrows
  <2> QED BY <1>4, <2>1, <2>2, <2>3 DEF Covers
<1> QED BY <1>1, <1>2, <1>5 DEF Tracks

LEMMA WaitsLater ==
    ASSUME NEW H, NEW K, Extends(H, K), NEW R, NEW J, NEW a \in Nat, NEW b \in Nat, a <= b,
           NEW j, NEW r \in Requests, Waits(H, R, J, a, j, r)
    PROVE  Waits(K, R, J, b, j, r)
<1>1. r.at \in Nat /\ r.at <= Len(K)
  BY RequestInts DEF Waits, Extends
<1>2. Dated(J, b, j, r)
  BY <1>1 DEF Waits, Dated
<1>3. Backed(J, a, r.at) => Backed(J, b, r.at)
  BY <1>1 DEF Backed
<1>4. \A f \in Files : Since(H, f, r.at) \subseteq Since(K, f, r.at)
  BY <1>1, SinceGrows
<1> QED BY <1>1, <1>2, <1>3, <1>4 DEF Waits

-----------------------------------------------------------------------------
(* The jobs advance from J to K at time t: what was started stays where it  *)
(* was, what is started now begins at t.                                    *)
Advances(J, K, t) ==
    /\ DOMAIN J \subseteq DOMAIN K
    /\ \A k \in DOMAIN J :
          /\ K[k].parent = J[k].parent /\ K[k].started \in BOOLEAN /\ J[k].started \in BOOLEAN
          /\ J[k].started => K[k].started /\ K[k].at = J[k].at
          /\ K[k].started /\ ~ J[k].started => K[k].at = t
          /\ J[k].state = "failed" /\ J[k].deferred => K[k].state = "failed" /\ K[k].deferred
          /\ K[k].state = "queued" => J[k].state = "queued" /\ K[k].started = J[k].started
    /\ \A k \in DOMAIN K \ DOMAIN J : K[k].parent # 0 \/ ~ K[k].started

LEMMA WaitsAdvance ==
    ASSUME NEW H, NEW R, NEW J, NEW K, Advances(J, K, Len(H)), NEW a, NEW j \in DOMAIN J,
           NEW r \in Requests, Descends(J, j), Waits(H, R, J, a, j, r)
    PROVE  Waits(H, R, K, a, j, r)
<1>1. K[j].parent = r.parent
  BY DEF Waits, Advances
<1>2. \A k \in r.before : k \in DOMAIN K /\ K[k].started
  BY DEF Waits, Advances
<1>3. Backed(J, a, r.at) => Backed(K, a, r.at)
  BY DEF Backed, Advances
<1>4. Dated(K, a, j, r)
  <2>1. CASE r.at <= a
    BY <2>1 DEF Dated
  <2>2. CASE r.parent # 0 /\ r.at <= J[r.parent].at
    <3>1. r.parent \in DOMAIN J /\ J[r.parent].started
      BY <2>2 DEF Waits, Descends
    <3> QED BY <2>2, <3>1 DEF Dated, Advances
  <2>3. CASE /\ r.parent = 0 /\ ~ r.reuse
             /\ \A k \in DOMAIN J : J[k].parent = 0 /\ J[k].started /\ k \notin r.before => r.at <= J[k].at
             /\ j \in r.before => J[j].state = "failed" /\ J[j].deferred
    <3>1. ASSUME NEW k \in DOMAIN K, K[k].parent = 0, K[k].started, k \notin r.before
          PROVE  r.at <= K[k].at
      <4>1. k \in DOMAIN J /\ J[k].parent = 0
        BY <3>1 DEF Advances
      <4>2. r.at <= Len(H)
        BY DEF Waits
      <4> QED BY <2>3, <3>1, <4>1, <4>2 DEF Advances
    <3>2. j \in r.before => K[j].state = "failed" /\ K[j].deferred
      BY <2>3 DEF Advances
    <3> QED BY <2>3, <3>1, <3>2 DEF Dated
  <2> QED BY <2>1, <2>2, <2>3 DEF Waits, Dated
<1> QED BY <1>1, <1>2, <1>3, <1>4 DEF Waits

LEMMA DescendsAdvance ==
    ASSUME NEW J, NEW K, NEW t \in Nat, Advances(J, K, t), NEW j \in DOMAIN J, Descends(J, j),
           \A k \in DOMAIN J : J[k].at \in Nat /\ J[k].at <= t
    PROVE  Descends(K, j)
<1>1. K[j].parent = J[j].parent /\ (J[j].started => K[j].started /\ K[j].at = J[j].at)
  BY DEF Advances
<1>2. K[j].parent = 0 /\ K[j].state = "queued" => ~ K[j].started
  BY DEF Descends, Advances
<1>3. ASSUME K[j].parent # 0
      PROVE  /\ K[j].parent \in DOMAIN K /\ K[K[j].parent].started
             /\ K[j].started => K[K[j].parent].at <= K[j].at
  <2>1. J[j].parent \in DOMAIN J /\ J[J[j].parent].started
    BY <1>1, <1>3 DEF Descends
  <2>2. K[J[j].parent].started /\ K[J[j].parent].at = J[J[j].parent].at /\ J[j].parent \in DOMAIN K
    BY <2>1 DEF Advances
  <2>3. K[j].started /\ ~ J[j].started => K[j].at = t
    BY DEF Advances
  <2> QED BY <1>1, <1>3, <2>1, <2>2, <2>3 DEF Descends, Advances
<1> QED BY <1>2, <1>3 DEF Descends

-----------------------------------------------------------------------------
(* The steps of a walk that leave the catalog alone.                        *)

LEMMA WalkFacts ==
    ASSUME SInv, NEW p \in Procs, Walker(p)
    PROVE  /\ walks[p] \in Walks /\ jobs[walks[p].job] \in JobRows
           /\ walks[p].job \in DOMAIN jobs /\ walks[p].req \in DOMAIN requests
           /\ jobs[walks[p].job].state = "running"
           /\ Tracks(hist, rows, walks[p], jobs[walks[p].job])
           /\ Tied(jobs, requests, dirty, dirtyAt, walks[p])
           /\ jobs \in Seq(JobRows) /\ walks \in [Procs -> Walks]
BY WalkerFacts DEF SInv, Sound, WalksSound

LEMMA WalkOnly ==
    ASSUME SInv, NEW p \in Procs, Walker(p), NEW v \in Walks, v.job = walks[p].job,
           v.req = walks[p].req, v.from = walks[p].from, walks' = [walks EXCEPT ![p] = v],
           UNCHANGED <<hist, rows, dirty, dirtyAt, jobs, requests>>,
           Tracks(hist, rows, v, jobs[v.job])
    PROVE  Sound'
<1>1. \A q \in Procs : walks'[q] = IF q = p THEN v ELSE walks[q]
  BY WalkFacts
<1>2. Tied(jobs, requests, dirty, dirtyAt, v)
  BY WalkFacts DEF Tied
<1>3. WalksSound'
  BY <1>1, <1>2 DEF SInv, Sound, WalksSound, Walker
<1>4. Past' /\ JobsSound' /\ RequestsSound'
  BY DEF SInv, Sound, JobsSound, RequestsSound, Past, Remembers, Now
<1> QED BY <1>3, <1>4 DEF Sound

LEMMA CannotOpenSound ==
    ASSUME SInv, NEW p \in Procs, NEW d \in Dirs, CannotOpen(p, d)
    PROVE  Sound'
<1> DEFINE w == walks[p]
           row == jobs[w.job]
           q == [w.queue EXCEPT ![d] = [state |-> "failed", ident |-> 0]]
           v == [w EXCEPT !.queue = q, !.dirs = w.dirs \union {d}]
<1>1. Walker(p) /\ w.pc = "walk" /\ w.queue[d].state = "pending"
  BY DEF CannotOpen, Walker
<1>2. w \in Walks /\ w.queue \in Scopes /\ w.dirs \subseteq Dirs /\ Tracks(hist, rows, w, row)
  BY <1>1, WalkFacts, WalkInts
<1>3. Steps(p, v)
  BY <1>2 DEF CannotOpen, Walks
<1>4. q \in Scopes
  BY <1>2, DiskFacts DEF Scopes, ScopeStates, SInv
<1>5. \A x \in Dirs : q[x] = IF x = d THEN [state |-> "failed", ident |-> 0] ELSE w.queue[x]
  BY <1>2 DEF Scopes
<1> HIDE DEF q
<1>6. v \in Walks
  BY <1>2, <1>4 DEF Walks
<1>7. /\ v.job = w.job /\ v.req = w.req /\ v.from = w.from /\ v.root = w.root /\ v.pc = "walk"
      /\ v.queue = q /\ v.dirs = w.dirs \union {d} /\ v.entries = w.entries /\ v.left = w.left
      /\ v.verified = w.verified
  BY <1>1, <1>2 DEF Walks
<1> HIDE DEF v
<1>8. Queues(v, row)
  BY <1>2, <1>5, <1>7 DEF Tracks, Queues
<1>9. Buffers(hist, v)
  BY <1>1, <1>2, <1>7 DEF Tracks, Buffers, Reads
<1>10. Phases(v)
  BY <1>1, <1>2, <1>7 DEF Tracks, Phases
<1>11. Covers(hist, rows, v, row)
  BY <1>7 DEF Covers, Reads
<1>12. Tracks(hist, rows, v, row)
  BY <1>2, <1>7, <1>8, <1>9, <1>10, <1>11 DEF Tracks
<1> QED BY <1>1, <1>3, <1>6, <1>7, <1>12, WalkOnly DEF Steps, Stays

(* What is listed is what is there, and a part of it does not count as      *)
(* complete.                                                                *)
LEMMA ListingTracks ==
    ASSUME SInv, NEW p \in Procs, walks[p].pc = "reading", walks[p].left,
           NEW names \in SUBSET Names(walks[p].dir), NEW status,
           names = Names(walks[p].dir) \/ status # "complete"
    PROVE  LET v == [Listed(walks[p], names) EXCEPT !.status = status]
           IN Tracks(hist, rows, v, jobs[v.job])
<1> DEFINE w == walks[p]
           row == jobs[w.job]
           there == IF InPlace(w) THEN names ELSE {}
           new == {s \in there \intersect Subs : Disk.ident[s] # 0 /\ w.queue[s].state = "none"}
           entries == [f \in Files |-> IF f \in there THEN Disk.ver[f] ELSE 0]
           queue == [d \in Dirs |-> IF d \in new THEN [state |-> "pending", ident |-> Disk.ident[d]]
                                    ELSE w.queue[d]]
           v == [Listed(w, names) EXCEPT !.status = status]
<1>1. Walker(p) /\ w \in Walks /\ Tracks(hist, rows, w, row) /\ w.queue \in Scopes /\ w.dir \in Dirs
      /\ w.dirs \subseteq Dirs /\ w.pc = "reading" /\ w.left
  BY WalkFacts, WalkInts DEF Walker
<1>2. Now \in 1 .. Now /\ Now \in Nat /\ Now = Len(hist) /\ hist[Now] = Disk /\ w.from \in 1 .. Now
      /\ w.root \in 1 .. w.from
  BY <1>1, HistFacts DEF SInv, Tracks, Now, Disk
<1>3. v = [w EXCEPT !.left = FALSE, !.dirs = w.dirs \union new, !.entries = entries,
                    !.queue = queue, !.status = status]
  BY <1>1 DEF Listed, Walks
<1>4. \A f \in Files : entries[f] = IF f \in there THEN Disk.ver[f] ELSE 0
  OBVIOUS
<1>5. \A d \in Dirs : (d \in new => queue[d].state = "pending") /\ (d \notin new => queue[d] = w.queue[d])
  OBVIOUS
<1>6. new \subseteq Subs /\ Subs \subseteq Dirs /\ Root \notin Subs /\ \A f \in Files : In[f] \in Dirs
  BY ScanAssumption DEF Dirs
<1>7. /\ \A s \in new : s \in there /\ w.queue[s].state = "none"
      /\ \A s \in Subs : s \in there /\ Disk.ident[s] # 0 /\ w.queue[s].state = "none" => s \in new
  OBVIOUS
<1> HIDE DEF entries, queue, new
<1>8. /\ v.job = w.job /\ v.from = w.from /\ v.root = w.root /\ v.pc = "reading" /\ v.dir = w.dir
      /\ v.queue = queue /\ v.dirs = w.dirs \union new /\ v.entries = entries /\ v.left = FALSE
      /\ v.verified = w.verified /\ v.status = status /\ v.stamp = w.stamp
  BY <1>1, <1>3 DEF Walks
<1> HIDE DEF v
<1>9. w.queue[w.dir].state = "running" /\ ~ w.verified
  BY <1>1 DEF Tracks, Phases
<1>10. w.dir \notin new /\ queue[w.dir] = w.queue[w.dir]
  BY <1>1, <1>5, <1>7, <1>9
<1>11. Queues(v, row)
  <2>1. \A d \in Dirs : d \in new => queue[d].state = "pending"
    BY <1>5
  <2>2. \A d \in Dirs : d \notin new => queue[d] = w.queue[d]
    BY <1>5
  <2>3. Queues(w, row)
    BY <1>1 DEF Tracks
  <2> SUFFICES ASSUME NEW d \in Dirs
               PROVE  /\ d \in v.dirs => queue[d].state \notin {"none", "running"}
                      /\ d \notin v.dirs => (queue[d].state = "none") = (row.scopes[d].state = "none")
    BY <1>8 DEF Queues
  <2>4. CASE d \in new
    BY <1>8, <2>1, <2>4
  <2>5. CASE d \notin new
    BY <1>8, <2>2, <2>3, <2>5 DEF Queues
  <2> QED BY <2>4, <2>5
<1>12. \A f \in Files : f \in there => In[f] = w.dir /\ InPlace(w)
  BY ScanAssumption DEF Names
<1>13. Phases(v)
  BY <1>8, <1>9, <1>10 DEF Phases
<1>14. \A f \in Files : Disk.ver[f] \in Since(hist, f, w.from)
  BY <1>2 DEF Since
<1>15. Buffers(hist, v)
  BY <1>4, <1>8, <1>12, <1>14 DEF Buffers, Reads
<1>16. \A f \in row.seen : In[f] # w.dir
  BY <1>1 DEF Tracks, Covers, Reads
<1>17. InPlace(w) = InPlaceAt(hist, w, Now) /\ InPlaceAt(hist, v, Now) = InPlaceAt(hist, w, Now)
  BY <1>2, <1>8, <1>10 DEF InPlace, InPlaceAt
<1>18. w.queue[w.dir].ident \in 1 .. Now /\ w.stamp \in 1 .. Now
  BY <1>1, <1>2 DEF Tracks, Covers, Reads
<1>19. ASSUME names = Names(w.dir) PROVE ReadAt(hist, v, row, Now)
  <2>1. \A f \in Files : In[f] = w.dir => (f \in there) = InPlace(w)
    BY <1>19 DEF Names, InPlace
  <2>2. \A f \in Files : In[f] = w.dir =>
          (entries[f] # 0 \/ f \in row.seen) = (InPlace(w) /\ hist[Now].ver[f] # 0)
    BY <1>2, <1>4, <1>16, <2>1
  <2>3. ASSUME w.dir = Root, InPlace(w), NEW s \in Subs, queue[s].state = "none"
        PROVE  hist[Now].ident[s] = 0
    <3>1. s \in there
      BY <1>19, <2>3 DEF Names
    <3>2. s \notin new /\ w.queue[s].state = "none"
      <4>1. s \in Dirs /\ (s \in new => queue[s].state = "pending") /\ (s \notin new => queue[s] = w.queue[s])
        BY <1>5, <1>6
      <4> QED BY <2>3, <4>1
    <3> QED BY <1>2, <1>7, <2>3, <3>1, <3>2
  <2> HIDE DEF there
  <2> QED BY <1>2, <1>8, <1>9, <1>10, <1>17, <1>18, <2>2, <2>3 DEF ReadAt
<1>20. ~ v.left /\ v.status = "complete" => \E t \in v.from .. Len(hist) : ReadAt(hist, v, row, t)
  BY <1>2, <1>8, <1>19
<1>21. Covers(hist, rows, v, row)
  BY <1>2, <1>8, <1>10, <1>16, <1>18, <1>20 DEF Covers
<1>22. Tracks(hist, rows, v, row)
  BY <1>2, <1>8, <1>11, <1>13, <1>15, <1>21 DEF Tracks
<1> QED BY <1>8, <1>22 DEF v

LEMMA ListSound ==
    ASSUME SInv, NEW p \in Procs, List(p)
    PROVE  Sound'
<1> DEFINE w == walks[p]
           v == Listed(w, Names(w.dir))
<1>1. Walker(p) /\ w.pc = "reading" /\ w.left /\ Steps(p, v) /\ w \in Walks
  BY WalkFacts DEF List, Walker
<1>2. Names(w.dir) \in SUBSET (Files \union Subs)
  BY DEF Names
<1>3. v \in Walks /\ v.job = w.job /\ v.req = w.req
  BY <1>1, <1>2, ListedTyped DEF SInv
<1>4. v = [v EXCEPT !.status = w.status] /\ v.from = w.from
  <2>1. v.from = w.from /\ v.status = w.status
    BY <1>1 DEF Walks, Listed
  <2> HIDE DEF v
  <2> QED BY <1>3, <2>1 DEF Walks
<1>5. LET x == [v EXCEPT !.status = w.status] IN Tracks(hist, rows, x, jobs[x.job])
  BY <1>1, ListingTracks
<1>6. Tracks(hist, rows, v, jobs[v.job])
  BY <1>4, <1>5
<1> HIDE DEF v
<1> QED BY <1>1, <1>3, <1>4, <1>6, WalkOnly DEF Steps, Stays

LEMMA ListPartSound ==
    ASSUME SInv, NEW p \in Procs, NEW names \in SUBSET Names(walks[p].dir),
           NEW status \in {"failed", "deferred"}, ListPart(p, names, status)
    PROVE  Sound'
<1> DEFINE w == walks[p]
           v == [Listed(w, names) EXCEPT !.status = status]
<1>1. /\ Walker(p) /\ w.pc = "reading" /\ w.left /\ w \in Walks /\ walks' = [walks EXCEPT ![p] = v]
      /\ UNCHANGED <<hist, rows, dirty, dirtyAt, jobs, requests>>
  BY WalkFacts DEF ListPart, Walker
<1>2. names \in SUBSET (Files \union Subs)
  BY DEF Names
<1>3. v \in Walks /\ v.job = w.job /\ v.req = w.req /\ v.from = w.from
  <2>1. Listed(w, names) \in Walks /\ Listed(w, names).job = w.job /\ Listed(w, names).req = w.req
    BY <1>1, <1>2, ListedTyped DEF SInv
  <2>2. Listed(w, names).from = w.from
    BY <1>1 DEF Listed, Walks
  <2> QED BY <2>1, <2>2 DEF Walks
<1>4. Tracks(hist, rows, v, jobs[v.job])
  BY <1>1, ListingTracks
<1> HIDE DEF v
<1> QED BY <1>1, <1>3, <1>4, WalkOnly

LEMMA CloseSound ==
    ASSUME SInv, NEW p \in Procs, Close(p)
    PROVE  Sound'
<1> DEFINE w == walks[p]
           row == jobs[w.job]
           status == IF Disk.stamp[w.dir] # w.stamp THEN "deferred" ELSE w.status
           q == [w.queue EXCEPT ![w.dir].state = status]
           v == [w EXCEPT !.pc = "closed", !.queue = q, !.dirs = w.dirs \union {w.dir}]
<1>1. Walker(p) /\ w.pc = "reading" /\ ~ w.left
  BY DEF Close, Walker
<1>2. w \in Walks /\ w.queue \in Scopes /\ w.dirs \subseteq Dirs /\ Tracks(hist, rows, w, row)
      /\ w.dir \in Dirs /\ w.status \in {"complete", "failed", "deferred"}
  BY <1>1, WalkFacts, WalkInts DEF Walks
<1>3. Steps(p, v)
  BY <1>2 DEF Close, Walks
<1>4. status \in {"complete", "failed", "deferred"} /\ (status = "complete" => w.status = "complete")
  BY <1>2
<1> HIDE DEF status
<1>5. q \in Scopes
  BY <1>2, <1>4 DEF Scopes, ScopeStates
<1>6. /\ \A x \in Dirs \ {w.dir} : q[x] = w.queue[x]
      /\ q[w.dir].state = status /\ q[w.dir].ident = w.queue[w.dir].ident
  BY <1>2 DEF Scopes
<1> HIDE DEF q
<1>7. v \in Walks
  BY <1>2, <1>5 DEF Walks
<1>8. /\ v.job = w.job /\ v.req = w.req /\ v.from = w.from /\ v.root = w.root /\ v.pc = "closed"
      /\ v.queue = q /\ v.dirs = w.dirs \union {w.dir} /\ v.entries = w.entries /\ v.left = w.left
      /\ v.verified = w.verified /\ v.dir = w.dir /\ v.stamp = w.stamp /\ v.status = w.status
  BY <1>2 DEF Walks
<1> HIDE DEF v
<1>9. w.queue[w.dir].state = "running" /\ ~ w.verified
  BY <1>1, <1>2 DEF Tracks, Phases
<1>10. Queues(v, row)
  BY <1>2, <1>4, <1>6, <1>8 DEF Tracks, Queues
<1>11. Buffers(hist, v)
  BY <1>1, <1>2, <1>8 DEF Tracks, Buffers, Reads
<1>12. Phases(v)
  BY <1>1, <1>4, <1>6, <1>8, <1>9 DEF Phases
<1>13. \A t : InPlaceAt(hist, v, t) = InPlaceAt(hist, w, t)
  BY <1>6, <1>8 DEF InPlaceAt
<1>14. ASSUME NEW t, ReadAt(hist, w, row, t) PROVE ReadAt(hist, v, row, t)
  <2>1. ASSUME w.dir = Root, InPlaceAt(hist, w, t), NEW s \in Subs, q[s].state = "none"
        PROVE  hist[t].ident[s] = 0
    <3>1. s \in Dirs \ {w.dir}
      BY <2>1, ScanAssumption DEF Dirs
    <3> QED BY <1>6, <1>14, <2>1, <3>1 DEF ReadAt
  <2> QED BY <1>6, <1>8, <1>9, <1>13, <1>14, <2>1 DEF ReadAt
<1>15. Covers(hist, rows, v, row)
  BY <1>1, <1>2, <1>6, <1>8, <1>14 DEF Tracks, Covers, Reads
<1>16. Tracks(hist, rows, v, row)
  BY <1>2, <1>8, <1>10, <1>11, <1>12, <1>15 DEF Tracks
<1> QED BY <1>1, <1>3, <1>7, <1>8, <1>16, WalkOnly DEF Steps, Stays

(* A directory that is found in place and unchanged after its last name was *)
(* read is the one that was listed.                                         *)
LEMMA RecheckSound ==
    ASSUME SInv, NEW p \in Procs, Recheck(p)
    PROVE  Sound'
<1> DEFINE w == walks[p]
           row == jobs[w.job]
           ok == /\ w.queue[w.dir].state = "complete" /\ InPlace(w)
                 /\ Disk.stamp[w.dir] = w.stamp
           v == [w EXCEPT !.pc = "checked", !.verified = ok]
<1>1. Walker(p) /\ w.pc = "closed" /\ Steps(p, v)
  BY DEF Recheck, Walker
<1>2. w \in Walks /\ Tracks(hist, rows, w, row)
  BY <1>1, WalkFacts
<1>3. ok \in BOOLEAN /\ (ok => /\ w.queue[w.dir].state = "complete" /\ InPlace(w)
                              /\ Disk.stamp[w.dir] = w.stamp)
  OBVIOUS
<1> HIDE DEF ok
<1>4. v \in Walks
  BY <1>2, <1>3 DEF Walks
<1>5. /\ v.job = w.job /\ v.req = w.req /\ v.from = w.from /\ v.root = w.root /\ v.pc = "checked"
      /\ v.queue = w.queue /\ v.dirs = w.dirs /\ v.entries = w.entries /\ v.left = w.left
      /\ v.verified = ok /\ v.dir = w.dir /\ v.stamp = w.stamp /\ v.status = w.status
  BY <1>2 DEF Walks
<1> HIDE DEF v
<1>6. Queues(v, row) /\ Buffers(hist, v) /\ Phases(v)
  BY <1>1, <1>2, <1>3, <1>5 DEF Tracks, Queues, Buffers, Phases, Reads
<1>7. ASSUME NEW t \in w.from .. Len(hist), ReadAt(hist, w, row, t) PROVE ReadAt(hist, v, row, t)
  <2>1. \A u : InPlaceAt(hist, v, u) = InPlaceAt(hist, w, u)
    BY <1>5 DEF InPlaceAt
  <2>2. Len(hist) \in t .. Len(hist) /\ hist[Len(hist)] = Disk
    BY <1>2, HistFacts DEF Tracks, SInv, Disk, Now
  <2>3. ok => hist[Len(hist)].stamp[w.dir] = w.stamp /\ InPlaceAt(hist, w, Len(hist))
    BY <1>3, <2>2 DEF InPlace, InPlaceAt
  <2>4. ok => \E u \in t .. Len(hist) : hist[u].stamp[w.dir] = w.stamp /\ InPlaceAt(hist, w, u)
    BY <2>2, <2>3
  <2> QED BY <1>5, <1>7, <2>1, <2>4 DEF ReadAt
<1>8. Covers(hist, rows, v, row)
  BY <1>1, <1>2, <1>5, <1>7 DEF Tracks, Covers, Reads
<1>9. Tracks(hist, rows, v, row)
  BY <1>2, <1>5, <1>6, <1>8 DEF Tracks
<1> QED BY <1>1, <1>4, <1>5, <1>9, WalkOnly DEF Steps, Stays

-----------------------------------------------------------------------------
(* Batches.  Buffered: what a walk is about to publish is held by the disk  *)
(* since its claim, and about scopes that are on record or in the buffer.   *)
Buffered(v, row) ==
    /\ \A d \in Dirs : /\ d \in v.dirs => v.queue[d].state # "none"
                       /\ d \notin v.dirs => (v.queue[d].state = "none") = (row.scopes[d].state = "none")
    /\ \A f \in Files : v.entries[f] # 0 =>
          v.queue[In[f]].state # "none" /\ v.entries[f] \in Since(hist, f, v.from)

LEMMA PublishedFacts ==
    ASSUME SInv, NEW v \in Walks, v.job \in DOMAIN jobs, NEW verified, Buffered(v, jobs[v.job])
    PROVE  LET row == jobs[v.job]
               pub == Published(v, verified)
           IN /\ pub \in JobRows
              /\ pub.state = row.state /\ pub.started = row.started /\ pub.at = row.at
              /\ pub.dirty = row.dirty /\ pub.parent = row.parent /\ pub.token = row.token
              /\ pub.deferred = row.deferred /\ pub.lease = row.lease
              /\ \A d \in Dirs : (pub.scopes[d].state = "none") = (v.queue[d].state = "none")
              /\ \A d \in Dirs : pub.scopes[d].state = "none" => row.scopes[d].state = "none"
              /\ \A d \in Dirs : pub.scopes[d].state = "complete" =>
                                    row.scopes[d].state = "complete" \/ d \in verified
              /\ \A f \in pub.seen : pub.scopes[In[f]].state # "none"
              /\ \A f \in Files : f \in pub.seen <=>
                    v.entries[f] # 0 \/ (f \in row.seen
                                         /\ ~ (In[f] \in v.dirs /\ v.queue[In[f]].state = "running"))
<1> DEFINE row    == jobs[v.job]
           begun  == {d \in v.dirs : v.queue[d].state = "running"}
           scopes == [d \in Dirs |->
                        IF d \notin v.dirs THEN row.scopes[d]
                        ELSE IF v.queue[d].state = "complete" /\ d \notin verified
                        THEN [v.queue[d] EXCEPT !.state = "failed"] ELSE v.queue[d]]
           seen == {f \in Files : v.entries[f] # 0 \/ (f \in row.seen /\ In[f] \notin begun)}
           pub == Published(v, verified)
<1>1. row \in JobRows /\ v.queue \in Scopes /\ v.dirs \subseteq Dirs /\ \A f \in Files : In[f] \in Dirs
  BY JobsInt, WalkInts, ScanAssumption DEF SInv, Dirs
<1>2. pub = [row EXCEPT !.scopes = scopes, !.seen = seen]
  BY DEF Published
<1>3. \A d \in Dirs :
         /\ d \notin v.dirs => scopes[d] = row.scopes[d]
         /\ d \in v.dirs /\ v.queue[d].state = "complete" /\ d \notin verified => scopes[d].state = "failed"
         /\ d \in v.dirs /\ ~ (v.queue[d].state = "complete" /\ d \notin verified) => scopes[d] = v.queue[d]
  BY <1>1 DEF Scopes
<1>4. \A f \in Files : f \in seen <=>
         v.entries[f] # 0 \/ (f \in row.seen /\ ~ (In[f] \in v.dirs /\ v.queue[In[f]].state = "running"))
  OBVIOUS
<1>5. seen \subseteq Files
  OBVIOUS
<1>6. pub \in JobRows
  BY <1>1, PublishedTyped
<1> HIDE DEF scopes, seen, begun
<1>7. /\ pub.scopes = scopes /\ pub.seen = seen
      /\ pub.state = row.state /\ pub.started = row.started /\ pub.at = row.at
      /\ pub.dirty = row.dirty /\ pub.parent = row.parent /\ pub.token = row.token
      /\ pub.deferred = row.deferred /\ pub.lease = row.lease
  BY <1>1, <1>2 DEF JobRows
<1> HIDE DEF pub
<1>8. \A d \in Dirs : (scopes[d].state = "none") = (v.queue[d].state = "none")
  BY <1>3 DEF Buffered
<1>9. \A d \in Dirs : scopes[d].state = "none" => row.scopes[d].state = "none"
  BY <1>3 DEF Buffered
<1>10. \A d \in Dirs : scopes[d].state = "complete" => row.scopes[d].state = "complete" \/ d \in verified
  BY <1>3
<1>11. \A f \in seen : scopes[In[f]].state # "none"
  <2> SUFFICES ASSUME NEW f \in seen PROVE scopes[In[f]].state # "none"
    OBVIOUS
  <2>1. f \in Files /\ In[f] \in Dirs
    BY <1>1, <1>5
  <2>2. CASE v.entries[f] # 0
    BY <1>8, <2>1, <2>2 DEF Buffered
  <2>3. CASE f \in row.seen
    <3>1. Shaped(hist, dirty, dirtyAt, row)
      BY DEF SInv, Sound, JobsSound
    <3> QED BY <1>9, <2>1, <2>3, <3>1 DEF Shaped
  <2> QED BY <1>4, <2>1, <2>2, <2>3
<1> QED BY <1>4, <1>6, <1>7, <1>8, <1>9, <1>10, <1>11 DEF pub

(* What a batch leaves on record: the entries, nothing for what is absent,  *)
(* and the rest as it was.                                                  *)
LEMMA FlushRows ==
    ASSUME SInv, NEW p, NEW v \in Walks, NEW verified, NEW next, Flush(p, v, verified, next),
           v.job \in DOMAIN jobs, Buffered(v, jobs[v.job]),
           \A f \in Absent(Published(v, verified), verified) : 0 \in Since(hist, f, v.from)
    PROVE  /\ \A f \in Files : \/ rows'[f] = rows[f]
                               \/ rows'[f] \in Since(hist, f, v.from)
           /\ \A f \in Files : v.entries[f] # 0 => rows'[f] = v.entries[f]
           /\ \A f \in Absent(Published(v, verified), verified) : rows'[f] = 0
           /\ \A f \in Files : v.entries[f] = 0 /\ f \notin Absent(Published(v, verified), verified)
                                  => rows'[f] = rows[f]
<1> DEFINE absent == Absent(Published(v, verified), verified)
<1>1. rows' = [f \in Files |-> IF v.entries[f] # 0 THEN v.entries[f]
                               ELSE IF f \in absent THEN 0 ELSE rows[f]]
  BY DEF Flush
<1>2. \A f \in Files : f \in absent => v.entries[f] = 0
  BY PublishedFacts DEF Absent
<1>3. absent \subseteq Files
  BY DEF Absent
<1> HIDE DEF absent
<1>4. \A f \in Files : v.entries[f] # 0 => v.entries[f] \in Since(hist, f, v.from)
  BY DEF Buffered
<1>5. \A f \in Files : rows'[f] = IF v.entries[f] # 0 THEN v.entries[f]
                                  ELSE IF f \in absent THEN 0 ELSE rows[f]
  BY <1>1
<1>6. \A f \in absent : 0 \in Since(hist, f, v.from)
  BY DEF absent
<1> QED BY <1>2, <1>3, <1>4, <1>5, <1>6 DEF absent

(* The batch of a walk keeps everything sound if the scopes it reports as   *)
(* verified are right about their files.                                    *)
LEMMA FlushSound ==
    ASSUME SInv, NEW p \in Procs, Walker(p), NEW v \in Walks, NEW verified \in SUBSET Dirs,
           NEW next \in Walks,
           v.job = walks[p].job, v.from = walks[p].from, next.job = v.job, next.req = walks[p].req,
           next.from = v.from, next.pc # "idle", Flush(p, v, verified, next), Stays, Fence(walks[p]),
           Buffered(v, jobs[v.job]),
           \A f \in Absent(Published(v, verified), verified) : 0 \in Since(hist, f, v.from),
           \A f \in Files : In[f] \in verified => rows'[f] \in Since(hist, f, v.from),
           NEW last \in Walks, last = [next EXCEPT !.dirs = {}, !.entries = NoWalk.entries],
           Tracks(hist, rows', last, Published(v, verified))
    PROVE  Sound'
<1> DEFINE w == walks[p]
           row == jobs[v.job]
           pub == Published(v, verified)
<1>1. /\ v.job \in DOMAIN jobs /\ row \in JobRows /\ row.state = "running" /\ jobs \in Seq(JobRows)
      /\ Tied(jobs, requests, dirty, dirtyAt, w) /\ walks \in [Procs -> Walks] /\ w.from \in 1 .. Len(hist)
      /\ w.from \in Nat
  BY WalkFacts, WalkInts DEF Tracks
<1>2. /\ pub \in JobRows /\ pub.state = row.state /\ pub.started = row.started /\ pub.at = row.at
      /\ pub.dirty = row.dirty /\ pub.parent = row.parent /\ pub.deferred = row.deferred
      /\ \A d \in Dirs : pub.scopes[d].state = "none" => row.scopes[d].state = "none"
      /\ \A d \in Dirs : pub.scopes[d].state = "complete" =>
                            row.scopes[d].state = "complete" \/ d \in verified
      /\ \A f \in pub.seen : pub.scopes[In[f]].state # "none"
      /\ \A f \in Files : v.entries[f] # 0 => f \in pub.seen
  BY <1>1, PublishedFacts
<1> HIDE DEF pub
<1>3. /\ \A f \in Files : rows'[f] = rows[f] \/ rows'[f] \in Since(hist, f, w.from)
      /\ \A f \in Absent(pub, verified) : rows'[f] = 0 /\ 0 \in Since(hist, f, w.from)
  <2>1. /\ \A f \in Files : rows'[f] = rows[f] \/ rows'[f] \in Since(hist, f, v.from)
        /\ \A f \in Absent(Published(v, verified), verified) : rows'[f] = 0
    <3>1. v.job \in DOMAIN jobs
      BY <1>1
    <3> HIDE DEF w, row
    <3> QED BY ONLY <3>1, SInv, v \in Walks, Flush(p, v, verified, next), Buffered(v, jobs[v.job]),
       \A f \in Absent(Published(v, verified), verified) : 0 \in Since(hist, f, v.from), FlushRows
  <2>2. v.from = w.from
    OBVIOUS
  <2> QED BY <2>1, <2>2 DEF pub
<1>4. /\ jobs' = [jobs EXCEPT ![v.job] = pub] /\ walks' = [walks EXCEPT ![p] = last]
      /\ UNCHANGED <<hist, dirty, dirtyAt, requests>>
  BY DEF Flush, Stays, pub
<1>5. DOMAIN jobs' = DOMAIN jobs /\ \A j \in DOMAIN jobs : jobs'[j] = IF j = v.job THEN pub ELSE jobs[j]
  BY <1>1, <1>4
<1>6. \A j \in DOMAIN jobs : /\ Shaped(hist, dirty, dirtyAt, jobs[j]) /\ Vouches(hist, rows, jobs[j])
                             /\ Descends(jobs, j) /\ jobs[j] \in JobRows /\ jobs[j].at \in Nat
                             /\ jobs[j].at <= w.from /\ jobs[j].dirty <= dirty
  BY <1>1, JobsInt, RowInts DEF SInv, Sound, JobsSound, Tied
<1>7. \A j \in DOMAIN jobs : \A f \in Files : Since(hist, f, w.from) \subseteq Since(hist, f, jobs[j].at)
  BY <1>1, <1>6, SinceLater, HistFacts DEF SInv
<1>8. Advances(jobs, jobs', Len(hist))
  <2>1. \A j \in DOMAIN jobs : jobs[j].started \in BOOLEAN
    BY <1>6, RowInts
  <2> QED BY <1>1, <1>2, <1>5, <2>1 DEF Advances
<1>9. Shaped(hist, dirty, dirtyAt, pub)
  BY <1>1, <1>2, <1>6, ScanAssumption DEF Shaped, Dirs
<1>10. Vouches(hist, rows', pub)
  <2> SUFFICES ASSUME NEW f \in Files, SpeaksFor(pub, f) PROVE rows'[f] \in Since(hist, f, pub.at)
    BY DEF Vouches
  <2>1. In[f] \in Dirs /\ Root \in Dirs
    BY ScanAssumption DEF Dirs
  <2>2. CASE SpeaksFor(row, f)
    <3>1. rows[f] \in Since(hist, f, row.at)
      BY <1>1, <1>6, <2>2 DEF Vouches
    <3> QED BY <1>1, <1>2, <1>3, <1>7, <3>1
  <2>3. CASE In[f] \in verified
    BY <1>1, <1>2, <1>7, <2>3
  <2>4. CASE Root \in verified /\ pub.scopes[In[f]].state = "none"
    <3>1. f \in Absent(pub, verified)
      BY <1>2, <2>4 DEF Absent
    <3> QED BY <1>1, <1>2, <1>3, <1>7, <3>1
  <2> QED BY <1>2, <2>1, <2>2, <2>3, <2>4 DEF SpeaksFor
<1>11. \A j \in DOMAIN jobs : Vouches(hist, rows', jobs[j])
  BY <1>3, <1>6, <1>7 DEF Vouches
<1>12. JobsSound'
  <2> SUFFICES ASSUME NEW j \in DOMAIN jobs
               PROVE  /\ Shaped(hist, dirty, dirtyAt, jobs'[j]) /\ Vouches(hist, rows', jobs'[j])
                      /\ Descends(jobs', j) /\ jobs'[j].dirty <= dirty
    BY <1>4, <1>5 DEF JobsSound
  <2>1. Descends(jobs', j)
    <3>1. \A k \in DOMAIN jobs : jobs[k].at <= Len(hist)
      BY <1>6 DEF Shaped
    <3> QED BY <1>6, <1>8, <3>1, DescendsAdvance, HistFacts DEF SInv
  <2> QED BY <1>1, <1>2, <1>5, <1>6, <1>9, <1>10, <1>11, <2>1
<1>13. \A q \in Procs : walks'[q] = IF q = p THEN last ELSE walks[q]
  BY <1>1, <1>4
<1>14. last.job = v.job /\ last.req = w.req /\ last.from = w.from /\ last.pc # "idle"
  BY DEF Walks
<1>15. Tied(jobs', requests, dirty, dirtyAt, last)
  <2>1. \A j \in DOMAIN jobs' : jobs'[j].at <= last.from
    BY <1>1, <1>2, <1>5, <1>6, <1>14
  <2> QED BY <1>1, <1>2, <1>5, <1>14, <2>1 DEF Tied
<1>16. WalksSound'
  <2>1. \A q \in Procs : Walker(q)' => q = p
    <3>1. \A q \in Procs : Walker(q) => q = p
      BY DEF SInv, TInv, Alone
    <3> QED BY <1>13, <3>1 DEF Walker
  <2>2. walks'[p] = last /\ jobs'[last.job] = pub
    BY <1>1, <1>5, <1>13, <1>14
  <2>3. Tracks(hist', rows', walks'[p], jobs'[walks'[p].job])
    BY <1>4, <2>2 DEF pub
  <2>4. Tied(jobs', requests', dirty', dirtyAt', walks'[p])
    BY <1>4, <1>15, <2>2
  <2> QED BY <2>1, <2>3, <2>4 DEF WalksSound
<1>17. RequestsSound'
  <2> SUFFICES ASSUME NEW n \in DOMAIN requests
               PROVE  Waits(hist, rows', jobs', dirtyAt, requests[n].job, requests[n])
    BY <1>4 DEF RequestsSound
  <2> DEFINE r == requests[n]
  <2>1. r \in Requests /\ r.job \in DOMAIN jobs /\ Waits(hist, rows, jobs, dirtyAt, r.job, r) /\ r.at \in Nat
    BY RequestFacts, RequestInts DEF SInv, Sound, RequestsSound, TInv, RequestsKnown
  <2>2. Waits(hist, rows, jobs', dirtyAt, r.job, r)
    BY <1>6, <1>8, <2>1, WaitsAdvance
  <2>3. ASSUME r.answer = "complete" PROVE r.at <= w.from
    <3>1. Backed(jobs, dirtyAt, r.at)
      BY <2>1, <2>3 DEF Waits
    <3>2. dirtyAt <= w.from /\ dirtyAt \in Nat
      <4>1. jobs[w.job].dirty >= dirty
        BY <1>1, <1>6, HistFacts, RowInts DEF Fence, SInv
      <4> QED BY <1>1, <4>1, HistFacts DEF Tied, SInv
    <3> QED BY <1>1, <1>6, <2>1, <3>1, <3>2 DEF Backed
  <2>4. ASSUME r.answer = "complete", NEW f \in Files PROVE rows'[f] \in Since(hist, f, r.at)
    <3>1. rows[f] \in Since(hist, f, r.at)
      BY <2>1, <2>4 DEF Waits
    <3>2. Since(hist, f, w.from) \subseteq Since(hist, f, r.at)
      BY <1>1, <2>1, <2>3, <2>4, SinceLater, HistFacts DEF SInv
    <3> QED BY <1>3, <3>1, <3>2
  <2> HIDE DEF r
  <2>5. Waits(hist, rows', jobs', dirtyAt, r.job, r)
    BY <2>2, <2>4 DEF Waits
  <2> QED BY <2>5 DEF r
<1>18. Past'
  BY <1>4 DEF SInv, Sound, Past, Remembers, Now
<1> QED BY <1>12, <1>16, <1>17, <1>18 DEF Sound

LEMMA TracksBuffered ==
    ASSUME SInv, NEW w \in Walks, NEW row, Tracks(hist, rows, w, row)
    PROVE  Buffered(w, row)
<1>1. \A f \in Files : In[f] \in Dirs
  BY ScanAssumption DEF Dirs
<1>2. Reads(w) => w.queue[w.dir].state # "none"
  BY DEF Tracks, Phases, Reads
<1>3. Queues(w, row) /\ Buffers(hist, w)
  BY DEF Tracks
<1> QED BY <1>1, <1>2, <1>3 DEF Queues, Buffers, Buffered

(* A directory that is opened is recorded as running, and what was seen in  *)
(* it before is forgotten.                                                  *)
LEMMA OpenSound ==
    ASSUME SInv, NEW p \in Procs, NEW d \in Dirs, Open(p, d)
    PROVE  Sound'
<1> DEFINE w == walks[p]
           row == jobs[w.job]
           ident == Opened(w, d)
           q == [w.queue EXCEPT ![d] = [state |-> "running", ident |-> ident]]
           v == [w EXCEPT !.queue[d] = [state |-> "running", ident |-> ident],
                       !.dirs = @ \union {d}, !.pc = "reading", !.dir = d, !.left = TRUE,
                       !.stamp = Disk.stamp[d], !.status = "complete"]
           last == [v EXCEPT !.dirs = {}, !.entries = NoWalk.entries]
           pub == Published(v, {})
<1>1. Walker(p) /\ w.pc = "walk" /\ w.queue[d].state = "pending" /\ Reopens(w, d, w.queue[d].ident)
      /\ Flush(p, v, {}, v) /\ Stays
  BY DEF Open, Walker
<1>2. w \in Walks /\ w.queue \in Scopes /\ w.dirs \subseteq Dirs /\ w.root \in Times
      /\ Tracks(hist, rows, w, row) /\ w.job \in DOMAIN jobs
  BY <1>1, WalkFacts, WalkInts DEF Walks
<1>3. ident \in Times
  BY <1>2, DiskFacts DEF Opened, SInv
<1>4. q \in Scopes
  BY <1>2, <1>3 DEF Scopes, ScopeStates
<1>5. v = [w EXCEPT !.queue = q, !.dirs = w.dirs \union {d}, !.pc = "reading", !.dir = d, !.left = TRUE,
                    !.stamp = Disk.stamp[d], !.status = "complete"]
  BY <1>2 DEF Walks
<1>6. \A x \in Dirs : (x = d => q[x].state = "running" /\ q[x].ident = ident) /\ (x # d => q[x] = w.queue[x])
  BY <1>2 DEF Scopes
<1>7. /\ Past /\ Now \in 1 .. Now /\ Now = Len(hist) /\ Now \in Nat /\ hist[Now] = Disk
      /\ Disk.ident[d] \in Nat /\ Disk.stamp[d] \in Nat
  BY HistFacts DEF SInv, Sound, Disk
<1>8. Disk.stamp[d] \in 1 .. Now /\ (Disk.ident[d] # 0 => Disk.ident[d] \in 1 .. Now)
  <2>1. Remembers(Now, d)
    BY <1>7 DEF Past
  <2> QED BY <1>7, <2>1 DEF Remembers
<1>9. ident \in 1 .. Now
  <2>1. w.root \in 1 .. w.from /\ w.from \in 1 .. Now
    BY <1>2, <1>7 DEF Tracks
  <2> HIDE DEF v, q, last, pub
  <2>2. CASE d = Root
    BY <1>7, <2>1, <2>2 DEF Opened
  <2>3. CASE d # Root
    BY <1>1, <1>8, <2>3 DEF Opened, Reopens
  <2> QED BY <2>2, <2>3
<1> HIDE DEF q, v, ident, last
<1>10. v \in Walks
  BY <1>2, <1>4, <1>5, DiskFacts DEF Walks, SInv
<1>11. /\ v.job = w.job /\ v.req = w.req /\ v.from = w.from /\ v.root = w.root /\ v.pc = "reading"
       /\ v.queue = q /\ v.dirs = w.dirs \union {d} /\ v.entries = w.entries /\ v.left = TRUE
       /\ v.verified = w.verified /\ v.dir = d /\ v.stamp = Disk.stamp[d] /\ v.status = "complete"
       /\ v.token = w.token
  BY <1>2, <1>5 DEF Walks
<1>12. \A f \in Files : w.entries[f] = 0
  BY <1>1, <1>2 DEF Tracks, Buffers, Reads
<1>13. Buffered(v, row)
  <2>1. Queues(w, row)
    BY <1>2 DEF Tracks
  <2> QED BY <1>6, <1>11, <1>12, <2>1 DEF Buffered, Queues
<1>14. Absent(pub, {}) = {}
  BY DEF Absent
<1>15. /\ \A x \in Dirs : (pub.scopes[x].state = "none") = (v.queue[x].state = "none")
       /\ \A f \in Files : f \in pub.seen <=>
             v.entries[f] # 0 \/ (f \in row.seen /\ ~ (In[f] \in v.dirs /\ v.queue[In[f]].state = "running"))
       /\ pub \in JobRows
  BY <1>2, <1>10, <1>11, <1>13, PublishedFacts DEF SInv
<1> HIDE DEF pub
<1>16. last \in Walks
  <2>1. NoWalk.entries \in [Files -> Times]
    BY IdleTyped DEF Walks
  <2> QED BY <1>10, <2>1 DEF last, Walks
<1>17. /\ last.job = w.job /\ last.req = w.req /\ last.from = w.from /\ last.root = w.root
       /\ last.pc = "reading" /\ last.queue = q /\ last.dirs = {} /\ last.left = TRUE
       /\ last.verified = w.verified /\ last.dir = d /\ last.stamp = Disk.stamp[d]
       /\ \A f \in Files : last.entries[f] = 0
  <2>1. last.entries = NoWalk.entries
    BY <1>10 DEF last, Walks
  <2>2. \A f \in Files : NoWalk.entries[f] = 0
    BY DEF NoWalk
  <2> QED BY <1>10, <1>11, <2>1, <2>2 DEF last, Walks
<1>18. Tracks(hist, rows', last, pub)
  <2>1. Queues(last, pub)
    BY <1>11, <1>15, <1>17 DEF Queues
  <2>2. Buffers(hist, last)
    BY <1>17 DEF Buffers
  <2>3. ~ w.verified
    BY <1>1, <1>2 DEF Tracks, Phases
  <2>4. Phases(last)
    BY <1>6, <1>17, <2>3 DEF Phases
  <2>5. \A f \in pub.seen : In[f] # d
    <3>1. \A f \in pub.seen : f \in Files
      BY <1>15, RowInts
    <3> QED BY <1>6, <1>11, <1>12, <1>15, <3>1
  <2>6. Covers(hist, rows', last, pub)
    BY <1>6, <1>7, <1>8, <1>9, <1>17, <2>5 DEF Covers
  <2>7. last.from \in 1 .. Len(hist) /\ last.root \in 1 .. last.from
    BY <1>2, <1>17 DEF Tracks
  <2> QED BY <2>1, <2>2, <2>4, <2>6, <2>7 DEF Tracks
<1>19. Fence(w)
  BY <1>1, <1>11 DEF Flush, Fence
<1> QED
  <2>1. \A f \in Absent(Published(v, {}), {}) : 0 \in Since(hist, f, v.from)
    BY <1>14 DEF pub
  <2>2. \A f \in Files : In[f] \in {} => rows'[f] \in Since(hist, f, v.from)
    OBVIOUS
  <2>3. Tracks(hist, rows', last, Published(v, {})) /\ last = [v EXCEPT !.dirs = {}, !.entries = NoWalk.entries]
    BY <1>18 DEF pub, last
  <2>4. {} \in SUBSET Dirs /\ v.pc # "idle"
    BY <1>11
  <2> QED BY <1>1, <1>10, <1>11, <1>13, <1>16, <1>19, <2>1, <2>2, <2>3, <2>4, FlushSound

(* A checkpoint inside a directory turns what is buffered into rows.        *)
LEMMA CheckpointSound ==
    ASSUME SInv, NEW p \in Procs, Checkpoint(p)
    PROVE  Sound'
<1> DEFINE w == walks[p]
           row == jobs[w.job]
           last == [w EXCEPT !.dirs = {}, !.entries = NoWalk.entries]
           pub == Published(w, {})
<1>1. Walker(p) /\ w.pc = "reading" /\ Flush(p, w, {}, w) /\ Stays
  BY DEF Checkpoint, Walker
<1>2. w \in Walks /\ Tracks(hist, rows, w, row) /\ w.job \in DOMAIN jobs /\ row \in JobRows
  BY <1>1, WalkFacts
<1>3. Buffered(w, row)
  BY <1>2, TracksBuffered
<1>4. Absent(pub, {}) = {}
  BY DEF Absent
<1>5. /\ \A x \in Dirs : (pub.scopes[x].state = "none") = (w.queue[x].state = "none")
      /\ \A f \in Files : f \in pub.seen <=>
            w.entries[f] # 0 \/ (f \in row.seen /\ ~ (In[f] \in w.dirs /\ w.queue[In[f]].state = "running"))
      /\ pub \in JobRows
  BY <1>2, <1>3, PublishedFacts DEF SInv
<1>r. /\ \A f \in Files : w.entries[f] # 0 => rows'[f] = w.entries[f]
      /\ \A f \in Files : w.entries[f] = 0 => rows'[f] = rows[f]
  <2>1. \A f \in Absent(Published(w, {}), {}) : 0 \in Since(hist, f, w.from)
    BY <1>4
  <2>2. /\ \A f \in Files : w.entries[f] # 0 => rows'[f] = w.entries[f]
        /\ \A f \in Files : w.entries[f] = 0 /\ f \notin Absent(Published(w, {}), {}) => rows'[f] = rows[f]
    <3> HIDE DEF w, row, last, pub
    <3> QED BY ONLY SInv, <1>1, <1>2, <1>3, <2>1, FlushRows DEF row
  <2> QED BY <1>4, <2>2
<1> HIDE DEF pub, last
<1>6. last \in Walks
  <2>1. NoWalk.entries \in [Files -> Times]
    BY IdleTyped DEF Walks
  <2> QED BY <1>2, <2>1 DEF last, Walks
<1>7. /\ last.job = w.job /\ last.req = w.req /\ last.from = w.from /\ last.root = w.root
      /\ last.pc = "reading" /\ last.queue = w.queue /\ last.dirs = {} /\ last.left = w.left
      /\ last.verified = w.verified /\ last.dir = w.dir /\ last.stamp = w.stamp /\ last.status = w.status
      /\ \A f \in Files : last.entries[f] = 0
  <2>1. last.entries = NoWalk.entries
    BY <1>2 DEF last, Walks
  <2>2. \A f \in Files : NoWalk.entries[f] = 0
    BY DEF NoWalk
  <2> QED BY <1>1, <1>2, <2>1, <2>2 DEF last, Walks
<1>8. \A f \in Files : f \in pub.seen <=> w.entries[f] # 0 \/ f \in row.seen
  <2>1. \A x \in Dirs : x \in w.dirs => w.queue[x].state # "running"
    BY <1>2 DEF Tracks, Queues
  <2> QED BY <1>5, <2>1, WalkInts, <1>2
<1>9. Tracks(hist, rows', last, pub)
  <2>1. Queues(last, pub)
    BY <1>5, <1>7 DEF Queues
  <2>2. Buffers(hist, last)
    BY <1>7 DEF Buffers
  <2>3. Phases(last) /\ ~ w.verified
    BY <1>1, <1>2, <1>7 DEF Tracks, Phases
  <2>4. \A f \in pub.seen : In[f] = w.dir => ~ w.left /\ rows'[f] # 0 /\ rows'[f] \in Since(hist, f, w.from)
    <3> SUFFICES ASSUME NEW f \in Files, f \in pub.seen, In[f] = w.dir
                 PROVE  ~ w.left /\ rows'[f] # 0 /\ rows'[f] \in Since(hist, f, w.from)
      BY <1>5, RowInts
    <3>1. CASE w.entries[f] # 0
      BY <1>2, <1>r, <3>1 DEF Tracks, Buffers
    <3>2. CASE w.entries[f] = 0
      <4>1. f \in row.seen
        BY <1>8, <3>2
      <4> QED BY <1>1, <1>2, <1>r, <3>2, <4>1 DEF Tracks, Covers, Reads
    <3> QED BY <3>1, <3>2
  <2>5. ASSUME NEW t, ReadAt(hist, w, row, t) PROVE ReadAt(hist, last, pub, t)
    <3>1. InPlaceAt(hist, last, t) = InPlaceAt(hist, w, t)
      BY <1>7 DEF InPlaceAt
    <3> QED BY <1>7, <1>8, <2>3, <2>5, <3>1 DEF ReadAt
  <2>6. Covers(hist, rows', last, pub)
    BY <1>1, <1>2, <1>7, <2>4, <2>5 DEF Covers, Tracks, Reads
  <2>7. last.from \in 1 .. Len(hist) /\ last.root \in 1 .. last.from
    BY <1>2, <1>7 DEF Tracks
  <2> QED BY <2>1, <2>2, <2>3, <2>6, <2>7 DEF Tracks
<1>10. Fence(w)
  BY <1>1 DEF Flush
<1> QED
  <2>1. \A f \in Absent(Published(w, {}), {}) : 0 \in Since(hist, f, w.from)
    BY <1>4 DEF pub
  <2>2. \A f \in Files : In[f] \in {} => rows'[f] \in Since(hist, f, w.from)
    OBVIOUS
  <2>3. Tracks(hist, rows', last, Published(w, {})) /\ last = [w EXCEPT !.dirs = {}, !.entries = NoWalk.entries]
    BY <1>9 DEF pub, last
  <2>4. {} \in SUBSET Dirs /\ w.pc # "idle"
    BY <1>1
  <2> QED BY <1>1, <1>2, <1>3, <1>6, <1>10, <2>1, <2>2, <2>3, <2>4, FlushSound

(* A directory that was read to its end, found unchanged and still in place *)
(* held, when it was listed, the files that are in its entries or seen.     *)
LEMMA VerifiedListing ==
    ASSUME SInv, NEW p \in Procs, walks[p].verified, walks[p].pc = "checked"
    PROVE  LET w == walks[p] IN
           \E t \in w.from .. Now :
              /\ t \in 1 .. Now /\ w.stamp \in 1 .. t
              /\ \A f \in Files : In[f] = w.dir =>
                    /\ (w.entries[f] # 0 \/ f \in jobs[w.job].seen) = (hist[t].ver[f] # 0)
                    /\ (hist[w.stamp].ver[f] = 0) = (hist[t].ver[f] = 0)
              /\ w.dir = Root => \A s \in Subs : w.queue[s].state = "none" => hist[t].ident[s] = 0
<1> DEFINE w == walks[p]
           row == jobs[w.job]
<1>1. /\ w \in Walks /\ Tracks(hist, rows, w, row) /\ w.dir \in Dirs /\ Root \in Dirs
      /\ w.from \in Nat /\ w.root \in Nat /\ w.stamp \in Nat /\ w.queue[w.dir].ident \in Nat
  BY WalkFacts, WalkInts DEF Walker, Dirs
<1>2. Now = Len(hist) /\ Now \in Nat /\ w.from \in 1 .. Now /\ w.root \in 1 .. w.from
      /\ w.queue[w.dir].ident \in 1 .. Now /\ w.stamp \in 1 .. Now /\ Past
  BY <1>1, HistFacts DEF SInv, Sound, Tracks, Covers, Reads
<1>3. w.status = "complete" /\ ~ w.left
  BY <1>1 DEF Tracks, Phases
<1>4. PICK t \in w.from .. Now : ReadAt(hist, w, row, t)
  BY <1>1, <1>2, <1>3 DEF Tracks, Covers, Reads
<1>5. PICK u \in t .. Now : hist[u].stamp[w.dir] = w.stamp /\ InPlaceAt(hist, w, u)
  BY <1>2, <1>4 DEF ReadAt
<1>6. t \in 1 .. Now /\ u \in 1 .. Now /\ w.stamp \in 1 .. t /\ w.stamp <= u /\ t <= u
      /\ w.root <= t /\ w.queue[w.dir].ident <= t
  BY <1>1, <1>2, <1>4, <1>5 DEF ReadAt
<1>7. InPlaceAt(hist, w, t)
  <2>1. hist[t].ident[Root] = w.root
    <3>1. Remembers(u, Root)
      BY <1>1, <1>2, <1>6 DEF Past
    <3>2. hist[u].ident[Root] = w.root /\ w.root # 0 /\ t \in w.root .. u
      BY <1>2, <1>5, <1>6 DEF InPlaceAt
    <3> QED BY <3>1, <3>2 DEF Remembers
  <2>2. hist[t].ident[w.dir] = w.queue[w.dir].ident
    <3>1. Remembers(u, w.dir)
      BY <1>1, <1>2, <1>6 DEF Past
    <3>2. hist[u].ident[w.dir] = w.queue[w.dir].ident /\ w.queue[w.dir].ident # 0
          /\ t \in w.queue[w.dir].ident .. u
      BY <1>2, <1>5, <1>6 DEF InPlaceAt
    <3> QED BY <3>1, <3>2 DEF Remembers
  <2> QED BY <2>1, <2>2 DEF InPlaceAt
<1>8. ASSUME NEW f \in Files, In[f] = w.dir
      PROVE  /\ (w.entries[f] # 0 \/ f \in row.seen) = (hist[t].ver[f] # 0)
             /\ (hist[w.stamp].ver[f] = 0) = (hist[t].ver[f] = 0)
  <2>1. (w.entries[f] # 0 \/ f \in row.seen) = (hist[t].ver[f] # 0)
    BY <1>4, <1>7, <1>8 DEF ReadAt
  <2>2. Remembers(u, w.dir) /\ hist[u].stamp[w.dir] = w.stamp
    BY <1>1, <1>2, <1>5, <1>6 DEF Past
  <2>3. w.stamp \in w.stamp .. u /\ t \in w.stamp .. u
    BY <1>1, <1>2, <1>6
  <2>4. (hist[w.stamp].ver[f] = 0) = (hist[u].ver[f] = 0) /\ (hist[t].ver[f] = 0) = (hist[u].ver[f] = 0)
    BY <1>8, <2>2, <2>3 DEF Remembers
  <2> QED BY <2>1, <2>4
<1>9. w.dir = Root => \A s \in Subs : w.queue[s].state = "none" => hist[t].ident[s] = 0
  BY <1>4, <1>7 DEF ReadAt
<1> QED BY <1>4, <1>6, <1>8, <1>9

Verified(w) == IF w.verified THEN {w.dir} ELSE {}

(* What a commit takes for absent was absent when the directory was listed. *)
LEMMA CommitAbsent ==
    ASSUME SInv, NEW p \in Procs, walks[p].pc = "checked"
    PROVE  LET w == walks[p]
               pub == Published(w, Verified(w))
           IN /\ Buffered(w, jobs[w.job])
              /\ \A f \in Files : In[f] = w.dir =>
                    (f \in pub.seen <=> w.entries[f] # 0 \/ f \in jobs[w.job].seen)
              /\ \A f \in Absent(pub, Verified(w)) : 0 \in Since(hist, f, w.from)
<1> DEFINE w == walks[p]
           row == jobs[w.job]
           pub == Published(w, Verified(w))
<1>1. /\ Walker(p) /\ w \in Walks /\ Tracks(hist, rows, w, row) /\ w.job \in DOMAIN jobs /\ w.dir \in Dirs
      /\ w.from \in Nat
  BY WalkFacts, WalkInts DEF Walker
<1>2. Buffered(w, row)
  BY <1>1, TracksBuffered
<1>3. /\ \A x \in Dirs : (pub.scopes[x].state = "none") = (w.queue[x].state = "none")
      /\ \A f \in Files : f \in pub.seen <=>
            w.entries[f] # 0 \/ (f \in row.seen /\ ~ (In[f] \in w.dirs /\ w.queue[In[f]].state = "running"))
  BY <1>1, <1>2, PublishedFacts DEF SInv
<1> HIDE DEF pub
<1>4. w.queue[w.dir].state \in {"complete", "failed", "deferred"}
  BY <1>1 DEF Tracks, Phases
<1>5. \A f \in Files : In[f] = w.dir => (f \in pub.seen <=> w.entries[f] # 0 \/ f \in row.seen)
  BY <1>3, <1>4
<1>6. ASSUME NEW f \in Absent(pub, Verified(w)) PROVE 0 \in Since(hist, f, w.from)
  <2>1. /\ f \in Files /\ f \notin pub.seen /\ w.verified
        /\ In[f] = w.dir \/ (w.dir = Root /\ pub.scopes[In[f]].state = "none")
    BY <1>6 DEF Absent, Verified
  <2>2. In[f] \in Dirs /\ (In[f] = Root \/ In[f] \in Subs) /\ Root \in Dirs
    BY <2>1, ScanAssumption DEF Dirs
  <2>3. PICK t \in w.from .. Now :
              /\ t \in 1 .. Now
              /\ \A g \in Files : In[g] = w.dir =>
                    (w.entries[g] # 0 \/ g \in row.seen) = (hist[t].ver[g] # 0)
              /\ w.dir = Root => \A s \in Subs : w.queue[s].state = "none" => hist[t].ident[s] = 0
    BY <2>1, VerifiedListing
  <2>4. hist[t].ver[f] = 0
    <3>1. CASE In[f] = w.dir
      BY <1>5, <2>1, <2>3, <3>1
    <3>2. CASE In[f] # w.dir
      <4>1. In[f] \in Subs /\ w.queue[In[f]].state = "none"
        BY <1>3, <2>1, <2>2, <3>2
      <4>2. hist[t].ident[In[f]] = 0
        BY <2>1, <2>3, <3>2, <4>1
      <4>3. Remembers(t, In[f])
        BY <2>2, <2>3 DEF SInv, Sound, Past
      <4> QED BY <2>1, <4>2, <4>3 DEF Remembers
    <3> QED BY <3>1, <3>2
  <2>5. Now = Len(hist) /\ t >= w.from
    BY <1>1, <2>3, HistFacts DEF SInv
  <2> QED BY <2>3, <2>4, <2>5 DEF Since
<1> QED BY <1>2, <1>5, <1>6 DEF pub

LEMMA CommitSound ==
    ASSUME SInv, NEW p \in Procs, Commit(p)
    PROVE  Sound'
<1> DEFINE w == walks[p]
           row == jobs[w.job]
           next == [w EXCEPT !.pc = "walk", !.dir = Root, !.stamp = 0,
                             !.status = "complete", !.verified = FALSE]
           last == [next EXCEPT !.dirs = {}, !.entries = NoWalk.entries]
           pub == Published(w, Verified(w))
<1>1. Walker(p) /\ w.pc = "checked" /\ Flush(p, w, Verified(w), next) /\ Stays
  BY DEF Commit, Walker, Verified
<1>2. w \in Walks /\ Tracks(hist, rows, w, row) /\ w.job \in DOMAIN jobs /\ w.dir \in Dirs
  BY <1>1, WalkFacts, WalkInts
<1>3. /\ Buffered(w, row)
      /\ \A f \in Files : In[f] = w.dir => (f \in pub.seen <=> w.entries[f] # 0 \/ f \in row.seen)
      /\ \A f \in Absent(pub, Verified(w)) : 0 \in Since(hist, f, w.from)
  BY <1>1, CommitAbsent
<1>4. /\ \A f \in Files : w.entries[f] # 0 => rows'[f] = w.entries[f]
      /\ \A f \in Absent(pub, Verified(w)) : rows'[f] = 0
      /\ \A f \in Files : w.entries[f] = 0 /\ f \notin Absent(pub, Verified(w)) => rows'[f] = rows[f]
  <2> HIDE DEF w, row, next, last
  <2> QED BY ONLY SInv, <1>1, <1>2, <1>3, FlushRows DEF row, pub
<1>5. \A x \in Dirs : (pub.scopes[x].state = "none") = (w.queue[x].state = "none")
  BY <1>2, <1>3, PublishedFacts DEF SInv
<1> HIDE DEF pub
<1>6. ASSUME NEW f \in Files, In[f] \in Verified(w) PROVE rows'[f] \in Since(hist, f, w.from)
  <2>1. In[f] = w.dir
    BY <1>6 DEF Verified
  <2>2. CASE w.entries[f] # 0
    BY <1>2, <1>4, <2>2 DEF Tracks, Buffers
  <2>3. CASE w.entries[f] = 0 /\ f \in pub.seen
    <3>1. f \in row.seen /\ f \notin Absent(pub, Verified(w))
      BY <1>3, <2>1, <2>3 DEF Absent
    <3> QED BY <1>1, <1>2, <1>4, <2>1, <2>3, <3>1 DEF Tracks, Covers, Reads
  <2>4. CASE f \notin pub.seen
    <3>1. f \in Absent(pub, Verified(w))
      BY <1>6, <2>4 DEF Absent
    <3> QED BY <1>3, <1>4, <3>1
  <2> QED BY <2>2, <2>3, <2>4
<1>7. next \in Walks
  BY <1>2, DiskFacts DEF Walks, SInv
<1>8. last \in Walks
  <2>1. NoWalk.entries \in [Files -> Times]
    BY IdleTyped DEF Walks
  <2> HIDE DEF next
  <2> QED BY <1>7, <2>1 DEF Walks
<1>9. /\ next.job = w.job /\ next.req = w.req /\ next.from = w.from /\ next.pc = "walk"
      /\ last.from = w.from /\ last.root = w.root /\ last.pc = "walk" /\ last.queue = w.queue
      /\ last.dirs = {} /\ last.left = w.left /\ last.verified = FALSE
      /\ \A f \in Files : last.entries[f] = 0
  <2>1. last.entries = NoWalk.entries
    BY <1>2 DEF Walks
  <2>2. \A f \in Files : NoWalk.entries[f] = 0
    BY DEF NoWalk
  <2> QED BY <1>2, <2>1, <2>2 DEF Walks
<1>10. last = [next EXCEPT !.dirs = {}, !.entries = NoWalk.entries]
  OBVIOUS
<1> HIDE DEF next, last
<1>11. Tracks(hist, rows', last, pub)
  <2>1. Queues(last, pub)
    BY <1>5, <1>9 DEF Queues
  <2>2. Buffers(hist, last) /\ Covers(hist, rows', last, pub)
    BY <1>9 DEF Buffers, Covers, Reads
  <2>3. Phases(last)
    BY <1>1, <1>2, <1>9 DEF Tracks, Phases
  <2>4. last.from \in 1 .. Len(hist) /\ last.root \in 1 .. last.from
    BY <1>2, <1>9 DEF Tracks
  <2> QED BY <2>1, <2>2, <2>3, <2>4 DEF Tracks
<1>12. Fence(w) /\ Verified(w) \in SUBSET Dirs
  BY <1>1, <1>2 DEF Flush, Verified
<1>13. \A f \in Absent(Published(w, Verified(w)), Verified(w)) : 0 \in Since(hist, f, w.from)
  BY <1>3 DEF pub
<1>14. Tracks(hist, rows', last, Published(w, Verified(w)))
  BY <1>11 DEF pub
<1> QED BY <1>1, <1>2, <1>3, <1>6, <1>7, <1>8, <1>9, <1>10, <1>12, <1>13, <1>14, FlushSound

(* What a batch changes on record was held by the disk since the claim.     *)
LEMMA BatchHeld ==
    ASSUME SInv, NEW p \in Procs, \/ \E d \in Dirs : Open(p, d)
                                  \/ Checkpoint(p) \/ Commit(p)
    PROVE  \A f \in Files : rows'[f] = rows[f] \/ rows'[f] \in Since(hist, f, walks[p].from)
<1> DEFINE w == walks[p]
<1>1. ASSUME NEW v \in Walks, NEW verified, NEW next, Flush(p, v, verified, next), Walker(p),
             v.job = w.job, v.from = w.from, Buffered(v, jobs[v.job]),
             \A f \in Absent(Published(v, verified), verified) : 0 \in Since(hist, f, v.from)
      PROVE  \A f \in Files : rows'[f] = rows[f] \/ rows'[f] \in Since(hist, f, w.from)
  <2>1. v.job \in DOMAIN jobs
    BY <1>1, WalkFacts
  <2>2. \A f \in Files : rows'[f] = rows[f] \/ rows'[f] \in Since(hist, f, v.from)
    <3> HIDE DEF w
    <3> QED BY ONLY SInv, <1>1, <2>1, FlushRows
  <2> QED BY <1>1, <2>2
<1>2. \A row : Absent(row, {}) = {}
  BY DEF Absent
<1>3. CASE Checkpoint(p)
  <2>1. Walker(p) /\ Flush(p, w, {}, w) /\ w \in Walks /\ Buffered(w, jobs[w.job])
    BY <1>3, WalkFacts, TracksBuffered DEF Checkpoint, Walker
  <2>2. \A f \in Absent(Published(w, {}), {}) : 0 \in Since(hist, f, w.from)
    BY <1>2
  <2> QED BY <1>1, <2>1, <2>2
<1>4. CASE Commit(p)
  <2> DEFINE next == [w EXCEPT !.pc = "walk", !.dir = Root, !.stamp = 0,
                             !.status = "complete", !.verified = FALSE]
  <2>1. Walker(p) /\ w.pc = "checked" /\ Flush(p, w, Verified(w), next) /\ w \in Walks
    BY <1>4, WalkFacts DEF Commit, Walker, Verified
  <2> HIDE DEF next
  <2>2. /\ Buffered(w, jobs[w.job])
        /\ \A f \in Absent(Published(w, Verified(w)), Verified(w)) : 0 \in Since(hist, f, w.from)
    BY <2>1, CommitAbsent
  <2> QED BY <1>1, <2>1, <2>2
<1>5. ASSUME NEW d \in Dirs, Open(p, d)
      PROVE  \A f \in Files : rows'[f] = rows[f]
  <2> DEFINE v == [w EXCEPT !.queue[d] = [state |-> "running", ident |-> Opened(w, d)],
                       !.dirs = @ \union {d}, !.pc = "reading", !.dir = d, !.left = TRUE,
                       !.stamp = Disk.stamp[d], !.status = "complete"]
  <2>1. Walker(p) /\ w.pc = "walk" /\ Flush(p, v, {}, v)
    BY <1>5 DEF Open, Walker
  <2>2. w \in Walks /\ \A f \in Files : w.entries[f] = 0
    BY <2>1, WalkFacts DEF Tracks, Buffers, Reads
  <2>3. v.entries = w.entries
    BY <2>2 DEF Walks
  <2> HIDE DEF v
  <2> QED BY <1>2, <2>1, <2>2, <2>3 DEF Flush
<1> QED BY <1>3, <1>4, <1>5

-----------------------------------------------------------------------------
(* Answers.  A caller is told that a job is complete only when what is on   *)
(* record is as fresh as it asked for, and as the last dirty event.         *)
LEMMA ToldWaits ==
    ASSUME NEW H, Len(H) \in Nat, NEW R, NEW J, NEW g, NEW a \in Nat, NEW j \in DOMAIN J, J[j] \in JobRows,
           NEW r \in Requests, r.job = j, Waits(H, R, J, a, j, r), Descends(J, j), Shaped(H, g, a, J[j]),
           Vouches(H, R, J[j]), J[j].state = "complete" => J[j].dirty >= g, a <= Len(H),
           \A k \in DOMAIN J : J[k].at \in Nat,
           NEW told, told = IF J[j].state = "complete"
                            THEN [r EXCEPT !.answer = "complete", !.at = IF a > @ THEN a ELSE @]
                            ELSE IF J[j].deferred THEN [r EXCEPT !.answer = "deferred"] ELSE r
    PROVE  Waits(H, R, J, a, j, told)
<1> DEFINE row == J[j]
<1>1. r.at \in Nat /\ row.at \in Nat
  BY RequestInts, RowInts
<1>2. CASE row.state = "complete"
  <2>1. /\ told.at = (IF a > r.at THEN a ELSE r.at) /\ told.answer = "complete" /\ told.parent = r.parent
        /\ told.reuse = r.reuse /\ told.before = r.before
    BY <1>2 DEF Requests
  <2>2. told.at <= Len(H) /\ told.at \in Nat /\ row.started /\ a <= row.at
    BY <1>1, <1>2, <2>1 DEF Waits, Shaped
  <2>3. r.at <= a \/ r.at <= row.at
    BY <1>1, <1>2, <2>2 DEF Waits, Dated, Descends
  <2>4. told.at <= row.at
    BY <1>1, <2>1, <2>2, <2>3
  <2>5. Dated(J, a, j, told)
    <3>1. CASE r.at <= a
      BY <1>1, <2>1, <3>1 DEF Dated
    <3>2. CASE ~ r.at <= a
      <4>1. told.at = r.at
        BY <1>1, <2>1, <3>2
      <4> QED BY <2>1, <3>2, <4>1 DEF Waits, Dated
    <3> QED BY <3>1, <3>2
  <2>6. Backed(J, a, told.at)
    BY <2>2, <2>4 DEF Backed
  <2>7. ASSUME NEW f \in Files PROVE R[f] \in Since(H, f, told.at)
    <3>1. In[f] \in Dirs
      BY ScanAssumption DEF Dirs
    <3>2. SpeaksFor(row, f)
      <4>1. row.scopes[Root].state # "none" /\ \A d \in Dirs : row.scopes[d].state \in {"none", "complete"}
        BY <1>2 DEF Shaped
      <4> QED BY <3>1, <4>1 DEF SpeaksFor, Dirs
    <3>3. R[f] \in Since(H, f, row.at)
      BY <3>2 DEF Vouches
    <3>4. Since(H, f, row.at) \subseteq Since(H, f, told.at)
      BY <1>1, <2>2, <2>4, SinceLater
    <3> QED BY <3>3, <3>4
  <2> QED BY <2>1, <2>2, <2>5, <2>6, <2>7 DEF Waits
<1>3. CASE row.state # "complete"
  <2>1. /\ told.at = r.at /\ told.parent = r.parent /\ told.reuse = r.reuse /\ told.before = r.before
        /\ told.answer = "complete" => r.answer = "complete"
    BY <1>3 DEF Requests
  <2> QED BY <2>1 DEF Waits, Dated
<1> QED BY <1>2, <1>3

-----------------------------------------------------------------------------
(* The end of a walk.                                                       *)
LEMMA EndSound ==
    ASSUME SInv, NEW p \in Procs, Walker(p), NEW row \in JobRows,
           UNCHANGED <<hist, rows, dirty, dirtyAt>>, walks' = [walks EXCEPT ![p] = NoWalk],
           jobs' = [jobs EXCEPT ![walks[p].job] = row],
           row.started = jobs[walks[p].job].started, row.at = jobs[walks[p].job].at,
           row.dirty = jobs[walks[p].job].dirty, row.parent = jobs[walks[p].job].parent,
           row.state # "queued",
           Shaped(hist, dirty, dirtyAt, row), Vouches(hist, rows, row),
           \/ requests' = requests
           \/ /\ Fence(walks[p])
              /\ requests' = [requests EXCEPT ![walks[p].req] = IF @.active THEN Told(@, row) ELSE @]
    PROVE  Sound'
<1> DEFINE w == walks[p]
<1>1. /\ w.job \in DOMAIN jobs /\ jobs[w.job] \in JobRows /\ jobs[w.job].state = "running"
      /\ jobs \in Seq(JobRows) /\ Tied(jobs, requests, dirty, dirtyAt, w) /\ walks \in [Procs -> Walks]
      /\ w.req \in DOMAIN requests
  BY WalkFacts
<1>2. DOMAIN jobs' = DOMAIN jobs /\ \A j \in DOMAIN jobs : jobs'[j] = IF j = w.job THEN row ELSE jobs[j]
  BY <1>1
<1>3. \A j \in DOMAIN jobs : /\ Shaped(hist, dirty, dirtyAt, jobs[j]) /\ Vouches(hist, rows, jobs[j])
                             /\ Descends(jobs, j) /\ jobs[j] \in JobRows /\ jobs[j].at \in Nat
                             /\ jobs[j].started \in BOOLEAN /\ jobs[j].dirty <= dirty
                             /\ jobs[j].at <= Len(hist)
  BY <1>1, JobsInt, RowInts DEF SInv, Sound, JobsSound, Shaped
<1>4. Advances(jobs, jobs', Len(hist))
  BY <1>1, <1>2, <1>3, RowInts DEF Advances
<1>5. \A j \in DOMAIN jobs : /\ Shaped(hist, dirty, dirtyAt, jobs'[j]) /\ Vouches(hist, rows, jobs'[j])
                             /\ jobs'[j].dirty <= dirty
  BY <1>1, <1>2, <1>3
<1>6. \A j \in DOMAIN jobs : Descends(jobs', j)
  BY <1>3, <1>4, DescendsAdvance, HistFacts DEF SInv
<1>7. JobsSound'
  BY <1>2, <1>5, <1>6 DEF JobsSound
<1>8. WalksSound'
  <2>1. \A q \in Procs : walks'[q] = NoWalk
    <3>1. \A q \in Procs : q # p => walks[q] = NoWalk
      BY DEF SInv, TInv, Alone, Engaged
    <3> QED BY <1>1, <3>1
  <2> QED BY <2>1, IdleWalk DEF WalksSound, Walker
<1>9. \A n \in DOMAIN requests : /\ requests[n] \in Requests /\ requests[n].job \in DOMAIN jobs
                                 /\ Waits(hist, rows, jobs', dirtyAt, requests[n].job, requests[n])
  <2> SUFFICES ASSUME NEW n \in DOMAIN requests
               PROVE  /\ requests[n] \in Requests /\ requests[n].job \in DOMAIN jobs
                      /\ Waits(hist, rows, jobs', dirtyAt, requests[n].job, requests[n])
    OBVIOUS
  <2>1. requests[n] \in Requests /\ requests[n].job \in DOMAIN jobs
        /\ Waits(hist, rows, jobs, dirtyAt, requests[n].job, requests[n])
    BY RequestFacts DEF SInv, Sound, RequestsSound, TInv, RequestsKnown
  <2> QED BY <1>3, <1>4, <2>1, WaitsAdvance
<1>10. RequestsSound'
  <2>1. CASE requests' = requests
    BY <1>9, <2>1 DEF RequestsSound
  <2>2. CASE /\ Fence(w)
             /\ requests' = [requests EXCEPT ![w.req] = IF @.active THEN Told(@, row) ELSE @]
    <3> DEFINE r == requests[w.req]
               next == IF r.active THEN Told(r, row) ELSE r
    <3>1. /\ DOMAIN requests' = DOMAIN requests
          /\ \A n \in DOMAIN requests : requests'[n] = IF n = w.req THEN next ELSE requests[n]
      BY <1>1, <2>2
    <3>2. r.job = w.job
      <4>1. jobs[w.job].dirty >= dirty
        BY <1>1, <1>3, <2>2, HistFacts, RowInts DEF Fence, SInv
      <4> QED BY <1>1, <4>1 DEF Tied
    <3>3. r \in Requests /\ Waits(hist, rows, jobs', dirtyAt, w.job, r)
      BY <1>1, <1>9, <3>2
    <3>4. Waits(hist, rows, jobs', dirtyAt, w.job, Told(r, row))
      <4>1. row.dirty >= dirty
        BY <1>1, <2>2, HistFacts, RowInts DEF Fence, SInv
      <4>2. Len(hist) \in Nat /\ dirtyAt \in Nat /\ dirtyAt <= Len(hist)
        BY HistFacts DEF SInv
      <4>3. w.job \in DOMAIN jobs' /\ jobs'[w.job] = row
        BY <1>1, <1>2
      <4>4. Told(r, row) = IF row.state = "complete"
                           THEN [r EXCEPT !.answer = "complete", !.at = IF dirtyAt > @ THEN dirtyAt ELSE @]
                           ELSE IF row.deferred THEN [r EXCEPT !.answer = "deferred"] ELSE r
        BY DEF Told
      <4>5. \A k \in DOMAIN jobs' : jobs'[k].at \in Nat
        BY <1>2, <1>3, RowInts
      <4>6. Descends(jobs', w.job) /\ Shaped(hist, dirty, dirtyAt, jobs'[w.job]) /\ Vouches(hist, rows, jobs'[w.job])
        BY <1>1, <1>5, <1>6
      <4> QED BY ONLY <3>2, <3>3, <4>1, <4>2, <4>3, <4>4, <4>5, <4>6, row \in JobRows, ToldWaits
    <3>5. next.job = r.job
      BY <3>3 DEF Told, Requests
    <3>6. Waits(hist, rows, jobs', dirtyAt, next.job, next)
      BY <3>2, <3>3, <3>4, <3>5
    <3> HIDE DEF next, r
    <3>7. \A n \in DOMAIN requests : Waits(hist, rows, jobs', dirtyAt, requests'[n].job, requests'[n])
      BY <1>9, <3>1, <3>6
    <3> QED BY <3>1, <3>7 DEF RequestsSound
  <2> QED BY <2>1, <2>2
<1>11. Past'
  BY DEF SInv, Sound, Past, Remembers, Now
<1> QED BY <1>7, <1>8, <1>10, <1>11 DEF Sound

LEMMA FinishSound ==
    ASSUME SInv, NEW p \in Procs, Finish(p)
    PROVE  Sound'
<1> DEFINE w == walks[p]
           old == jobs[w.job]
           pub == Published(w, {})
           row == Finished(pub, FALSE, FALSE)
<1>1. Walker(p) /\ Fence(w) /\ Ends(p, row)
  BY DEF Finish, Walker
<1>2. /\ w \in Walks /\ w.job \in DOMAIN jobs /\ old \in JobRows /\ Buffered(w, old)
      /\ Shaped(hist, dirty, dirtyAt, old) /\ Vouches(hist, rows, old) /\ old.state = "running"
  BY <1>1, WalkFacts, TracksBuffered DEF SInv, Sound, JobsSound
<1>3. /\ pub \in JobRows /\ pub.started = old.started /\ pub.at = old.at
      /\ pub.dirty = old.dirty /\ pub.parent = old.parent
      /\ \A d \in Dirs : pub.scopes[d].state = "none" => old.scopes[d].state = "none"
      /\ \A d \in Dirs : pub.scopes[d].state = "complete" => old.scopes[d].state = "complete"
      /\ \A f \in pub.seen : pub.scopes[In[f]].state # "none"
  BY <1>2, PublishedFacts DEF SInv
<1> HIDE DEF pub
<1>4. row \in JobRows
  BY <1>3, FinishedTyped
<1>5. /\ row.started = old.started /\ row.at = old.at /\ row.dirty = old.dirty /\ row.parent = old.parent
      /\ row.scopes = pub.scopes /\ row.seen = pub.seen
      /\ row.state \in {"complete", "failed"}
      /\ row.state = "complete" => \A d \in Dirs : pub.scopes[d].state \in {"none", "complete"}
  BY <1>3 DEF Finished, JobRows
<1> HIDE DEF row
<1>6. Shaped(hist, dirty, dirtyAt, row)
  BY <1>2, <1>3, <1>5, ScanAssumption DEF Shaped, Dirs
<1>7. Vouches(hist, rows, row)
  <2>1. \A f \in Files : In[f] \in Dirs /\ Root \in Dirs
    BY ScanAssumption DEF Dirs
  <2>2. \A f \in Files : SpeaksFor(row, f) => SpeaksFor(old, f)
    BY <1>3, <1>5, <2>1 DEF SpeaksFor
  <2> QED BY <1>2, <1>5, <2>2 DEF Vouches
<1>8. /\ UNCHANGED <<hist, rows, dirty, dirtyAt>> /\ walks' = [walks EXCEPT ![p] = NoWalk]
      /\ jobs' = [jobs EXCEPT ![w.job] = row]
      /\ requests' = [requests EXCEPT ![w.req] = IF @.active THEN Told(@, row) ELSE @]
  BY <1>1 DEF Ends
<1> QED BY <1>1, <1>4, <1>5, <1>6, <1>7, <1>8, EndSound

LEMMA AbortSound ==
    ASSUME SInv, NEW p \in Procs, NEW over \in BOOLEAN, Abort(p, over)
    PROVE  Sound'
<1> DEFINE w == walks[p]
           old == jobs[w.job]
           row == Finished(old, TRUE, over)
<1>1. Walker(p) /\ Fence(w) /\ Ends(p, row)
  BY DEF Abort, Walker
<1>2. /\ old \in JobRows /\ w.job \in DOMAIN jobs /\ old.state = "running"
      /\ Shaped(hist, dirty, dirtyAt, old) /\ Vouches(hist, rows, old)
  BY <1>1, WalkFacts DEF SInv, Sound, JobsSound
<1>3. row \in JobRows
  BY <1>2, FinishedTyped
<1>4. /\ row.started = old.started /\ row.at = old.at /\ row.dirty = old.dirty /\ row.parent = old.parent
      /\ row.scopes = old.scopes /\ row.seen = old.seen /\ row.state = "failed"
  BY <1>2 DEF Finished, JobRows
<1> HIDE DEF row
<1>5. Shaped(hist, dirty, dirtyAt, row) /\ Vouches(hist, rows, row)
  BY <1>2, <1>4 DEF Shaped, Vouches, SpeaksFor
<1>6. /\ UNCHANGED <<hist, rows, dirty, dirtyAt>> /\ walks' = [walks EXCEPT ![p] = NoWalk]
      /\ jobs' = [jobs EXCEPT ![w.job] = row]
      /\ requests' = [requests EXCEPT ![w.req] = IF @.active THEN Told(@, row) ELSE @]
  BY <1>1 DEF Ends
<1> QED BY <1>1, <1>3, <1>4, <1>5, <1>6, EndSound

LEMMA FencedSound ==
    ASSUME SInv, NEW p \in Procs, Fenced(p) \/ Crash(p)
    PROVE  Sound'
<1> DEFINE w == walks[p]
           old == jobs[w.job]
           row == [old EXCEPT !.state = "failed", !.lease = FALSE, !.deferred = FALSE, !.resume = TRUE]
<1>1. Walker(p)
  BY DEF Fenced, Crash, Walker, SInv, TInv, Engaged
<1>2. /\ old \in JobRows /\ w.job \in DOMAIN jobs /\ old.state = "running" /\ jobs \in Seq(JobRows)
      /\ Shaped(hist, dirty, dirtyAt, old) /\ Vouches(hist, rows, old)
  BY <1>1, WalkFacts DEF SInv, Sound, JobsSound
<1>3. /\ row \in JobRows
      /\ row.started = old.started /\ row.at = old.at /\ row.dirty = old.dirty /\ row.parent = old.parent
      /\ row.scopes = old.scopes /\ row.seen = old.seen /\ row.state = "failed"
  BY <1>2 DEF JobRows
<1> HIDE DEF row
<1>4. Shaped(hist, dirty, dirtyAt, row) /\ Vouches(hist, rows, row)
  BY <1>2, <1>3 DEF Shaped, Vouches, SpeaksFor
<1>5. /\ UNCHANGED <<hist, rows, dirty, dirtyAt, requests>> /\ walks' = [walks EXCEPT ![p] = NoWalk]
      /\ jobs' = [jobs EXCEPT ![w.job] = row] \/ jobs' = jobs
  BY DEF Fenced, Crash, row
<1>6. CASE jobs' = [jobs EXCEPT ![w.job] = row]
  BY <1>1, <1>3, <1>4, <1>5, <1>6, EndSound
<1>7. CASE jobs' = jobs
  <2>1. jobs' = [jobs EXCEPT ![w.job] = old]
    BY <1>2, <1>7
  <2> QED BY <1>1, <1>2, <1>5, <2>1, EndSound
<1> QED BY <1>5, <1>6, <1>7

-----------------------------------------------------------------------------
(* Events around the walks.                                                 *)

(* The disk changes, or a dirty event arrives: what was true at a time      *)
(* before is true still, and no evidence is newer than the event.           *)
LEMMA TimeSound ==
    ASSUME SInv, Past', Extends(hist, hist'), Clock',
           UNCHANGED <<rows, jobs, requests, walks>>,
           \/ UNCHANGED <<dirty, dirtyAt>>
           \/ dirty' = dirty + 1 /\ dirtyAt' = Now
    PROVE  Sound'
<1>1. /\ dirty \in Nat /\ dirtyAt \in Nat /\ dirtyAt' \in Nat /\ dirtyAt <= dirtyAt'
  BY HistFacts DEF SInv
<1>2. \A j \in DOMAIN jobs : /\ jobs[j] \in JobRows /\ jobs[j].dirty \in Nat /\ jobs[j].dirty <= dirty
                             /\ Shaped(hist, dirty, dirtyAt, jobs[j]) /\ Vouches(hist, rows, jobs[j])
                             /\ Descends(jobs, j)
  BY JobsInt DEF SInv, Sound, JobsSound
<1>3. JobsSound'
  <2> SUFFICES ASSUME NEW j \in DOMAIN jobs
               PROVE  /\ Shaped(hist', dirty', dirtyAt', jobs[j]) /\ Vouches(hist', rows, jobs[j])
                      /\ Descends(jobs, j) /\ jobs[j].dirty <= dirty'
    BY DEF JobsSound
  <2>1. Shaped(hist, dirty', dirtyAt', jobs[j])
    BY <1>1, <1>2 DEF Shaped
  <2> QED BY <1>1, <1>2, <2>1, ShapedLater, VouchesLater
<1>4. WalksSound'
  <2> SUFFICES ASSUME NEW p \in Procs, Walker(p)
               PROVE  /\ Tracks(hist', rows, walks[p], jobs[walks[p].job])
                      /\ Tied(jobs, requests, dirty', dirtyAt', walks[p])
    BY DEF WalksSound, Walker
  <2>1. /\ walks[p] \in Walks /\ Tracks(hist, rows, walks[p], jobs[walks[p].job])
        /\ Tied(jobs, requests, dirty, dirtyAt, walks[p]) /\ walks[p].job \in DOMAIN jobs
    BY WalkFacts
  <2>2. Tied(jobs, requests, dirty', dirtyAt', walks[p])
    BY <1>1, <1>2, <2>1 DEF Tied
  <2> QED BY <2>1, <2>2, TracksLater
<1>5. RequestsSound'
  <2> SUFFICES ASSUME NEW n \in DOMAIN requests
               PROVE  Waits(hist', rows, jobs, dirtyAt', requests[n].job, requests[n])
    BY DEF RequestsSound
  <2>1. requests[n] \in Requests /\ Waits(hist, rows, jobs, dirtyAt, requests[n].job, requests[n])
    BY RequestFacts DEF SInv, TInv, Sound, RequestsSound
  <2> QED BY <1>1, <2>1, WaitsLater
<1> QED BY <1>3, <1>4, <1>5 DEF Sound

LEMMA WorldSound ==
    ASSUME SInv, World
    PROVE  Sound'
<1>1. Past' /\ Clock'
  BY WorldPast, WorldSafe DEF SInv, Sound, TInv, Typed
<1>2. ASSUME NEW disk, Edit(disk) PROVE Sound'
  <2>1. Extends(hist, hist')
    <3>1. /\ Now' = Now + 1 /\ \A i \in 1 .. Now : hist'[i] = hist[i]
          /\ Now \in Nat
      BY <1>2, EditHist, HistFacts DEF SInv
    <3> QED BY <3>1 DEF Extends, Now
  <2> QED BY <1>1, <1>2, <2>1, TimeSound DEF Edit
<1>3. CASE Dirty
  <2>1. Extends(hist, hist')
    BY <1>3, HistFacts DEF Dirty, Extends, SInv
  <2> QED BY <1>1, <1>3, <2>1, TimeSound DEF Dirty
<1> QED BY <1>2, <1>3 DEF World, Write, Remove, MakeDir, RemoveDir

LEMMA CancelSound ==
    ASSUME SInv, NEW n \in DOMAIN requests, Cancel(n)
    PROVE  Sound'
<1>1. requests' = [requests EXCEPT ![n].active = FALSE] /\ UNCHANGED <<hist, rows, dirty, dirtyAt, jobs, walks>>
  BY DEF Cancel
<1>2. DOMAIN requests' = DOMAIN requests /\ \A k \in DOMAIN requests : requests[k] \in Requests
  BY <1>1, RequestFacts DEF SInv, TInv
<1>3. \A k \in DOMAIN requests :
         /\ requests'[k].job = requests[k].job /\ requests'[k].at = requests[k].at
         /\ requests'[k].parent = requests[k].parent /\ requests'[k].reuse = requests[k].reuse
         /\ requests'[k].before = requests[k].before /\ requests'[k].answer = requests[k].answer
  BY <1>1, <1>2 DEF Requests
<1>4. RequestsSound'
  BY <1>1, <1>2, <1>3 DEF SInv, Sound, RequestsSound, Waits, Dated
<1>5. WalksSound'
  <2> SUFFICES ASSUME NEW p \in Procs, Walker(p)
               PROVE  /\ Tracks(hist, rows, walks[p], jobs[walks[p].job])
                      /\ Tied(jobs, requests', dirty, dirtyAt, walks[p])
    BY <1>1 DEF WalksSound, Walker
  <2> QED BY <1>3, WalkFacts DEF Tied
<1>6. Past' /\ JobsSound'
  BY <1>1 DEF SInv, Sound, Past, Remembers, Now, JobsSound
<1> QED BY <1>4, <1>5, <1>6 DEF Sound

LEMMA LapseSound ==
    ASSUME SInv, NEW j \in DOMAIN jobs, Lapse(j)
    PROVE  Sound'
<1>1. jobs' = [jobs EXCEPT ![j].lease = FALSE] /\ UNCHANGED <<hist, rows, dirty, dirtyAt, requests, walks>>
  BY DEF Lapse
<1>2. DOMAIN jobs' = DOMAIN jobs /\ \A k \in DOMAIN jobs : jobs[k] \in JobRows
  BY <1>1, JobsInt DEF SInv
<1>3. \A k \in DOMAIN jobs :
         /\ jobs'[k].state = jobs[k].state /\ jobs'[k].dirty = jobs[k].dirty /\ jobs'[k].parent = jobs[k].parent
         /\ jobs'[k].started = jobs[k].started /\ jobs'[k].at = jobs[k].at /\ jobs'[k].scopes = jobs[k].scopes
         /\ jobs'[k].seen = jobs[k].seen /\ jobs'[k].deferred = jobs[k].deferred
  BY <1>1, <1>2 DEF JobRows
<1>4. JobsSound'
  BY <1>1, <1>2, <1>3 DEF SInv, Sound, JobsSound, Shaped, Vouches, SpeaksFor, Descends
<1>5. WalksSound'
  <2> SUFFICES ASSUME NEW p \in Procs, Walker(p)
               PROVE  /\ Tracks(hist, rows, walks[p], jobs'[walks[p].job])
                      /\ Tied(jobs', requests, dirty, dirtyAt, walks[p])
    BY <1>1 DEF WalksSound, Walker
  <2> DEFINE w == walks[p]
             old == jobs[w.job]
             new == jobs'[w.job]
  <2>1. w.job \in DOMAIN jobs /\ Tracks(hist, rows, w, old) /\ Tied(jobs, requests, dirty, dirtyAt, w)
    BY WalkFacts
  <2>2. new.scopes = old.scopes /\ new.seen = old.seen
    BY <1>3, <2>1
  <2>3. Tied(jobs', requests, dirty, dirtyAt, w)
    BY <1>2, <1>3, <2>1 DEF Tied
  <2> HIDE DEF w, old, new
  <2>4. Tracks(hist, rows, w, new)
    BY <2>1, <2>2 DEF Tracks, Queues, Covers, ReadAt
  <2> QED BY <2>3, <2>4 DEF w, new
<1>6. RequestsSound'
  <2> SUFFICES ASSUME NEW n \in DOMAIN requests
               PROVE  Waits(hist, rows, jobs', dirtyAt, requests[n].job, requests[n])
    BY <1>1 DEF RequestsSound
  <2>1. /\ requests[n] \in Requests /\ requests[n].job \in DOMAIN jobs
        /\ Waits(hist, rows, jobs, dirtyAt, requests[n].job, requests[n]) /\ Descends(jobs, requests[n].job)
    BY RequestFacts DEF SInv, TInv, Sound, RequestsSound, RequestsKnown, JobsSound
  <2>2. Advances(jobs, jobs', Len(hist))
    BY <1>2, <1>3, RowInts DEF Advances
  <2> QED BY <2>1, <2>2, WaitsAdvance
<1>7. Past'
  BY <1>1 DEF SInv, Sound, Past, Remembers, Now
<1> QED BY <1>4, <1>5, <1>6, <1>7 DEF Sound

-----------------------------------------------------------------------------
(* Admission.  What holds of the jobs before a demand is served holds of    *)
(* them with the abandoned ones recovered and with one more queued, and it  *)
(* holds of the job that is claimed.                                        *)
Accounts(J) ==
    /\ J \in Seq(JobRows)
    /\ \A k \in DOMAIN J : /\ Shaped(hist, dirty, dirtyAt, J[k]) /\ Vouches(hist, rows, J[k])
                           /\ Descends(J, k) /\ J[k].dirty <= dirty
    /\ \A n \in DOMAIN requests : /\ requests[n].job \in DOMAIN J
                                  /\ Waits(hist, rows, J, dirtyAt, requests[n].job, requests[n])
    /\ \A q \in Procs : Walker(q) => \A k \in DOMAIN J : J[k].at <= walks[q].from

LEMMA AccountsAdvance ==
    ASSUME TInv, NEW J, NEW K, Accounts(J), Advances(J, K, Len(hist)), K \in Seq(JobRows),
           \A k \in DOMAIN K : /\ Shaped(hist, dirty, dirtyAt, K[k]) /\ Vouches(hist, rows, K[k])
                               /\ K[k].dirty <= dirty
                               /\ k \notin DOMAIN J => Descends(K, k),
           \A q \in Procs : Walker(q) => \A k \in DOMAIN K : K[k].at <= walks[q].from
    PROVE  Accounts(K)
<1>1. \A k \in DOMAIN J : J[k] \in JobRows /\ J[k].at \in Nat /\ J[k].at <= Len(hist)
  BY ElementOfSeq, LenProperties, RowInts DEF Accounts, Shaped
<1>2. Len(hist) \in Nat
  BY HistFacts
<1>3. \A k \in DOMAIN K : Descends(K, k)
  <2>1. \A k \in DOMAIN J : Descends(J, k)
    BY DEF Accounts
  <2> QED BY <1>1, <1>2, <2>1, DescendsAdvance
<1>4. ASSUME NEW n \in DOMAIN requests
      PROVE  /\ requests[n].job \in DOMAIN K
             /\ Waits(hist, rows, K, dirtyAt, requests[n].job, requests[n])
  <2>1. /\ requests[n] \in Requests /\ requests[n].job \in DOMAIN J /\ Descends(J, requests[n].job)
        /\ Waits(hist, rows, J, dirtyAt, requests[n].job, requests[n])
    BY RequestFacts DEF TInv, Accounts
  <2>2. requests[n].job \in DOMAIN K
    BY <2>1 DEF Advances
  <2> QED BY <2>1, <2>2, WaitsAdvance
<1> QED BY <1>3, <1>4 DEF Accounts

LEMMA SoundAccounts ==
    ASSUME SInv
    PROVE  Accounts(jobs)
<1>1. jobs \in Seq(JobRows)
  BY JobsInt DEF SInv
<1>2. \A q \in Procs : Walker(q) => \A k \in DOMAIN jobs : jobs[k].at <= walks[q].from
  BY DEF SInv, Sound, WalksSound, Tied
<1> QED BY <1>1, <1>2 DEF Accounts, SInv, Sound, JobsSound, RequestsSound, TInv, RequestsKnown

LEMMA RecoveredAccounts ==
    ASSUME SInv
    PROVE  Accounts(Recovered)
<1>1. /\ Recovered \in Seq(JobRows) /\ DOMAIN Recovered = DOMAIN jobs /\ Accounts(jobs)
      /\ \A k \in DOMAIN jobs : jobs[k] \in JobRows
  BY RecoveredTyped, SoundAccounts, JobsInt DEF SInv, TInv, Typed
<1>2. ASSUME NEW k \in DOMAIN jobs
      PROVE  /\ Recovered[k].parent = jobs[k].parent /\ Recovered[k].started = jobs[k].started
             /\ Recovered[k].at = jobs[k].at /\ Recovered[k].scopes = jobs[k].scopes
             /\ Recovered[k].seen = jobs[k].seen /\ Recovered[k].dirty = jobs[k].dirty
             /\ Recovered[k].deferred = jobs[k].deferred /\ jobs[k].started \in BOOLEAN
             /\ \/ Recovered[k].state = jobs[k].state
                \/ jobs[k].state = "running" /\ Recovered[k].state = "stale"
  BY <1>1, RowInts DEF Recovered, Abandoned, JobRows
<1>3. Advances(jobs, Recovered, Len(hist))
  BY <1>1, <1>2 DEF Advances
<1>4. \A k \in DOMAIN jobs : /\ Shaped(hist, dirty, dirtyAt, Recovered[k])
                             /\ Vouches(hist, rows, Recovered[k]) /\ Recovered[k].dirty <= dirty
  <2> SUFFICES ASSUME NEW k \in DOMAIN jobs
               PROVE  /\ Shaped(hist, dirty, dirtyAt, Recovered[k])
                      /\ Vouches(hist, rows, Recovered[k]) /\ Recovered[k].dirty <= dirty
    OBVIOUS
  <2>1. Shaped(hist, dirty, dirtyAt, jobs[k]) /\ Vouches(hist, rows, jobs[k]) /\ jobs[k].dirty <= dirty
    BY <1>1 DEF Accounts
  <2>2. Shaped(hist, dirty, dirtyAt, Recovered[k])
    BY <1>2, <2>1 DEF Shaped
  <2>3. Vouches(hist, rows, Recovered[k])
    BY <1>2, <2>1 DEF Vouches, SpeaksFor
  <2> QED BY <1>2, <2>1, <2>2, <2>3
<1>5. \A q \in Procs : Walker(q) => \A k \in DOMAIN Recovered : Recovered[k].at <= walks[q].from
  BY <1>1, <1>2 DEF Accounts
<1> QED BY <1>1, <1>3, <1>4, <1>5, AccountsAdvance DEF SInv

LEMMA AppendAccounts ==
    ASSUME TInv, NEW J, Accounts(J), NEW row \in JobRows,
           Shaped(hist, dirty, dirtyAt, row), Vouches(hist, rows, row), row.dirty <= dirty,
           \/ row.parent = 0 /\ ~ row.started
           \/ /\ row.parent \in DOMAIN J /\ row.parent # 0 /\ J[row.parent].started
              /\ row.started => J[row.parent].at = row.at,
           ~ row.started => row.at = 0
    PROVE  Accounts(Append(J, row))
<1> DEFINE K == Append(J, row)
           last == Len(J) + 1
<1>1. /\ J \in Seq(JobRows) /\ Len(J) \in Nat /\ DOMAIN J = 1 .. Len(J) /\ K \in Seq(JobRows)
      /\ DOMAIN K = 1 .. last /\ K[last] = row /\ \A k \in DOMAIN J : k \in DOMAIN K /\ K[k] = J[k]
      /\ \A k \in DOMAIN J : J[k] \in JobRows
  BY AppendTyped, LenProperties, ElementOfSeq DEF Accounts
<1> HIDE DEF K
<1>2. \A k \in DOMAIN K : k \in DOMAIN J \/ k = last
  BY <1>1
<1>3. \A k \in DOMAIN J : J[k].started \in BOOLEAN
  BY <1>1, RowInts
<1>4. Advances(J, K, Len(hist))
  BY <1>1, <1>2, <1>3 DEF Advances
<1>5. \A k \in DOMAIN K : /\ Shaped(hist, dirty, dirtyAt, K[k]) /\ Vouches(hist, rows, K[k])
                          /\ K[k].dirty <= dirty
  BY <1>1, <1>2 DEF Accounts
<1>6. Descends(K, last)
  <2>1. row.at \in Nat
    BY RowInts
  <2> QED BY <1>1, <2>1, RowInts DEF Descends
<1>7. \A q \in Procs : Walker(q) => \A k \in DOMAIN K : K[k].at <= walks[q].from
  <2> SUFFICES ASSUME NEW q \in Procs, Walker(q) PROVE \A k \in DOMAIN K : K[k].at <= walks[q].from
    OBVIOUS
  <2>1. walks[q].from \in Nat
    BY WalkerFacts, WalkInts
  <2>2. \A k \in DOMAIN J : J[k].at <= walks[q].from
    BY DEF Accounts
  <2>3. row.at = 0 \/ \E k \in DOMAIN J : J[k].at = row.at
    OBVIOUS
  <2> QED BY <1>1, <1>2, <2>1, <2>2, <2>3
<1>8. Accounts(K)
  BY <1>1, <1>2, <1>4, <1>5, <1>6, <1>7, AccountsAdvance
<1> QED BY <1>8 DEF K

LEMMA QueuedAccounts ==
    ASSUME SInv, NEW parent \in 0 .. MaxJobs,
           parent # 0 => parent \in DOMAIN Recovered /\ Recovered[parent].started
    PROVE  /\ Accounts(Append(Recovered, Queued(parent)))
           /\ Queued(parent).parent = parent /\ Queued(parent).state = "queued" /\ ~ Queued(parent).started
<1> DEFINE row == Queued(parent)
<1>1. /\ Queued(parent) \in JobRows /\ dirty \in Nat /\ parent \in Nat
  BY QueuedTyped, HistFacts, ClockFacts, Bounds DEF SInv, TInv, Typed
<1>2. /\ row.parent = parent /\ row.state = "queued" /\ ~ row.started /\ row.dirty = dirty /\ row.at = 0
      /\ row.seen = {} /\ row.scopes = FirstScopes
  BY DEF Queued
<1>3. FirstScopes[Root].state = "pending" /\ \A d \in Dirs : FirstScopes[d].state \in {"none", "pending"}
  BY DEF FirstScopes, NoScope, Dirs
<1>4. Shaped(hist, dirty, dirtyAt, row)
  BY <1>2, <1>3, HistFacts DEF Shaped, SInv
<1>5. Vouches(hist, rows, row)
  <2>1. \A f \in Files : In[f] \in Dirs /\ Root \in Dirs
    BY ScanAssumption DEF Dirs
  <2> QED BY <1>2, <1>3, <2>1 DEF Vouches, SpeaksFor
<1> HIDE DEF row
<1>6. Accounts(Append(Recovered, row))
  BY <1>1, <1>2, <1>4, <1>5, RecoveredAccounts, AppendAccounts DEF row, SInv
<1> QED BY <1>2, <1>6 DEF row

LEMMA ChildAccounts ==
    ASSUME SInv, NEW i \in DOMAIN jobs, i # 0, i \in 0 .. MaxJobs,
           jobs[i].state \notin {"queued", "running"}, dirty <= jobs[i].dirty
    PROVE  /\ Accounts(Append(Recovered, Child(i)))
           /\ Child(i) \in JobRows /\ Child(i).parent = i /\ Child(i).state = "queued"
<1> DEFINE old == jobs[i]
           row == Child(i)
           scopes == [d \in Dirs |-> IF old.scopes[d].state \in {"none", "complete"} THEN old.scopes[d]
                                     ELSE [old.scopes[d] EXCEPT !.state = "pending"]]
<1>1. /\ old \in JobRows /\ Shaped(hist, dirty, dirtyAt, old) /\ Vouches(hist, rows, old)
      /\ old.dirty <= dirty /\ old.dirty \in Nat /\ dirty \in Nat
  BY JobsInt DEF SInv, Sound, JobsSound
<1>2. old.scopes \in Scopes
  BY <1>1, RowInts
<1>3. scopes \in Scopes /\ \A d \in Dirs : /\ (scopes[d].state = "none") = (old.scopes[d].state = "none")
                                          /\ (scopes[d].state = "complete") = (old.scopes[d].state = "complete")
  BY <1>2 DEF Scopes, ScopeStates
<1> HIDE DEF scopes
<1>4. Queued(i) \in JobRows
  BY QueuedTyped, ClockFacts DEF SInv, TInv, Typed
<1>5. row = [Queued(i) EXCEPT !.started = TRUE, !.at = old.at, !.pinned = old.pinned,
                              !.seen = old.seen, !.scopes = scopes]
  BY DEF Child, scopes
<1> HIDE DEF row
<1>6. /\ row \in JobRows /\ row.parent = i /\ row.state = "queued" /\ row.started /\ row.dirty = dirty
      /\ row.at = old.at /\ row.seen = old.seen /\ row.scopes = scopes
  BY <1>1, <1>3, <1>4, <1>5 DEF JobRows, Queued
<1>7. old.started /\ dirtyAt <= old.at
  BY <1>1 DEF Shaped
<1>8. \A f \in Files : In[f] \in Dirs /\ Root \in Dirs
  BY ScanAssumption DEF Dirs
<1>9. Root \in Dirs
  BY DEF Dirs
<1>10. Shaped(hist, dirty, dirtyAt, row)
  <2>1. row.seen \subseteq Files
    BY <1>6, RowInts
  <2> QED BY <1>1, <1>3, <1>6, <1>7, <1>8, <1>9, <2>1 DEF Shaped
<1>11. Vouches(hist, rows, row)
  <2>1. \A f \in Files : SpeaksFor(row, f) => SpeaksFor(old, f)
    BY <1>3, <1>6, <1>8 DEF SpeaksFor
  <2> QED BY <1>1, <1>6, <2>1 DEF Vouches
<1>12. i \in DOMAIN Recovered /\ Recovered[i] = old
  <2>1. DOMAIN Recovered = DOMAIN jobs
    BY RecoveredTyped DEF SInv, TInv, Typed
  <2> QED BY <2>1 DEF Recovered, Abandoned
<1> HIDE DEF old
<1>13. row.dirty <= dirty
  BY <1>1, <1>6
<1>14. Accounts(Append(Recovered, row))
  BY <1>6, <1>7, <1>10, <1>11, <1>12, <1>13, RecoveredAccounts, AppendAccounts DEF SInv
<1> QED BY <1>6, <1>14 DEF row

LEMMA ResumedFacts ==
    ASSUME SInv, NEW n \in DOMAIN requests
    PROVE  /\ requests[n] \in Requests /\ requests[n].parent \in 0 .. MaxJobs
           /\ requests[n].job \in DOMAIN jobs /\ requests[n].job # 0 /\ requests[n].job \in 0 .. MaxJobs
           /\ Waits(hist, rows, Recovered, dirtyAt, requests[n].job, requests[n])
           /\ requests[n].parent # 0 =>
                 requests[n].parent \in DOMAIN Recovered /\ Recovered[requests[n].parent].started
<1>1. requests[n] \in Requests /\ requests[n].job \in DOMAIN jobs
  BY RequestFacts DEF SInv, TInv, RequestsKnown
<1>2. /\ Waits(hist, rows, Recovered, dirtyAt, requests[n].job, requests[n])
      /\ Descends(Recovered, requests[n].job)
  BY RecoveredAccounts DEF Accounts
<1>3. requests[n].parent \in 0 .. MaxJobs /\ requests[n].job # 0 /\ requests[n].job \in 0 .. MaxJobs
  BY <1>1, Bounds DEF Requests, JobIds
<1> QED BY <1>1, <1>2, <1>3 DEF Waits, Descends

LEMMA AdmitsAccounts ==
    ASSUME SInv, NEW J, NEW j, NEW n, NEW r, Origin(J, j, n, r)
    PROVE  Accounts(J)
<1>1. CASE J = Recovered
  BY <1>1, RecoveredAccounts
<1>2. CASE J = Append(Recovered, Queued(0))
  <2>1. 0 \in 0 .. MaxJobs
    BY Bounds
  <2> QED BY <1>2, <2>1, QueuedAccounts
<1>3. CASE n \in DOMAIN requests /\ J = Append(Recovered, Queued(requests[n].parent))
  BY <1>3, ResumedFacts, QueuedAccounts
<1>4. ASSUME NEW m \in DOMAIN requests, J = Append(Recovered, Child(requests[m].job)),
             jobs[requests[m].job].state \notin {"queued", "running"}, dirty <= jobs[requests[m].job].dirty
      PROVE  Accounts(J)
  BY <1>4, ResumedFacts, ChildAccounts
<1> QED BY <1>1, <1>2, <1>3, <1>4 DEF Origin

(* A request that waits for the job i may wait for the job j, of the same   *)
(* compatibility, if j has begun after the request asked.                   *)
LEMMA WaitsMoves ==
    ASSUME NEW H, NEW R, NEW J, NEW a, NEW i, NEW j, NEW r, Waits(H, R, J, a, i, r),
           J[j].parent = r.parent,
           r.parent = 0 /\ ~ r.reuse => j \notin r.before
    PROVE  Waits(H, R, J, a, j, r)
BY DEF Waits, Dated

(* The rows that are shared begin late enough.                              *)
LEMMA SharedRows ==
    ASSUME NEW J, NEW r, NEW states, NEW j \in Joinable(J, r) \union Reusable(J, r, states),
           Descends(J, j), \A k \in r.before : J[k].started,
           r.parent \in Nat
    PROVE  /\ j \in DOMAIN J /\ J[j].dirty >= dirty
           /\ J[j].parent = r.parent
           /\ r.parent = 0 /\ ~ r.reuse => j \notin r.before
BY DEF Joinable, Reusable, Compatible, Descends

(* The request that is served waits for the job it is served by.            *)
LEMMA OriginWaits ==
    ASSUME SInv, NEW J, NEW j, NEW n, NEW r, Origin(J, j, n, r)
    PROVE  /\ Waits(hist, rows, J, dirtyAt, j, r)
           /\ j \in DOMAIN J /\ (J[j].state = "complete" => J[j].dirty >= dirty)
<1>1. /\ Accounts(J) /\ Accounts(Recovered) /\ Recovered \in Seq(JobRows)
      /\ Now = Len(hist) /\ Now \in Nat /\ Now >= 1 /\ dirtyAt \in Nat /\ dirtyAt >= 1 /\ dirtyAt <= Now
  BY AdmitsAccounts, RecoveredAccounts, HistFacts DEF Accounts, SInv
<1>2. /\ Len(Recovered) \in Nat /\ DOMAIN Recovered = 1 .. Len(Recovered)
      /\ \A k \in DOMAIN Recovered : Recovered[k] \in JobRows
  BY <1>1, LenProperties, ElementOfSeq
<1>3. ASSUME NEW row \in JobRows, J = Append(Recovered, row), j = Len(Recovered) + 1
      PROVE  /\ j \in DOMAIN J /\ J[j] = row /\ j \notin DOMAIN Recovered
             /\ \A k \in DOMAIN J : (k \in DOMAIN Recovered /\ J[k] = Recovered[k]) \/ k = j
             /\ \A k \in DOMAIN Recovered : k \in DOMAIN J /\ J[k] = Recovered[k]
  <2>1. Append(Recovered, row) \in Seq(JobRows) /\ Len(Append(Recovered, row)) = Len(Recovered) + 1
    BY <1>1, AppendTyped
  <2>2. DOMAIN J = 1 .. Len(Recovered) + 1
    BY <1>3, <2>1, LenProperties
  <2> QED BY <1>1, <1>2, <1>3, <2>2, AppendTyped
<1>4. ASSUME NEW reuse \in BOOLEAN, r = NewDemand(reuse),
             \/ J = Recovered /\ j \in UNION {Reusable(J, r, {"complete", "unavailable"}),
                                             Blocked(J), Joinable(J, r)}
             \/ J = Append(Recovered, Queued(0)) /\ j = Len(Recovered) + 1
      PROVE  /\ Waits(hist, rows, J, dirtyAt, j, r)
             /\ j \in DOMAIN J /\ (J[j].state = "complete" => J[j].dirty >= dirty)
  <2>1. /\ r.parent = 0 /\ r.reuse = reuse /\ r.answer = "none"
        /\ reuse => r.at = 1 /\ r.before = {}
        /\ ~ reuse => r.at = Now /\ r.before = {k \in DOMAIN Recovered : Recovered[k].started}
    BY <1>4 DEF NewDemand
  <2>2. CASE J = Recovered /\ j \in UNION {Reusable(J, r, {"complete", "unavailable"}), Blocked(J), Joinable(J, r)}
    <3>1. /\ j \in DOMAIN J /\ J[j].dirty >= dirty /\ J[j].parent = 0
          /\ \/ ~ reuse /\ J[j].state = "failed" /\ J[j].deferred
             \/ reuse
             \/ j \notin r.before
      <4>1. Descends(J, j) \/ j \notin DOMAIN J
        BY <1>1, <2>2 DEF Accounts
      <4> QED BY <2>1, <2>2, <4>1 DEF Reusable, Blocked, Joinable, Compatible, Descends
    <3>2. CASE reuse
      BY <1>1, <2>1, <3>1, <3>2 DEF Waits, Dated
    <3>3. CASE ~ reuse
      <4>1. r.at <= Len(hist) /\ \A k \in r.before : k \in DOMAIN J /\ J[k].started
        BY <1>1, <2>1, <2>2, <3>3
      <4>2. Dated(J, dirtyAt, j, r)
        BY <2>1, <2>2, <3>1, <3>3 DEF Dated
      <4> QED BY <2>1, <3>1, <4>1, <4>2 DEF Waits
    <3> QED BY <3>1, <3>2, <3>3
  <2>3. CASE J = Append(Recovered, Queued(0)) /\ j = Len(Recovered) + 1
    <3>1. 0 \in 0 .. MaxJobs
      BY Bounds
    <3>2. /\ Queued(0) \in JobRows /\ Queued(0).parent = 0 /\ ~ Queued(0).started
          /\ Queued(0).state = "queued"
      BY <3>1, QueuedTyped, ClockFacts, QueuedAccounts DEF SInv, TInv, Typed
    <3>3. /\ j \in DOMAIN J /\ J[j] = Queued(0) /\ j \notin DOMAIN Recovered
          /\ \A k \in DOMAIN J : (k \in DOMAIN Recovered /\ J[k] = Recovered[k]) \/ k = j
          /\ \A k \in DOMAIN Recovered : k \in DOMAIN J /\ J[k] = Recovered[k]
      BY <1>3, <2>3, <3>2
    <3>4. r.at <= Len(hist) /\ \A k \in r.before : k \in DOMAIN J /\ J[k].started
      BY <1>1, <2>1, <3>3
    <3>5. Dated(J, dirtyAt, j, r)
      BY <1>1, <2>1, <3>2, <3>3 DEF Dated
    <3> QED BY <2>1, <3>2, <3>3, <3>4, <3>5 DEF Waits
  <2> QED BY <1>4, <2>2, <2>3
<1>5. ASSUME n \in DOMAIN requests, r = requests[n], J = Recovered,
             \/ j = r.job /\ J[j].dirty >= dirty
             \/ j \in Joinable(J, r) \union Reusable(J, r, {"complete"})
      PROVE  /\ Waits(hist, rows, J, dirtyAt, j, r)
             /\ j \in DOMAIN J /\ (J[j].state = "complete" => J[j].dirty >= dirty)
  <2>1. r \in Requests /\ r.job \in DOMAIN J /\ Waits(hist, rows, J, dirtyAt, r.job, r)
    BY <1>1, <1>5, ResumedFacts DEF Accounts
  <2>2. CASE j = r.job /\ J[j].dirty >= dirty
    BY <2>1, <2>2
  <2>3. CASE j \in Joinable(J, r) \union Reusable(J, r, {"complete"})
    <3>1. j \in DOMAIN J
      BY <2>3 DEF Joinable, Reusable, Compatible
    <3>2. Descends(J, j) /\ \A k \in r.before : J[k].started
      BY <1>1, <2>1, <3>1 DEF Accounts, Waits
    <3>3. /\ J[j].dirty >= dirty /\ J[j].parent = r.parent
          /\ r.parent = 0 /\ ~ r.reuse => j \notin r.before
      BY <2>1, <2>3, <3>2, RequestInts, SharedRows
    <3> QED BY <2>1, <3>1, <3>3, WaitsMoves
  <2> QED BY <1>5, <2>2, <2>3
<1>6. ASSUME n \in DOMAIN requests, r = requests[n], J = Append(Recovered, Queued(r.parent)),
             j = Len(Recovered) + 1
      PROVE  /\ Waits(hist, rows, J, dirtyAt, j, r)
             /\ j \in DOMAIN J /\ (J[j].state = "complete" => J[j].dirty >= dirty)
  <2>1. /\ r.parent \in 0 .. MaxJobs
        /\ r.parent # 0 => r.parent \in DOMAIN Recovered /\ Recovered[r.parent].started
        /\ Waits(hist, rows, J, dirtyAt, r.job, r)
    BY <1>1, <1>6, ResumedFacts DEF Accounts
  <2>2. /\ Queued(r.parent) \in JobRows /\ Queued(r.parent).parent = r.parent
        /\ ~ Queued(r.parent).started /\ Queued(r.parent).state = "queued"
    BY <2>1, QueuedTyped, ClockFacts, QueuedAccounts DEF SInv, TInv, Typed
  <2>3. j \in DOMAIN J /\ J[j] = Queued(r.parent)
    BY <1>3, <1>6, <2>2
  <2>4. j \notin r.before
    BY <2>1, <2>2, <2>3 DEF Waits
  <2> QED BY <2>1, <2>2, <2>3, <2>4, WaitsMoves
<1>7. ASSUME NEW m \in DOMAIN requests, r = Continued(requests[m]),
             J = Append(Recovered, Child(requests[m].job)), j = Len(Recovered) + 1,
             jobs[requests[m].job].state \notin {"queued", "running"},
             dirty <= jobs[requests[m].job].dirty
      PROVE  /\ Waits(hist, rows, J, dirtyAt, j, r)
             /\ j \in DOMAIN J /\ (J[j].state = "complete" => J[j].dirty >= dirty)
  <2> DEFINE q == requests[m]
             i == q.job
  <2>1. q \in Requests /\ i \in DOMAIN jobs /\ i # 0 /\ i \in 0 .. MaxJobs
    BY ResumedFacts
  <2>2. Child(i).parent = i /\ Child(i).state = "queued"
    BY <1>7, <2>1, ChildAccounts
  <2>3. /\ j \in DOMAIN J /\ J[j] = Child(i)
        /\ \A k \in DOMAIN Recovered : k \in DOMAIN J /\ J[k] = Recovered[k]
    BY <1>3, <1>7, <2>1, ChildAccounts
  <2>4. /\ r.parent = i /\ r.answer = "none" /\ r.before = q.before
        /\ r.at = IF jobs[i].at < q.at THEN jobs[i].at ELSE q.at
    BY <1>7, <2>1 DEF Continued, Requests
  <2>5. /\ \A k \in q.before : k \in DOMAIN J /\ J[k].started
        /\ q.at <= Len(hist)
    BY <2>1, <1>1 DEF Accounts, Waits
  <2>6. jobs[i].at \in Nat /\ q.at \in Nat /\ i \in DOMAIN Recovered /\ Recovered[i].at = jobs[i].at
    <3>1. jobs[i] \in JobRows /\ DOMAIN Recovered = DOMAIN jobs
      BY <2>1, JobsInt, RecoveredTyped DEF SInv, TInv, Typed
    <3>2. Recovered[i].at = jobs[i].at
      BY <2>1, <3>1 DEF Recovered, JobRows
    <3> QED BY <2>1, <3>1, <3>2, RowInts, RequestInts
  <2>7. r.at <= jobs[i].at /\ r.at <= Len(hist)
    BY <1>1, <2>4, <2>5, <2>6
  <2>8. Dated(J, dirtyAt, j, r)
    BY <2>1, <2>3, <2>4, <2>6, <2>7 DEF Dated
  <2> QED BY <2>2, <2>3, <2>4, <2>5, <2>7, <2>8 DEF Waits
<1> QED BY <1>4, <1>5, <1>6, <1>7 DEF Origin

(* The job that is claimed keeps the evidence it has, and begins now if it  *)
(* has none.                                                                *)
LEMMA ClaimedEvidence ==
    ASSUME SInv, NEW row \in JobRows, Shaped(hist, dirty, dirtyAt, row), Vouches(hist, rows, row)
    PROVE  LET new == Claimed(row) IN
           /\ new \in JobRows /\ Shaped(hist, dirty, dirtyAt, new) /\ Vouches(hist, rows, new)
           /\ new.parent = row.parent /\ new.dirty = row.dirty /\ new.started
           /\ new.at = (IF row.started THEN row.at ELSE Len(hist))
           /\ new.state # "queued"
           /\ new.state = "running" => new.pinned = Disk.ident[Root] /\ new.pinned # 0
<1> DEFINE new == Claimed(row)
           begun == IF row.started THEN row ELSE [row EXCEPT !.started = TRUE, !.at = Now]
           scopes == [d \in Dirs |-> IF begun.scopes[d].state = "running"
                                     THEN [begun.scopes[d] EXCEPT !.state = "pending"]
                                     ELSE begun.scopes[d]]
           root == Disk.ident[Root]
<1>1. /\ Now = Len(hist) /\ Now \in Nat /\ dirtyAt \in Nat /\ dirtyAt <= Now
      /\ Now \in Times /\ Disk \in Disks /\ row.started \in BOOLEAN
  BY HistFacts, ClockFacts, RowInts DEF SInv, TInv, Typed
<1>2. new \in JobRows
  BY <1>1, ClaimedTyped
<1>3. /\ begun \in JobRows /\ begun.parent = row.parent /\ begun.dirty = row.dirty /\ begun.started
      /\ begun.at = (IF row.started THEN row.at ELSE Len(hist))
      /\ begun.scopes = row.scopes /\ begun.seen = row.seen
  BY <1>1 DEF JobRows
<1>4. new = IF root = 0 THEN [begun EXCEPT !.state = "unavailable", !.lease = FALSE]
            ELSE IF row.pinned \notin {0, root}
            THEN [begun EXCEPT !.state = "failed", !.lease = FALSE, !.resume = FALSE]
            ELSE [begun EXCEPT !.state = "running", !.token = @ + 1, !.lease = TRUE, !.pinned = root,
                               !.scopes = scopes]
  BY DEF Claimed
<1>5. row.scopes \in Scopes
  BY RowInts
<1>6. \A d \in Dirs : /\ (scopes[d].state = "none") = (row.scopes[d].state = "none")
                      /\ (scopes[d].state = "complete") = (row.scopes[d].state = "complete")
  BY <1>3, <1>5 DEF Scopes, ScopeStates
<1> HIDE DEF begun, scopes, root
<1>7. /\ new.parent = begun.parent /\ new.dirty = begun.dirty /\ new.started = begun.started
      /\ new.at = begun.at /\ new.seen = begun.seen
      /\ new.state \in {"unavailable", "failed", "running"}
      /\ new.scopes = begun.scopes \/ new.scopes = scopes
      /\ new.state = "running" => new.pinned = root /\ new.pinned # 0
  <2> HIDE DEF new
  <2>1. CASE root = 0
    BY <1>3, <1>4, <2>1 DEF JobRows
  <2>2. CASE root # 0 /\ row.pinned \notin {0, root}
    BY <1>3, <1>4, <2>2 DEF JobRows
  <2>3. CASE root # 0 /\ row.pinned \in {0, root}
    <3>1. new = [begun EXCEPT !.state = "running", !.token = @ + 1, !.lease = TRUE, !.pinned = root,
                              !.scopes = scopes]
      BY <1>4, <2>3
    <3> QED BY <1>3, <2>3, <3>1 DEF JobRows
  <2> QED BY <2>1, <2>2, <2>3
<1> HIDE DEF new
<1>8. \A d \in Dirs : /\ (new.scopes[d].state = "none") = (row.scopes[d].state = "none")
                      /\ (new.scopes[d].state = "complete") = (row.scopes[d].state = "complete")
  BY <1>3, <1>6, <1>7
<1>9. /\ \A f \in Files : In[f] \in Dirs
      /\ Root \in Dirs /\ row.seen \subseteq Files /\ row.at \in Nat
  BY ScanAssumption, RowInts DEF Dirs
<1>10. Shaped(hist, dirty, dirtyAt, new)
  BY <1>1, <1>3, <1>7, <1>8, <1>9 DEF Shaped
<1>11. Vouches(hist, rows, new)
  <2>1. \A f \in Files : SpeaksFor(new, f) => SpeaksFor(row, f) /\ row.started
    BY <1>1, <1>8, <1>9 DEF SpeaksFor, Shaped
  <2> QED BY <1>3, <1>7, <2>1 DEF Vouches
<1> QED BY <1>2, <1>3, <1>7, <1>10, <1>11 DEF new, root

LEMMA ClaimAccounts ==
    ASSUME SInv, \A q \in Procs : ~ Walker(q), NEW J, Accounts(J), NEW j \in DOMAIN J,
           ~ J[j].deferred
    PROVE  LET K == [J EXCEPT ![j] = Claimed(J[j])]
           IN Accounts(K) /\ Advances(J, K, Len(hist))
<1> DEFINE row == Claimed(J[j])
           K == [J EXCEPT ![j] = row]
<1>1. /\ J \in Seq(JobRows) /\ \A k \in DOMAIN J : J[k] \in JobRows /\ J[k].started \in BOOLEAN
      /\ j \in 1 .. Len(J)
      /\ Shaped(hist, dirty, dirtyAt, J[j]) /\ Vouches(hist, rows, J[j]) /\ J[j].dirty <= dirty
  BY ElementOfSeq, LenProperties, RowInts DEF Accounts
<1>2. /\ row \in JobRows /\ Shaped(hist, dirty, dirtyAt, row) /\ Vouches(hist, rows, row)
      /\ row.parent = J[j].parent /\ row.dirty = J[j].dirty /\ row.started /\ row.started \in BOOLEAN
      /\ row.at = (IF J[j].started THEN J[j].at ELSE Len(hist)) /\ row.state # "queued"
  BY <1>1, ClaimedEvidence, RowInts
<1> HIDE DEF row
<1>3. /\ DOMAIN K = DOMAIN J /\ \A k \in DOMAIN J : K[k] = IF k = j THEN row ELSE J[k]
      /\ K \in Seq(JobRows)
  BY <1>1, <1>2, ExceptSeq
<1> HIDE DEF K
<1>4. Advances(J, K, Len(hist))
  BY <1>1, <1>2, <1>3 DEF Advances
<1>5. \A k \in DOMAIN K : /\ Shaped(hist, dirty, dirtyAt, K[k]) /\ Vouches(hist, rows, K[k])
                          /\ K[k].dirty <= dirty
  BY <1>1, <1>2, <1>3 DEF Accounts
<1>6. Accounts(K)
  BY <1>3, <1>4, <1>5, AccountsAdvance DEF SInv
<1> QED BY <1>4, <1>6 DEF K, row

LEMMA NewWalkTracks ==
    ASSUME SInv, NEW row \in JobRows, row.state = "running", row.pinned = Disk.ident[Root],
           row.pinned # 0, NEW j, NEW n
    PROVE  Tracks(hist, rows, WalkOf(row, j, n), row)
<1> DEFINE w == WalkOf(row, j, n)
<1>1. /\ w.from = Now /\ w.root = row.pinned /\ w.queue = row.scopes /\ w.pc = "walk"
      /\ w.dirs = {} /\ w.entries = [f \in Files |-> 0] /\ ~ w.left /\ ~ w.verified
  BY DEF WalkOf, NoWalk
<1> HIDE DEF w
<1>2. Now = Len(hist) /\ Now \in Nat /\ Now >= 1
  BY HistFacts DEF SInv
<1>3. Root \in Dirs /\ Now \in 1 .. Now
  BY <1>2 DEF Dirs
<1>4. row.pinned \in 1 .. Now
  BY <1>3 DEF SInv, Sound, Past, Remembers, Disk
<1> QED BY <1>1, <1>2, <1>4 DEF Tracks, Queues, Buffers, Phases, Covers, Reads, w

LEMMA AdmitsSound ==
    ASSUME SInv, NEW p \in Procs, walks[p] = NoWalk,
           NEW J, NEW j, NEW n, NEW r, Admits(p, J, j, n, r)
    PROVE  Sound'
<1> DEFINE ends == J[j].state \in {"complete", "unavailable"} \/ J[j].deferred
           row  == IF ends \/ Running(J) THEN J[j] ELSE Claimed(J[j])
           plain == [r EXCEPT !.job = j]
           told == IF ends THEN Told(plain, row) ELSE plain
<1>1. /\ jobs' = [J EXCEPT ![j] = row]
      /\ requests' = IF n \in DOMAIN requests THEN [requests EXCEPT ![n] = told]
                     ELSE Append(requests, told)
      /\ walks' = IF row = J[j] THEN walks ELSE [walks EXCEPT ![p] = WalkOf(row, j, n)]
      /\ UNCHANGED <<hist, rows, dirty, dirtyAt, events>>
      /\ Origin(J, j, n, r) /\ r \in Requests /\ (n \in DOMAIN requests \/ n = Len(requests) + 1)
  BY DEF Admits, Serve
<1>2. /\ Accounts(J) /\ J \in Seq(JobRows) /\ j \in DOMAIN J /\ j \in 1 .. Len(J)
      /\ \A k \in DOMAIN J : J[k] \in JobRows /\ J[k].at \in Nat
      /\ Waits(hist, rows, J, dirtyAt, j, r)
      /\ J[j].state = "complete" => J[j].dirty >= dirty
  <2>1. Accounts(J) /\ j \in DOMAIN J
    BY <1>1, AdmitsAccounts, OriginWaits
  <2>2. J \in Seq(JobRows)
    BY <2>1 DEF Accounts
  <2>3. /\ \A k \in DOMAIN J : J[k] \in JobRows /\ J[k].at \in Nat
        /\ j \in 1 .. Len(J)
    BY <2>1, <2>2, ElementOfSeq, LenProperties, RowInts
  <2> QED BY <1>1, <2>1, <2>2, <2>3, OriginWaits
<1>3. /\ Descends(J, j) /\ Shaped(hist, dirty, dirtyAt, J[j]) /\ Vouches(hist, rows, J[j])
      /\ Len(hist) \in Nat /\ dirtyAt \in Nat /\ dirtyAt <= Len(hist)
  BY <1>2, HistFacts DEF Accounts, SInv
<1>4. TInv'
  BY AdmitsSafe DEF SInv
<1>5. plain \in Requests /\ plain.job = j /\ Waits(hist, rows, J, dirtyAt, j, plain)
  <2>1. j \in JobIds
    BY <1>2, JobFacts DEF Admits
  <2>2. /\ plain \in Requests /\ plain.job = j /\ plain.at = r.at /\ plain.parent = r.parent
        /\ plain.reuse = r.reuse /\ plain.before = r.before /\ plain.answer = r.answer
    BY <1>1, <2>1 DEF Requests
  <2> QED BY <1>2, <2>2 DEF Waits, Dated
<1>6. \A q \in Procs : Walker(q) =>
         /\ walks[q].job \in DOMAIN jobs /\ walks[q].job \in DOMAIN J
         /\ J[walks[q].job] = jobs[walks[q].job] /\ J[walks[q].job].state = "running"
  <2> SUFFICES ASSUME NEW q \in Procs, Walker(q)
               PROVE  /\ walks[q].job \in DOMAIN jobs /\ walks[q].job \in DOMAIN J
                      /\ J[walks[q].job] = jobs[walks[q].job] /\ J[walks[q].job].state = "running"
    OBVIOUS
  <2>1. walks[q].job \in DOMAIN jobs /\ jobs[walks[q].job].state = "running"
    BY WalkFacts
  <2>2. Recovered[walks[q].job] = jobs[walks[q].job]
    BY <2>1 DEF Recovered, Abandoned, Walking
  <2>3. Recovered \in Seq(JobRows) /\ DOMAIN Recovered = DOMAIN jobs
    BY RecoveredTyped DEF SInv, TInv, Typed
  <2>4. walks[q].job \in DOMAIN J /\ J[walks[q].job] = Recovered[walks[q].job]
    BY <2>1, <2>3, AppendTyped DEF Admits, Fresh
  <2> QED BY <2>1, <2>2, <2>4
<1>7. /\ DOMAIN requests \subseteq DOMAIN requests' /\ n \in DOMAIN requests' /\ requests'[n] = told
      /\ \A k \in DOMAIN requests' : k # n => k \in DOMAIN requests /\ requests'[k] = requests[k]
  <2>1. requests \in Seq(Requests) /\ DOMAIN requests = 1 .. Len(requests) /\ Len(requests) \in Nat
    BY LenProperties DEF SInv, TInv, Typed, RequestsTyped
  <2>2. CASE n \in DOMAIN requests
    BY <1>1, <2>1, <2>2
  <2>3. CASE n \notin DOMAIN requests
    <3>1. requests' = Append(requests, told) /\ n = Len(requests) + 1
      BY <1>1, <2>3
    <3>2. requests' \in Seq(Requests)
      BY <1>4 DEF TInv, Typed, RequestsTyped
    <3>3. Len(requests') = Len(requests) + 1 /\ DOMAIN requests' = 1 .. Len(requests')
      BY <2>1, <3>1, <3>2, LenProperties
    <3> QED BY <2>1, <3>1, <3>3
  <2> QED BY <2>2, <2>3
<1>8. told.job = j
  BY <1>5 DEF Told, Requests
<1>9. Past'
  BY <1>1 DEF SInv, Sound, Past, Remembers, Now
<1>10. ASSUME Accounts(jobs'), Waits(hist, rows, jobs', dirtyAt, j, told), WalksSound'
       PROVE  Sound'
  <2>1. JobsSound'
    BY <1>1, <1>10 DEF Accounts, JobsSound
  <2>2. RequestsSound'
    <3> HIDE DEF told
    <3>1. \A k \in DOMAIN requests' : Waits(hist, rows, jobs', dirtyAt, requests'[k].job, requests'[k])
      BY <1>7, <1>8, <1>10 DEF Accounts
    <3> QED BY <1>1, <3>1 DEF RequestsSound
  <2> QED BY <1>9, <1>10, <2>1, <2>2 DEF Sound
<1>11. CASE row = J[j]
  <2>1. jobs' = J /\ walks' = walks
    BY <1>1, <1>2, <1>11
  <2>2. Waits(hist, rows, J, dirtyAt, j, told)
    <3>1. CASE ends
      <4>1. told = IF J[j].state = "complete"
                   THEN [plain EXCEPT !.answer = "complete", !.at = IF dirtyAt > @ THEN dirtyAt ELSE @]
                   ELSE IF J[j].deferred THEN [plain EXCEPT !.answer = "deferred"] ELSE plain
        BY <1>11, <3>1 DEF Told
      <4> HIDE DEF told, plain
      <4> QED BY ONLY <1>2, <1>3, <1>5, <4>1, ToldWaits
    <3>2. CASE ~ ends
      BY <1>5, <3>2
    <3> QED BY <3>1, <3>2
  <2>3. WalksSound'
    <3> SUFFICES ASSUME NEW q \in Procs, Walker(q)
                 PROVE  /\ Tracks(hist, rows, walks[q], J[walks[q].job])
                        /\ Tied(J, requests', dirty, dirtyAt, walks[q])
      BY <1>1, <2>1 DEF WalksSound, Walker
    <3> DEFINE w == walks[q]
    <3>1. /\ Tracks(hist, rows, w, jobs[w.job]) /\ Tied(jobs, requests, dirty, dirtyAt, w)
          /\ J[w.job] = jobs[w.job] /\ w.req \in DOMAIN requests /\ J[w.job].state = "running"
          /\ Recovered[w.job] = jobs[w.job] /\ w.job \in DOMAIN jobs
      <4>1. w.job \in DOMAIN jobs
        BY WalkFacts
      <4> QED BY <1>6, <4>1, WalkFacts DEF Recovered, Abandoned, Walking
    <3>2. \A k \in DOMAIN J : J[k].at <= w.from
      BY <1>2 DEF Accounts
    <3>3. ASSUME J[w.job].dirty >= dirty
          PROVE  dirtyAt <= w.from /\ requests'[w.req].job = w.job
      <4>1. dirtyAt <= w.from /\ requests[w.req].job = w.job
        BY <3>1, <3>3 DEF Tied
      <4>2. CASE w.req # n
        BY <1>7, <3>1, <4>1, <4>2
      <4>3. CASE w.req = n
        <5>1. n \in DOMAIN requests /\ requests[n].job = w.job /\ n # Len(requests) + 1
          <6>1. DOMAIN requests = 1 .. Len(requests) /\ Len(requests) \in Nat
            BY RequestFacts DEF SInv, TInv
          <6> QED BY <3>1, <4>1, <4>3, <6>1
        <5>2. j = w.job
          BY <1>1, <3>1, <3>3, <5>1 DEF Origin
        <5> QED BY <1>7, <1>8, <4>1, <4>3, <5>2
      <4> QED BY <4>2, <4>3
    <3> QED BY <3>1, <3>2, <3>3 DEF Tied
  <2> QED BY <1>2, <1>10, <2>1, <2>2, <2>3
<1>12. CASE row # J[j]
  <2>1. ~ ends /\ ~ Running(J) /\ row = Claimed(J[j]) /\ told = plain
    BY <1>12
  <2>2. \A q \in Procs : ~ Walker(q)
    BY <1>6, <2>1 DEF Running
  <2>3. jobs' = [J EXCEPT ![j] = Claimed(J[j])] /\ jobs'[j] = row
    BY <1>1, <1>2, <2>1
  <2>4. Accounts(jobs') /\ Advances(J, jobs', Len(hist))
    BY <1>2, <2>1, <2>2, <2>3, ClaimAccounts
  <2>5. Waits(hist, rows, jobs', dirtyAt, j, told)
    BY <1>2, <1>3, <1>5, <2>1, <2>4, WaitsAdvance
  <2>6. WalksSound'
    <3>1. walks \in [Procs -> Walks] /\ \A q \in Procs : walks[q] = NoWalk
      BY <2>2 DEF SInv, TInv, Engaged, Typed, WalksTyped
    <3>2. \A q \in Procs : walks'[q] = IF q = p THEN WalkOf(row, j, n) ELSE NoWalk
      BY <1>1, <1>12, <3>1
    <3>3. /\ row \in JobRows
          /\ row.state = "running" => row.pinned = Disk.ident[Root] /\ row.pinned # 0
      BY <1>2, <1>3, <2>1, ClaimedEvidence
    <3> HIDE DEF row
    <3> SUFFICES ASSUME NEW q \in Procs, Walker(q)'
                 PROVE  /\ Tracks(hist, rows, walks'[q], jobs'[walks'[q].job])
                        /\ Tied(jobs', requests', dirty, dirtyAt, walks'[q])
      BY <1>1 DEF WalksSound
    <3>4. q = p /\ walks'[q] = WalkOf(row, j, n) /\ row.state = "running"
      BY <3>2, IdleWalk DEF Walker, WalkOf
    <3>5. walks'[q].job = j /\ walks'[q].req = n /\ walks'[q].from = Now
      BY <3>4 DEF WalkOf, NoWalk
    <3>6. Tracks(hist, rows, walks'[q], row)
      BY <3>3, <3>4, NewWalkTracks
    <3>7. Tied(jobs', requests', dirty, dirtyAt, walks'[q])
      <4>1. \A k \in DOMAIN jobs' : jobs'[k].at <= Now
        BY <2>4 DEF Accounts, Shaped, Now
      <4>2. dirtyAt <= Now
        BY <1>3 DEF Now
      <4>3. requests'[n].job = j
        BY <1>7, <1>8
      <4> HIDE DEF told
      <4> QED BY <3>5, <4>1, <4>2, <4>3 DEF Tied
    <3> QED BY <2>3, <3>5, <3>6, <3>7
  <2> QED BY <1>10, <2>4, <2>5, <2>6
<1> QED BY <1>11, <1>12

-----------------------------------------------------------------------------
(* Every step keeps what is known of the evidence.                          *)
LEMMA InitSound == Init => Sound
<1> SUFFICES ASSUME Init PROVE Sound
  OBVIOUS
<1>1. jobs = <<>> /\ requests = <<>> /\ walks = [p \in Procs |-> NoWalk]
  BY DEF Init
<1>2. DOMAIN jobs = {} /\ DOMAIN requests = {}
  BY <1>1
<1>3. \A p \in Procs : ~ Walker(p)
  BY <1>1, IdleWalk DEF Walker
<1> QED BY <1>2, <1>3, InitPast DEF Sound, JobsSound, WalksSound, RequestsSound

LEMMA NextSound == SInv /\ [Next]_vars => SInv'
<1> SUFFICES ASSUME SInv, [Next]_vars PROVE Sound'
  BY NextSafe DEF SInv
<1>1. CASE UNCHANGED vars
  BY <1>1 DEF vars, SInv, Sound, Past, Remembers, Now, JobsSound, WalksSound, RequestsSound, Walker
<1>2. CASE Admission
  <2>1. \E p \in Procs : walks[p] = NoWalk /\ \E J, j, n, r : Admits(p, J, j, n, r)
    BY <1>2, RequestAdmits, ResumeAdmits, ContinueAdmits DEF Admission, SInv, TInv
  <2> QED BY <2>1, AdmitsSound
<1>3. CASE Traversal
  BY <1>3, OpenSound, CannotOpenSound, ListSound, CheckpointSound, CloseSound, RecheckSound,
     CommitSound, FinishSound, FencedSound DEF Traversal
<1>4. CASE Trouble
  BY <1>4, FencedSound, ListPartSound, AbortSound, CancelSound, LapseSound DEF Trouble
<1>5. CASE World
  BY <1>5, WorldSound
<1> QED BY <1>1, <1>2, <1>3, <1>4, <1>5 DEF Next

(* The evidence is sound: what is on record of a file has been true at some *)
(* time since the evidence that vouches for it began, whoever asked for the *)
(* scan, shared it, resumed it or lost it.                                  *)
THEOREM EvidenceSound == Spec => []SInv
<1>1. Init => SInv
  BY InitSafe, InitSound DEF SInv
<1> QED BY <1>1, NextSound, PTL DEF Spec

LEMMA HeldSince == \A f, t : Held(f, t) = Since(hist, f, t)
BY DEF Held, Since, Now

(* A complete job vouches for every file (finish_scan): the catalog says of *)
(* it what its path has held since the job's evidence began.                *)
THEOREM CompleteVouchesHolds == Spec => []CompleteVouches
<1>1. SInv => CompleteVouches
  <2> SUFFICES ASSUME SInv, NEW j \in DOMAIN jobs, jobs[j].state = "complete", NEW f \in Files
               PROVE  rows[f] \in Held(f, jobs[j].at)
    BY DEF CompleteVouches
  <2>1. Shaped(hist, dirty, dirtyAt, jobs[j]) /\ Vouches(hist, rows, jobs[j])
    BY DEF SInv, Sound, JobsSound
  <2>2. In[f] \in Dirs /\ Root \in Dirs
    BY ScanAssumption DEF Dirs
  <2>3. SpeaksFor(jobs[j], f)
    BY <2>1, <2>2 DEF Shaped, SpeaksFor
  <2> QED BY <2>1, <2>3, HeldSince DEF Vouches
<1> QED BY <1>1, EvidenceSound, PTL

(* A caller that has been told "complete" (scan, resume_scan) relies on     *)
(* nothing older than it asked for: the record holds what was true since    *)
(* its minimum start and the last dirty event before the answer.            *)
THEOREM AnswersAreFreshHolds == Spec => []AnswersAreFresh
<1>1. SInv => AnswersAreFresh
  <2> SUFFICES ASSUME SInv, NEW n \in DOMAIN requests, requests[n].answer = "complete", NEW f \in Files
               PROVE  rows[f] \in Held(f, requests[n].at)
    BY DEF AnswersAreFresh
  <2>1. Waits(hist, rows, jobs, dirtyAt, requests[n].job, requests[n])
    BY DEF SInv, Sound, RequestsSound
  <2> QED BY <2>1, HeldSince DEF Waits
<1> QED BY <1>1, EvidenceSound, PTL

(* Only a batch of a walk changes what is on record (flush).                *)
LEMMA RowsMove ==
    ASSUME SInv, Next, rows' # rows
    PROVE  \E q \in Procs : /\ \/ \E d \in Dirs : Open(q, d)
                               \/ Checkpoint(q) \/ Commit(q)
                            /\ \A p \in Procs : p # q => walks'[p] = walks[p]
<1>1. \E q \in Procs : \/ \E d \in Dirs : Open(q, d)
                       \/ Checkpoint(q) \/ Commit(q)
  <2>1. ~ Admission
    <3>1. Admission => \E p, J, j, n, r : Admits(p, J, j, n, r)
      BY RequestAdmits, ResumeAdmits, ContinueAdmits DEF Admission, SInv, TInv
    <3>2. ASSUME NEW p, NEW J, NEW j, NEW n, NEW r, Admits(p, J, j, n, r) PROVE rows' = rows
      BY <3>2 DEF Admits, Serve
    <3> QED BY <3>1, <3>2
  <2>2. ~ Trouble
    BY DEF Trouble, Crash, ListPart, Abort, Ends, Cancel, Lapse
  <2>3. ~ World
    BY DEF World, Write, Remove, MakeDir, RemoveDir, Edit, Dirty
  <2> QED BY <2>1, <2>2, <2>3 DEF Next, Traversal, CannotOpen, List, Close, Recheck, Steps, Finish, Ends, Fenced
<1>2. PICK q \in Procs : \/ \E d \in Dirs : Open(q, d)
                         \/ Checkpoint(q) \/ Commit(q)
  BY <1>1
<1>3. \E w : walks' = [walks EXCEPT ![q] = w]
  BY <1>2 DEF Open, Checkpoint, Commit, Flush
<1>4. walks \in [Procs -> Walks]
  BY DEF SInv, TInv, Typed, WalksTyped
<1> QED BY <1>2, <1>3, <1>4

(* What a batch puts on record (flush, publish_missing) was true of the     *)
(* path at some time since the claim that publishes it.                     *)
THEOREM PublishedWasTrueHolds == Spec => PublishedWasTrue
<1> DEFINE Step == \A f \in Files, p \in Procs :
                      rows'[f] # rows[f] /\ walks'[p] # walks[p] => rows'[f] \in Held(f, walks[p].from)
<1>1. SInv /\ [Next]_vars => [Step]_vars
  <2> SUFFICES ASSUME SInv, Next, NEW f \in Files, NEW p \in Procs,
                      rows'[f] # rows[f], walks'[p] # walks[p]
               PROVE  rows'[f] \in Held(f, walks[p].from)
    OBVIOUS
  <2>1. (\E d \in Dirs : Open(p, d)) \/ Checkpoint(p) \/ Commit(p)
    BY RowsMove
  <2> QED BY <2>1, BatchHeld, HeldSince
<1> QED BY <1>1, EvidenceSound, PTL DEF PublishedWasTrue, Spec

(* A directory whose reading is committed as complete (reopen and the stamp *)
(* it had when it was opened) is on record with exactly the names it had.   *)
THEOREM ListingIsExactHolds == Spec => ListingIsExact
<1> DEFINE Exact(p) == \A f \in Files : In[f] = walks[p].dir =>
                          (rows'[f] # 0) = (hist[walks[p].stamp].ver[f] # 0)
           Step == \A p \in Procs : walks[p].verified /\ Commit(p) => Exact(p)
<1>1. SInv /\ [Next]_vars => [Step]_vars
  <2> SUFFICES ASSUME SInv, NEW p \in Procs, walks[p].verified, Commit(p),
                      NEW f \in Files, In[f] = walks[p].dir
               PROVE  (rows'[f] # 0) = (hist[walks[p].stamp].ver[f] # 0)
    OBVIOUS
  <2> DEFINE w == walks[p]
             row == jobs[w.job]
             pub == Published(w, Verified(w))
             next == [w EXCEPT !.pc = "walk", !.dir = Root, !.stamp = 0,
                               !.status = "complete", !.verified = FALSE]
  <2>1. w.pc = "checked" /\ Flush(p, w, Verified(w), next) /\ Verified(w) = {w.dir}
    BY DEF Commit, Verified
  <2>2. Walker(p) /\ w \in Walks /\ Tracks(hist, rows, w, row) /\ w.job \in DOMAIN jobs
    BY <2>1, WalkFacts DEF Walker
  <2>3. /\ Buffered(w, row)
        /\ f \in pub.seen <=> w.entries[f] # 0 \/ f \in row.seen
        /\ \A g \in Absent(pub, Verified(w)) : 0 \in Since(hist, g, w.from)
    BY <2>1, CommitAbsent
  <2>4. /\ w.entries[f] # 0 => rows'[f] = w.entries[f]
        /\ f \in Absent(pub, Verified(w)) => rows'[f] = 0
        /\ w.entries[f] = 0 /\ f \notin Absent(pub, Verified(w)) => rows'[f] = rows[f]
    <3> HIDE DEF w, next
    <3> QED BY ONLY SInv, f \in Files, <2>1, <2>2, <2>3, FlushRows
  <2>5. f \in Absent(pub, Verified(w)) <=> f \notin pub.seen
    BY <2>1 DEF Absent
  <2>6. f \in row.seen => rows[f] # 0
    BY <2>1, <2>2 DEF Tracks, Covers, Reads
  <2>7. (rows'[f] # 0) = (w.entries[f] # 0 \/ f \in row.seen)
    BY <2>3, <2>4, <2>5, <2>6
  <2>8. (w.entries[f] # 0 \/ f \in row.seen) = (hist[w.stamp].ver[f] # 0)
    BY <2>1, VerifiedListing
  <2> QED BY <2>7, <2>8
<1> QED BY <1>1, EvidenceSound, PTL DEF ListingIsExact, Spec
=============================================================================
