------------------------- MODULE AnalysisJobsProofs -------------------------
(***************************************************************************)
(* Proofs about AnalysisJobs, for any number of processes, jobs, attempts, *)
(* revisions, digests and worker threads.                                  *)
(***************************************************************************)
EXTENDS AnalysisJobs, TLAPS

-----------------------------------------------------------------------------
(* Types.  Counted is what the bounds of the model add: an attempt of a job *)
(* is an attempt of all jobs together.  Requested: a job that exists has an *)
(* operation and a revision, and only such a job has a worker.              *)

Counted == \A j \in Jobs : job[j].attempts <= starts

Requested ==
    \A j \in Jobs :
        /\ job[j].state # "none" => job[j].op \in Ops /\ job[j].rev \in Revs
        /\ \A p \in Procs : task[p][j].st # "none" => job[j].state # "none"

TInv == TypeOK /\ Counted /\ Requested

LEMMA Integers == /\ MaxJobs \in Nat /\ MaxStarts \in Nat /\ MaxRev \in Nat \ {0}
                  /\ MaxFaults \in Nat /\ LeaseTicks \in Nat \ {0}
BY AnalysisAssumption, LeaseAssumption

(* What a cache hit, a report and a judged result are made of.              *)
LEMMA HitTyped ==
    ASSUME TypeOK, NEW p \in Procs, NEW j \in Jobs, Hits(p, j) # {}
    PROVE  /\ (CHOOSE c \in Hits(p, j) : TRUE) \in proc[p].cache
           /\ (CHOOSE c \in Hits(p, j) : TRUE).rev = job[j].rev
           /\ (CHOOSE c \in Hits(p, j) : TRUE).data \in Digests
<1> DEFINE c == CHOOSE c \in Hits(p, j) : TRUE
<1>1. c \in Hits(p, j)
  OBVIOUS
<1>2. c \in proc[p].cache /\ c.rev = job[j].rev
  BY <1>1 DEF Hits
<1>3. proc[p].cache \in SUBSET Cached
  BY DEF TypeOK, Processes
<1> QED BY <1>2, <1>3 DEF Cached

LEMMA ReportTyped ==
    ASSUME TypeOK, NEW j \in Jobs, NEW r \in Reports(j)
    PROVE  /\ r \in Result
           /\ r.out = "complete" => r.data = disk.data /\ disk.rev = job[j].rev
<1>1. disk.data \in Digests
  BY DEF TypeOK
<1>2. Failures \subseteq Terminal \ {"complete", "changed", "mismatch"}
  BY AnalysisAssumption
<1>3. \/ r = [out |-> "changed", data |-> "none"]
      \/ disk.rev = job[j].rev /\ r = [out |-> "complete", data |-> disk.data]
      \/ r \in [out : Failures, data : {"none"}]
      \/ r = [out |-> "damaged", data |-> "none"]
  BY DEF Reports
<1>4. CASE r \in [out : Failures, data : {"none"}]
  BY <1>2, <1>4 DEF Result
<1> QED BY <1>1, <1>3, <1>4 DEF Result, Terminal

LEMMA InitTyped == Init => TInv
<1> SUFFICES ASSUME Init PROVE TInv
  OBVIOUS
<1>1. 0 \in 0 .. MaxStarts /\ 0 \in 0 .. MaxRev /\ 1 \in Revs /\ 0 \in 0 .. MaxJobs
      /\ 0 \in 0 .. LeaseTicks /\ 0 \in 0 .. MaxFaults
  BY Integers DEF Revs
<1>2. job \in [Jobs -> JobRows] /\ claim \in [Jobs -> ClaimRows]
      /\ sealed \in [Jobs -> {"none", "owned", "quiescent"}] /\ due \in [Jobs -> 0 .. MaxStarts]
  BY <1>1 DEF Init, JobRows, ClaimRows, Phases
<1>3. fact \in [Ops -> FactRows] /\ base \in Digests \cup {"none"}
  BY <1>1 DEF Init, FactRows, NoFact
<1>4. task \in [Procs -> [Jobs -> Tasks]] /\ proc \in [Procs -> Processes]
  BY <1>1 DEF Init, Tasks, Processes, Idle
<1>5. disk \in [rev : Revs, data : Digests] /\ had \in SUBSET (Revs \X Digests) /\ inv \in Revs
  BY <1>1 DEF Init
<1>6. TypeOK
  BY <1>1, <1>2, <1>3, <1>4, <1>5 DEF Init, TypeOK
<1>7. Counted /\ Requested
  BY <1>1 DEF Init, Counted, Requested, NoTask
<1> QED BY <1>6, <1>7 DEF TInv

(* The one-transaction commands.                                            *)
LEMMA EnqueueTyped ==
    ASSUME TInv, NEW op \in Ops, NEW refresh \in BOOLEAN, Enqueue(op, refresh)
    PROVE  TInv'
<1> USE DEF TInv
<1>1. PICK j \in Jobs :
        /\ job[j].state = "none"
        /\ job' = [job EXCEPT ![j] = [@ EXCEPT !.state = "queued", !.op = op, !.rev = inv]]
  BY DEF Enqueue
<1>2. inv \in Revs /\ Revs \subseteq 0 .. MaxRev /\ job \in [Jobs -> JobRows]
  BY Integers DEF TypeOK, Revs
<1>3. /\ job' \in [Jobs -> JobRows]
      /\ job'[j].state = "queued" /\ job'[j].op = op /\ job'[j].rev = inv
      /\ job'[j].attempts = job[j].attempts
      /\ \A k \in Jobs \ {j} : job'[k] = job[k]
  BY <1>1, <1>2 DEF JobRows, Phases
<1>4. TypeOK'
  BY <1>3 DEF TypeOK, Enqueue, file, results
<1>5. Counted' /\ Requested'
  BY <1>2, <1>3 DEF Counted, Requested, Enqueue
<1> QED BY <1>4, <1>5

(* A step that only moves the states of jobs, none of them to "none", and   *)
(* of those that were not requested none at all, keeps the types.           *)
LEMMA StatesTyped ==
    ASSUME TInv, job' \in [Jobs -> JobRows],
           \A j \in Jobs : /\ job'[j].attempts = job[j].attempts
                           /\ job'[j].op = job[j].op /\ job'[j].rev = job[j].rev
                           /\ job[j].state # "none" <=> job'[j].state # "none",
           starts' = starts,
           \A p \in Procs, j \in Jobs : task'[p][j].st # "none" => task[p][j].st # "none"
    PROVE  (Counted /\ Requested)'
BY DEF TInv, Counted, Requested

LEMMA OneStateTyped ==
    ASSUME TInv, NEW j \in Jobs, NEW s \in Phases \ {"none"}, job[j].state # "none",
           job' = [job EXCEPT ![j].state = s]
    PROVE  /\ job' \in [Jobs -> JobRows]
           /\ \A k \in Jobs : /\ job'[k].attempts = job[k].attempts
                              /\ job'[k].op = job[k].op /\ job'[k].rev = job[k].rev
                              /\ job[k].state # "none" <=> job'[k].state # "none"
<1>1. job \in [Jobs -> JobRows]
  BY DEF TInv, TypeOK
<1> QED BY <1>1 DEF JobRows

LEMMA FaultTyped ==
    ASSUME TypeOK, Fault
    PROVE  faults' \in 0 .. MaxFaults
BY Integers DEF TypeOK, Fault

LEMMA CommandsTyped ==
    ASSUME TInv, NEW j \in Jobs, Cancel(j) \/ Retry(j)
    PROVE  TInv'
<1>1. CASE Cancel(j)
  <2>1. job[j].state # "none" /\ job' = [job EXCEPT ![j].state = "cancelled"]
    BY <1>1 DEF Cancel, CanCancel
  <2>2. TypeOK'
    <3>1. faults' \in 0 .. MaxFaults
      BY <1>1, FaultTyped DEF TInv, Cancel
    <3> QED BY <1>1, <2>1, <3>1, OneStateTyped DEF TInv, TypeOK, Cancel, file, results, Phases, Terminal
  <2>3. Counted' /\ Requested'
    BY <1>1, <2>1, OneStateTyped, StatesTyped DEF Cancel, Phases, Terminal
  <2> QED BY <2>2, <2>3 DEF TInv
<1>2. CASE Retry(j)
  <2>1. job[j].state # "none" /\ job' = [job EXCEPT ![j].state = "queued"]
    BY <1>2 DEF Retry, CanRetry
  <2>2. TypeOK'
    BY <1>2, <2>1, OneStateTyped DEF TInv, TypeOK, Retry, file, results, Phases, Terminal
  <2>3. Counted' /\ Requested'
    BY <1>2, <2>1, OneStateTyped, StatesTyped DEF Retry, Phases, Terminal
  <2> QED BY <2>2, <2>3 DEF TInv
<1> QED BY <1>1, <1>2

(* The pool.                                                                *)
LEMMA OpenRunTyped ==
    ASSUME TInv, NEW p \in Procs, NEW retries, NEW D, OpenRun(p, retries, D)
    PROVE  TInv'
<1>1. \A j \in D \cup Abandoned : job[j].state # "none"
  BY DEF OpenRun, Due, Abandoned, CanReclaim
<1>2. job \in [Jobs -> JobRows] /\ claim \in [Jobs -> ClaimRows] /\ due \in [Jobs -> 0 .. MaxStarts]
      /\ proc \in [Procs -> Processes]
  BY DEF TInv, TypeOK
<1>3. /\ job' \in [Jobs -> JobRows]
      /\ \A k \in Jobs : /\ job'[k].attempts = job[k].attempts
                         /\ job'[k].op = job[k].op /\ job'[k].rev = job[k].rev
                         /\ job[k].state # "none" <=> job'[k].state # "none"
  BY <1>1, <1>2 DEF OpenRun, JobRows, Phases
<1>4. claim' \in [Jobs -> ClaimRows] /\ due' \in [Jobs -> 0 .. MaxStarts]
  BY <1>2, Integers DEF OpenRun, ClaimRows
<1>5. proc' \in [Procs -> Processes]
  BY <1>2 DEF OpenRun, Goto, Processes
<1>6. TypeOK'
  BY <1>3, <1>4, <1>5 DEF TInv, TypeOK, OpenRun, file, results
<1>7. Counted' /\ Requested'
  BY <1>3, StatesTyped DEF OpenRun
<1> QED BY <1>6, <1>7 DEF TInv

LEMMA AcquireTyped ==
    ASSUME TInv, NEW p \in Procs, NEW j \in Jobs, Acquire(p, j), proc' \in [Procs -> Processes],
           UNCHANGED <<native, file, due, results, stray, faults>>
    PROVE  TInv'
<1> DEFINE n == job[j].attempts + 1
           new == IF Hits(p, j) = {} THEN [st |-> "busy", att |-> n]
                  ELSE [st |-> "done", att |-> n,
                        res |-> [out |-> "complete", data |-> (CHOOSE c \in Hits(p, j) : TRUE).data]]
<1>1. /\ job \in [Jobs -> JobRows] /\ claim \in [Jobs -> ClaimRows]
      /\ sealed \in [Jobs -> {"none", "owned", "quiescent"}] /\ task \in [Procs -> [Jobs -> Tasks]]
      /\ starts \in 0 .. MaxStarts /\ job[j].attempts \in 0 .. MaxStarts
      /\ \A k \in Jobs : job[k].attempts <= starts /\ job[k].attempts \in 0 .. MaxStarts
  BY DEF TInv, TypeOK, Counted, JobRows
<1>2. /\ starts < MaxStarts /\ starts' = starts + 1 /\ job[j].state # "none"
      /\ job' = [job EXCEPT ![j].state = "running", ![j].attempts = n]
      /\ claim' = [claim EXCEPT ![j] = Claim(p, n)]
      /\ task' = [task EXCEPT ![p][j] = new]
  BY DEF Acquire, CanStart
<1>3. n \in 1 .. MaxStarts /\ n <= starts' /\ starts' \in 0 .. MaxStarts
  BY <1>1, <1>2, Integers
<1>4. /\ job' \in [Jobs -> JobRows]
      /\ job'[j].state = "running" /\ job'[j].attempts = n
      /\ job'[j].op = job[j].op /\ job'[j].rev = job[j].rev
      /\ \A k \in Jobs \ {j} : job'[k] = job[k]
  BY <1>1, <1>2, <1>3 DEF JobRows, Phases
<1>5. claim' \in [Jobs -> ClaimRows]
  BY <1>1, <1>2, <1>3, Integers DEF ClaimRows, Claim
<1>6. new \in Tasks
  <2>1. CASE Hits(p, j) = {}
    BY <1>3, <2>1 DEF Tasks
  <2>2. CASE Hits(p, j) # {}
    <3>1. (CHOOSE c \in Hits(p, j) : TRUE).data \in Digests
      BY <2>2, HitTyped DEF TInv
    <3> QED BY <1>3, <2>2, <3>1 DEF Tasks, Result, Terminal
  <2> QED BY <2>1, <2>2
<1>7. task' \in [Procs -> [Jobs -> Tasks]]
  BY <1>1, <1>2, <1>6
<1>8. sealed' \in [Jobs -> {"none", "owned", "quiescent"}]
  BY <1>1 DEF Acquire
<1>9. TypeOK'
  BY <1>3, <1>4, <1>5, <1>7, <1>8 DEF TInv, TypeOK, file, results
<1>10. Counted'
  BY <1>1, <1>2, <1>3, <1>4 DEF Counted
<1>11. Requested'
  <2>1. \A q \in Procs, k \in Jobs : k # j => task'[q][k] = task[q][k]
    BY <1>1, <1>2
  <2> QED BY <1>2, <1>4, <2>1 DEF TInv, Requested
<1> QED BY <1>9, <1>10, <1>11 DEF TInv

LEMMA RunTyped ==
    ASSUME TInv, NEW p \in Procs, NEW j \in Jobs, Submit(p, j) \/ RunDirect(p, j)
    PROVE  TInv'
<1>1. proc \in [Procs -> Processes]
  BY DEF TInv, TypeOK
<1>2. CASE Submit(p, j)
  BY <1>1, <1>2, AcquireTyped DEF Submit
<1>3. CASE RunDirect(p, j)
  <2>1. proc' \in [Procs -> Processes]
    BY <1>1, <1>3 DEF RunDirect, Goto, Processes
  <2> QED BY <1>3, <2>1, AcquireTyped DEF RunDirect
<1> QED BY <1>2, <1>3

(* A step that leaves the jobs alone and starts no worker.                  *)
LEMMA QuietTyped ==
    ASSUME TInv, UNCHANGED <<job, starts>>,
           \A p \in Procs, j \in Jobs : task'[p][j].st # "none" => task[p][j].st # "none"
    PROVE  (Counted /\ Requested)'
BY DEF TInv, Counted, Requested

LEMMA IdleTyped == Idle \in Processes /\ NoTask \in Tasks /\ NoTask.st = "none"
BY Integers DEF Idle, Processes, NoTask, Tasks

LEMMA DropTyped ==
    ASSUME TInv, NEW p \in Procs, task' = DropTasks(p)
    PROVE  /\ task' \in [Procs -> [Jobs -> Tasks]]
           /\ \A q \in Procs, j \in Jobs : /\ task'[q][j].st # "none" => task[q][j].st # "none"
                                           /\ q = p => task'[q][j] = NoTask
                                           /\ q # p => task'[q][j] = task[q][j]
<1>1. task \in [Procs -> [Jobs -> Tasks]]
  BY DEF TInv, TypeOK
<1> QED BY <1>1, IdleTyped DEF DropTasks

LEMMA PoolTyped ==
    ASSUME TInv, NEW p \in Procs, CloseRun(p) \/ Seal(p) \/ Stop(p)
    PROVE  TInv'
<1>1. proc \in [Procs -> Processes] /\ claim \in [Jobs -> ClaimRows]
      /\ sealed \in [Jobs -> {"none", "owned", "quiescent"}]
  BY DEF TInv, TypeOK
<1>2. CASE CloseRun(p)
  <2>1. proc' \in [Procs -> Processes]
    BY <1>1, <1>2, IdleTyped DEF CloseRun
  <2> QED BY <1>2, <2>1, QuietTyped DEF TInv, TypeOK, CloseRun, file, rows, results
<1>3. CASE Seal(p)
  <2>1. proc' \in [Procs -> Processes]
    <3>1. 0 \in 0 .. MaxJobs
      BY Integers
    <3>2. proc' = [proc EXCEPT ![p] = [@ EXCEPT !.pc = "pool", !.cur = 0]]
      BY <1>1, <1>3 DEF Seal
    <3> QED BY <1>1, <3>1, <3>2 DEF Processes
  <2>2. sealed' \in [Jobs -> {"none", "owned", "quiescent"}]
    BY <1>1, <1>3 DEF Seal
  <2> QED BY <1>3, <2>1, <2>2, QuietTyped DEF TInv, TypeOK, Seal, file, results
<1>4. CASE Stop(p)
  <2>1. proc' \in [Procs -> Processes]
    BY <1>1, <1>4, IdleTyped DEF Stop
  <2>2. sealed' \in [Jobs -> {"none", "owned", "quiescent"}] /\ claim' \in [Jobs -> ClaimRows]
    BY <1>1, <1>4, Integers DEF Stop, ClaimRows
  <2>3. task' = DropTasks(p)
    BY <1>4 DEF Stop
  <2> QED BY <1>4, <2>1, <2>2, <2>3, DropTyped, QuietTyped DEF TInv, TypeOK, Stop, file, results
<1> QED BY <1>2, <1>3, <1>4

LEMMA WorkTyped ==
    ASSUME TInv, NEW p \in Procs, NEW j \in Jobs, Work(p, j)
    PROVE  TInv'
<1>1. PICK r \in Reports(j) :
        task' = [task EXCEPT ![p][j] = [st |-> "done", att |-> @.att, res |-> r]]
  BY DEF Work
<1>2. task \in [Procs -> [Jobs -> Tasks]] /\ r \in Result
  BY <1>1, ReportTyped DEF TInv, TypeOK
<1>3. task[p][j].st = "busy" /\ task[p][j] \in Tasks
  BY <1>2 DEF Work
<1>4. task[p][j].att \in 1 .. MaxStarts
  BY <1>3 DEF Tasks, NoTask
<1>5. [st |-> "done", att |-> task[p][j].att, res |-> r] \in Tasks
  BY <1>2, <1>4 DEF Tasks
<1>6. /\ task' \in [Procs -> [Jobs -> Tasks]]
      /\ \A q \in Procs, k \in Jobs : task'[q][k].st # "none" => task[q][k].st # "none"
  BY <1>1, <1>2, <1>3, <1>5
<1> QED BY <1>6, QuietTyped DEF TInv, TypeOK, Work, file, rows, results

LEMMA CheckTyped ==
    ASSUME TInv, NEW p \in Procs, NEW j \in Jobs, Check(p, j)
    PROVE  TInv'
<1>1. j \in 0 .. MaxJobs
  BY Integers DEF Jobs
<1>2. proc \in [Procs -> Processes]
  BY DEF TInv, TypeOK
<1>3. proc' \in [Procs -> Processes]
  BY <1>1, <1>2 DEF Check, Processes
<1> QED BY <1>3, QuietTyped DEF TInv, TypeOK, Check, file, rows, results

(* What a commit writes.  A complete outcome is a complete result that was  *)
(* looked at twice under the job's revision and agrees with the baseline.   *)
LEMMA Completed ==
    ASSUME NEW p, NEW j, Outcome(p, j) = "complete"
    PROVE  /\ task[p][j].res.out = "complete"
           /\ inv = job[j].rev
           /\ Agrees(j, task[p][j].res)
BY DEF Outcome, Judged, StillCurrent

LEMMA FactsAre ==
    ASSUME NEW p, NEW j, NEW op \in Ops
    PROVE  \/ Facts(p, j)[op] = fact[op]
           \/ Facts(p, j)[op] = [fact[op] EXCEPT !.status = "invalidated"]
           \/ /\ op = job[j].op /\ Outcome(p, j) = "complete"
              /\ Facts(p, j)[op] = [status |-> "complete", job |-> j, rev |-> job[j].rev,
                                    data |-> task[p][j].res.data]
BY DEF Facts, Invalidated

LEMMA DoneTyped ==
    ASSUME TypeOK, NEW p \in Procs, NEW j \in Jobs, task[p][j].st = "done"
    PROVE  /\ task[p][j].res \in Result /\ task[p][j].att \in 1 .. MaxStarts
           /\ task[p][j].res.data \in Digests \cup {"none"}
           /\ task[p][j].res.out = "complete" => task[p][j].res.data \in Digests
BY DEF TypeOK, Tasks, NoTask, Result

LEMMA CommitTyped ==
    ASSUME TInv, NEW p \in Procs, NEW j \in Jobs, Commit(p, j), task[p][j].st = "done"
    PROVE  TInv'
<1> DEFINE r == task[p][j].res
           out == Outcome(p, j)
           stored == IF out = "complete" /\ p \notin Direct
                       THEN {[op |-> job[j].op, rev |-> job[j].rev, data |-> r.data]} ELSE {}
<1>1. /\ out \in Terminal /\ job[j].state = "running"
      /\ fact' = Facts(p, j)
      /\ base' = IF out = "complete" /\ job[j].op \in Checksums THEN r.data ELSE base
      /\ job' = [job EXCEPT ![j].state = out]
      /\ due' = [due EXCEPT ![j] = RetryRow(out, task[p][j].att)]
      /\ proc' = [proc EXCEPT ![p] =
               [pc    |-> IF Witnessed(p, j) THEN "seal" ELSE "pool",
                cur   |-> IF Witnessed(p, j) THEN j ELSE 0,
                look  |-> "none",
                cache |-> proc[p].cache \cup stored]]
      /\ claim' = [claim EXCEPT ![j].lease = 0]
      /\ task' = [task EXCEPT ![p][j] = NoTask]
      /\ UNCHANGED <<native, file, sealed, stray, starts, faults>>
  BY DEF Commit, CanFinish, Fence
<1>2. /\ job \in [Jobs -> JobRows] /\ claim \in [Jobs -> ClaimRows] /\ due \in [Jobs -> 0 .. MaxStarts]
      /\ fact \in [Ops -> FactRows] /\ proc \in [Procs -> Processes]
      /\ task \in [Procs -> [Jobs -> Tasks]] /\ inv \in Revs
  BY DEF TInv, TypeOK
<1>3. r \in Result /\ task[p][j].att \in 1 .. MaxStarts /\ r.data \in Digests \cup {"none"}
  BY DoneTyped DEF TInv
<1>4. job[j].op \in Ops /\ job[j].rev \in Revs
  BY <1>1 DEF TInv, Requested
<1>5. out = "complete" => r.data \in Digests
  BY <1>3, Completed, DoneTyped DEF TInv
<1>6. /\ job' \in [Jobs -> JobRows]
      /\ \A k \in Jobs : /\ job'[k].attempts = job[k].attempts
                         /\ job'[k].op = job[k].op /\ job'[k].rev = job[k].rev
                         /\ job[k].state # "none" <=> job'[k].state # "none"
  BY <1>1, OneStateTyped DEF Phases, Terminal
<1>7. claim' \in [Jobs -> ClaimRows]
  <2>1. claim' = [claim EXCEPT ![j].lease = 0] /\ 0 \in 0 .. LeaseTicks
    BY <1>1, Integers
  <2> QED BY <1>2, <2>1 DEF ClaimRows
<1>8. due' \in [Jobs -> 0 .. MaxStarts]
  <2>1. RetryRow(out, task[p][j].att) \in 0 .. MaxStarts
    BY <1>3, Integers DEF RetryRow
  <2> QED BY <1>1, <1>2, <2>1
<1>9. fact' \in [Ops -> FactRows]
  <2>1. j \in 0 .. MaxJobs /\ job[j].rev \in 0 .. MaxRev
    BY <1>4, Integers DEF Jobs, Revs
  <2>2. ASSUME NEW op \in Ops PROVE Facts(p, j)[op] \in FactRows
    <3>1. fact[op] \in FactRows
      BY <1>2
    <3>2. CASE Facts(p, j)[op] = fact[op] \/ Facts(p, j)[op] = [fact[op] EXCEPT !.status = "invalidated"]
      BY <3>1, <3>2 DEF FactRows
    <3>3. CASE Facts(p, j)[op] = [status |-> "complete", job |-> j, rev |-> job[j].rev, data |-> r.data]
      BY <1>3, <2>1, <3>3 DEF FactRows
    <3> QED BY <3>2, <3>3, FactsAre
  <2> QED BY <1>1, <2>2 DEF Facts
<1>10. base' \in Digests \cup {"none"}
  BY <1>1, <1>3 DEF TInv, TypeOK
<1>11. /\ task' \in [Procs -> [Jobs -> Tasks]]
       /\ \A q \in Procs, k \in Jobs : task'[q][k].st # "none" => task[q][k].st # "none"
  BY <1>1, <1>2, IdleTyped
<1>12. proc' \in [Procs -> Processes]
  <2>1. stored \in SUBSET Cached
    BY <1>2, <1>4, <1>5, Completed DEF Cached
  <2>2. j \in 0 .. MaxJobs /\ 0 \in 0 .. MaxJobs
    BY Integers DEF Jobs
  <2>3. proc[p] \in Processes
    BY <1>2
  <2>4. proc[p].cache \cup stored \in SUBSET Cached
    BY <2>1, <2>3 DEF Processes
  <2> HIDE DEF stored
  <2>5. proc'[p] \in Processes /\ proc' = [proc EXCEPT ![p] = proc'[p]]
    BY <1>1, <1>2, <2>2, <2>4 DEF Processes
  <2> QED BY <1>2, <2>5
<1>13. TypeOK'
  BY <1>1, <1>6, <1>7, <1>8, <1>9, <1>10, <1>11, <1>12 DEF TInv, TypeOK, file
<1>14. Counted' /\ Requested'
  BY <1>1, <1>6, <1>11, StatesTyped
<1> QED BY <1>13, <1>14 DEF TInv

(* The environment.                                                         *)
LEMMA FileTyped ==
    ASSUME TInv, Edit \/ Decay \/ Scan
    PROVE  TInv'
<1>1. /\ disk \in [rev : Revs, data : Digests] /\ had \in SUBSET (Revs \X Digests)
      /\ inv \in Revs /\ Revs = 1 .. MaxRev
  BY DEF TInv, TypeOK, Revs
<1>2. CASE Edit
  <2>1. PICK d \in Digests : disk' = [rev |-> disk.rev + 1, data |-> d]
    BY <1>2 DEF Edit
  <2>2. disk.rev + 1 \in Revs
    BY <1>1, <1>2, Integers DEF Edit
  <2>3. disk' \in [rev : Revs, data : Digests] /\ had' \in SUBSET (Revs \X Digests)
    BY <1>1, <1>2, <2>1, <2>2 DEF Edit
  <2> QED BY <1>2, <2>3, QuietTyped DEF TInv, TypeOK, Edit, rows, results
<1>3. CASE Decay
  <2>1. PICK d \in Digests : disk' = [disk EXCEPT !.data = d]
    BY <1>3 DEF Decay
  <2>2. disk' \in [rev : Revs, data : Digests] /\ had' \in SUBSET (Revs \X Digests)
    BY <1>1, <1>3, <2>1 DEF Decay
  <2>3. faults' \in 0 .. MaxFaults
    BY <1>3, FaultTyped DEF TInv, Decay
  <2> QED BY <1>3, <2>2, <2>3, QuietTyped DEF TInv, TypeOK, Decay, rows, results
<1>4. CASE Scan
  <2>1. inv' \in Revs
    BY <1>1, <1>4, Integers DEF Scan
  <2> QED BY <1>4, <2>1, QuietTyped DEF TInv, TypeOK, Scan, rows, results
<1> QED BY <1>2, <1>3, <1>4

LEMMA LapseTyped ==
    ASSUME TInv, NEW j \in Jobs, Lapse(j)
    PROVE  TInv'
<1>1. claim' \in [Jobs -> ClaimRows]
  <2>1. claim \in [Jobs -> ClaimRows] /\ claim' = [claim EXCEPT ![j].lease = 0] /\ 0 \in 0 .. LeaseTicks
    BY Integers DEF TInv, TypeOK, Lapse
  <2> QED BY <2>1 DEF ClaimRows
<1>2. faults' \in 0 .. MaxFaults
  <2>1. Fault \/ faults' = faults
    BY DEF Lapse
  <2> QED BY <2>1, FaultTyped DEF TInv, TypeOK
<1> QED BY <1>1, <1>2, QuietTyped DEF TInv, TypeOK, Lapse, file, results

LEMMA CrashTyped ==
    ASSUME TInv, NEW p \in Procs, Crash(p)
    PROVE  TInv'
<1>1. proc' \in [Procs -> Processes]
  BY IdleTyped DEF TInv, TypeOK, Crash
<1>2. faults' \in 0 .. MaxFaults
  BY FaultTyped DEF TInv, Crash
<1>3. stray' \subseteq Jobs
  BY DEF TInv, TypeOK, Crash, Pending
<1>4. task' = DropTasks(p)
  BY DEF Crash
<1> QED BY <1>1, <1>2, <1>3, <1>4, DropTyped, QuietTyped DEF TInv, TypeOK, Crash, file, rows, results

LEMMA StrayTyped ==
    ASSUME TInv, NEW j \in Jobs, StrayExits(j)
    PROVE  TInv'
BY QuietTyped DEF TInv, TypeOK, StrayExits, file, rows, results

(* A commit has a job, whose thread is done.                                *)
Looking == \A p \in Procs : proc[p].pc = "commit" =>
              proc[p].cur \in Jobs /\ task[p][proc[p].cur].st = "done"

LEMMA LookingHolds ==
    ASSUME TInv, Looking, [Next]_vars
    PROVE  Looking'
<1> USE DEF Looking
<1>1. /\ proc \in [Procs -> Processes] /\ task \in [Procs -> [Jobs -> Tasks]]
  BY DEF TInv, TypeOK
<1>2. ASSUME UNCHANGED <<task, proc>> PROVE Looking'
  BY <1>2
<1>3. ASSUME NEW p \in Procs, CloseRun(p) \/ Stop(p) \/ Crash(p) PROVE Looking'
  <2>1. proc' = [proc EXCEPT ![p] = Idle] /\ \A q \in Procs \ {p} : task'[q] = task[q]
    BY <1>1, <1>3 DEF CloseRun, Stop, Crash, DropTasks
  <2> QED BY <1>1, <2>1 DEF Idle
<1>4. ASSUME NEW p \in Procs, Seal(p) PROVE Looking'
  BY <1>1, <1>4 DEF Seal, Processes
<1>5. ASSUME NEW p \in Procs, NEW retries, NEW D, OpenRun(p, retries, D) PROVE Looking'
  BY <1>1, <1>5 DEF OpenRun, Goto, Processes
<1>6. ASSUME NEW p \in Procs, NEW j \in Jobs, Acquire(p, j), proc[p].pc # "commit",
             proc' = proc \/ Goto(p, "pool")
      PROVE  Looking'
  <2>1. \A q \in Procs \ {p} : task'[q] = task[q]
    BY <1>1, <1>6 DEF Acquire
  <2> QED BY <1>1, <1>6, <2>1 DEF Goto, Processes
<1>7. ASSUME NEW p \in Procs, NEW j \in Jobs, Submit(p, j) \/ RunDirect(p, j) PROVE Looking'
  BY <1>6, <1>7 DEF Submit, RunDirect
<1>8. ASSUME NEW p \in Procs, NEW j \in Jobs, Work(p, j) PROVE Looking'
  <2>1. PICK r : task' = [task EXCEPT ![p][j] = [st |-> "done", att |-> @.att, res |-> r]]
    BY <1>8 DEF Work
  <2>2. \A q \in Procs, k \in Jobs : task[q][k].st = "done" => task'[q][k].st = "done"
    BY <1>1, <2>1
  <2> QED BY <1>8, <2>2 DEF Work
<1>9. ASSUME NEW p \in Procs, NEW j \in Jobs, Check(p, j) PROVE Looking'
  BY <1>1, <1>9 DEF Check, Processes
<1>10. ASSUME NEW p \in Procs, NEW j \in Jobs, Commit(p, j) PROVE Looking'
  <2>1. proc'[p].pc # "commit" /\ \A q \in Procs \ {p} : proc'[q] = proc[q] /\ task'[q] = task[q]
    BY <1>1, <1>10 DEF Commit
  <2> QED BY <2>1
<1> QED
  BY <1>2, <1>3, <1>4, <1>5, <1>7, <1>8, <1>9, <1>10
  DEF Next, Commands, Pool, Environment, Enqueue, Cancel, Retry, Edit, Decay, Scan, Lapse,
      StrayExits, vars

LEMMA CommitIsDone ==
    ASSUME Looking, NEW p \in Procs, NEW j \in Jobs, Commit(p, j)
    PROVE  task[p][j].st = "done"
BY DEF Looking, Commit

LEMMA NextTyped == TInv /\ Looking /\ [Next]_vars => TInv'
<1> SUFFICES ASSUME TInv, Looking, [Next]_vars PROVE TInv'
  OBVIOUS
<1>1. CASE UNCHANGED vars
  BY <1>1, QuietTyped DEF TInv, TypeOK, vars
<1>2. CASE Commands
  BY <1>2, EnqueueTyped, CommandsTyped DEF Commands
<1>3. ASSUME NEW p \in Procs, Pool(p) PROVE TInv'
  BY <1>3, PoolTyped, OpenRunTyped, RunTyped, WorkTyped, CheckTyped, CommitTyped, CommitIsDone DEF Pool
<1>4. CASE Environment
  BY <1>4, FileTyped, LapseTyped, StrayTyped, CrashTyped DEF Environment
<1> QED BY <1>1, <1>2, <1>3, <1>4 DEF Next

(* Every variable has its type: attempts stay in their bounds, a worker's   *)
(* result is a digest or the reason why there is none, and the facts, the   *)
(* baseline and the retry rows are built from those.                        *)
THEOREM TypeCorrect == Spec => []TypeOK
<1>1. Init => TInv /\ Looking
  BY InitTyped DEF Init, Looking, Idle
<1>2. TInv /\ Looking /\ [Next]_vars => (TInv /\ Looking)'
  BY NextTyped, LookingHolds
<1>3. TInv /\ Looking => TypeOK
  BY DEF TInv
<1> QED BY <1>1, <1>2, <1>3, PTL DEF Spec

(* In every reachable state the variables have their types, the attempts of *)
(* all jobs together are counted by starts, a job that was requested has an *)
(* operation and a revision, and a process that is about to commit looks at *)
(* a result that its own worker has delivered (complete_inner reads the     *)
(* result, media_mutation.rs:534).                                          *)
THEOREM Invariant == Spec => [](TInv /\ Looking)
<1>1. Init => TInv /\ Looking
  BY InitTyped DEF Init, Looking, Idle
<1>2. TInv /\ Looking /\ [Next]_vars => (TInv /\ Looking)'
  BY NextTyped, LookingHolds
<1> QED BY <1>1, <1>2, PTL DEF Spec

-----------------------------------------------------------------------------
(* Facts.  No fact is newer than the inventory, which only grows, so the    *)
(* fact a commit replaces is not newer than the revision it checked.        *)

FactsKnown == \A op \in Ops : fact[op].rev <= inv

(* Only a commit writes facts or the baseline, only a scan the inventory.   *)
LEMMA OnlyCommits ==
    ASSUME [Next]_vars
    PROVE  \/ UNCHANGED results
           \/ \E p \in Procs, j \in Jobs : Commit(p, j)
<1> USE DEF results
<1>1. CASE UNCHANGED vars
  BY <1>1 DEF vars
<1>2. CASE Commands
  BY <1>2 DEF Commands, Enqueue, Cancel, Retry
<1>3. ASSUME NEW p \in Procs, Pool(p), ~ \E j \in Jobs : Commit(p, j) PROVE UNCHANGED results
  <2>1. CASE CloseRun(p) \/ Seal(p) \/ Stop(p)
    BY <2>1 DEF CloseRun, Seal, Stop
  <2>2. ASSUME NEW retries, NEW D, OpenRun(p, retries, D) PROVE UNCHANGED results
    BY <2>2 DEF OpenRun
  <2>3. ASSUME NEW j \in Jobs, Submit(p, j) \/ RunDirect(p, j) \/ Work(p, j) \/ Check(p, j)
        PROVE  UNCHANGED results
    BY <2>3 DEF Submit, RunDirect, Work, Check
  <2> QED BY <1>3, <2>1, <2>2, <2>3 DEF Pool
<1>4. CASE Environment
  BY <1>4 DEF Environment, Edit, Decay, Scan, Lapse, StrayExits, Crash
<1> QED BY <1>1, <1>2, <1>3, <1>4 DEF Next

LEMMA NumbersTyped ==
    ASSUME TInv
    PROVE  /\ inv \in Int /\ disk.rev \in Int
           /\ \A op \in Ops : fact[op].rev \in Int
<1>1. inv \in Revs /\ disk.rev \in Revs /\ \A op \in Ops : fact[op].rev \in 0 .. MaxRev
  BY DEF TInv, TypeOK, FactRows
<1>2. Revs \subseteq Int /\ 0 .. MaxRev \subseteq Int
  BY Integers DEF Revs
<1> QED BY <1>1, <1>2

LEMMA InventoryGrows ==
    ASSUME TInv, [Next]_vars
    PROVE  inv \in Int /\ inv' \in Int /\ inv <= inv'
<1> USE DEF file
<1>1. inv \in Int /\ disk.rev \in Int
  BY NumbersTyped
<1>2. CASE UNCHANGED vars
  BY <1>1, <1>2 DEF vars
<1>3. CASE Commands
  <2>1. inv' = inv
    BY <1>3 DEF Commands, Enqueue, Cancel, Retry
  <2> QED BY <1>1, <2>1
<1>4. ASSUME NEW p \in Procs, Pool(p) PROVE inv' = inv
  <2>1. CASE CloseRun(p) \/ Seal(p) \/ Stop(p)
    BY <2>1 DEF CloseRun, Seal, Stop
  <2>2. ASSUME NEW retries, NEW D, OpenRun(p, retries, D) PROVE inv' = inv
    BY <2>2 DEF OpenRun
  <2>3. ASSUME NEW j \in Jobs, Submit(p, j) \/ RunDirect(p, j) \/ Work(p, j) \/ Check(p, j) \/ Commit(p, j)
        PROVE  inv' = inv
    BY <2>3 DEF Submit, RunDirect, Work, Check, Commit
  <2> QED BY <1>4, <2>1, <2>2, <2>3 DEF Pool
<1>5. CASE Environment
  <2>1. CASE Scan
    BY <1>1, <2>1 DEF Scan
  <2>2. CASE ~Scan
    BY <1>1, <1>5, <2>2 DEF Environment, Edit, Decay, Lapse, StrayExits, Crash
  <2> QED BY <2>1, <2>2
<1> QED BY <1>1, <1>2, <1>3, <1>4, <1>5 DEF Next

(* What a commit does to the fact of one operation.                         *)
LEMMA CommitFacts ==
    ASSUME TInv, NEW p \in Procs, NEW j \in Jobs, Commit(p, j), NEW op \in Ops
    PROVE  \/ fact'[op].rev = fact[op].rev /\ (fact'[op].status = "complete" => fact'[op] = fact[op])
           \/ /\ op = job[j].op /\ Outcome(p, j) = "complete" /\ inv = job[j].rev
              /\ fact'[op].rev = job[j].rev /\ fact'[op].data = task[p][j].res.data
<1>1. fact' = Facts(p, j) /\ fact[op] \in FactRows
  BY DEF Commit, TInv, TypeOK
<1>2. /\ [fact[op] EXCEPT !.status = "invalidated"].status # "complete"
      /\ [fact[op] EXCEPT !.status = "invalidated"].rev = fact[op].rev
  BY <1>1 DEF FactRows
<1>3. CASE Facts(p, j)[op] = fact[op]
  BY <1>1, <1>3
<1>4. CASE Facts(p, j)[op] = [fact[op] EXCEPT !.status = "invalidated"]
  BY <1>1, <1>2, <1>4
<1>5. CASE /\ op = job[j].op /\ Outcome(p, j) = "complete"
           /\ Facts(p, j)[op] = [status |-> "complete", job |-> j, rev |-> job[j].rev,
                                 data |-> task[p][j].res.data]
  <2>1. fact'[op].rev = job[j].rev /\ fact'[op].data = task[p][j].res.data
    BY <1>1, <1>5
  <2> QED BY <1>5, <2>1, Completed
<1> QED BY <1>3, <1>4, <1>5, FactsAre

LEMMA FactsKnownHolds ==
    ASSUME TInv, FactsKnown, [Next]_vars
    PROVE  FactsKnown'
<1>1. SUFFICES ASSUME NEW op \in Ops PROVE fact'[op].rev <= inv'
  BY DEF FactsKnown
<1>2. fact[op].rev \in Int /\ fact[op].rev <= inv
  BY NumbersTyped DEF FactsKnown
<1>3. CASE UNCHANGED results
  BY <1>2, <1>3, InventoryGrows DEF results
<1>4. ASSUME NEW p \in Procs, NEW j \in Jobs, Commit(p, j) PROVE fact'[op].rev <= inv'
  <2>1. fact'[op].rev \in {fact[op].rev, inv}
    BY <1>4, CommitFacts
  <2> QED BY <1>2, <2>1, InventoryGrows
<1> QED BY <1>3, <1>4, OnlyCommits

(* A late result never replaces a fact about a newer revision, and what is  *)
(* recorded is about the revision the inventory shows at that moment        *)
(* (complete_inner, media_mutation.rs:581).                                 *)
THEOREM FactsNeverOlderHolds == Spec => FactsNeverOlder
<1>1. Init => FactsKnown
  BY DEF Init, FactsKnown, NoFact
<1>2. TInv /\ FactsKnown /\ [Next]_vars => FactsKnown'
  BY FactsKnownHolds
<1>3. TInv /\ FactsKnown /\ [Next]_vars =>
        [\A op \in Ops : fact'[op].status = "complete" /\ fact'[op] # fact[op] =>
             fact'[op].rev = inv /\ fact'[op].rev >= fact[op].rev]_vars
  <2>1. SUFFICES ASSUME TInv, FactsKnown, [Next]_vars, NEW op \in Ops,
                        fact'[op].status = "complete", fact'[op] # fact[op]
                 PROVE  fact'[op].rev = inv /\ fact'[op].rev >= fact[op].rev
    OBVIOUS
  <2>2. PICK p \in Procs, j \in Jobs : Commit(p, j)
    BY <2>1, OnlyCommits DEF results
  <2>3. fact'[op].rev = inv
    BY <2>1, <2>2, CommitFacts
  <2>4. inv \in Int /\ fact[op].rev \in Int /\ fact[op].rev <= inv
    BY <2>1, NumbersTyped DEF FactsKnown
  <2> QED BY <2>3, <2>4
<1> QED BY <1>1, <1>2, <1>3, Invariant, PTL DEF Spec, FactsNeverOlder

-----------------------------------------------------------------------------
(* The baseline.  A complete checksum fact and the baseline are the same    *)
(* digest, also after a mismatch and after a late result.                   *)

Based ==
    \A op \in Ops \cap Checksums :
        fact[op].status = "complete" => fact[op].data = base /\ base # "none"

(* A commit leaves the baseline alone or writes the digest it agrees with.  *)
LEMMA CommitBase ==
    ASSUME TInv, Looking, NEW p \in Procs, NEW j \in Jobs, Commit(p, j)
    PROVE  /\ base # "none" => base' = base
           /\ Outcome(p, j) = "complete" /\ job[j].op \in Checksums
                => base' = task[p][j].res.data /\ base' # "none"
           /\ Outcome(p, j) # "complete" \/ job[j].op \notin Checksums => base' = base
<1>1. task[p][j].st = "done"
  BY CommitIsDone
<1>2. base' = IF Outcome(p, j) = "complete" /\ job[j].op \in Checksums
                THEN task[p][j].res.data ELSE base
  BY DEF Commit
<1>3. CASE Outcome(p, j) = "complete" /\ job[j].op \in Checksums
  <2>1. task[p][j].res.data \in Digests
    BY <1>1, <1>3, Completed, DoneTyped DEF TInv
  <2>2. base \in {"none", task[p][j].res.data}
    BY <1>3, Completed DEF Agrees
  <2> QED BY <1>2, <1>3, <2>1, <2>2, AnalysisAssumption
<1>4. CASE ~(Outcome(p, j) = "complete" /\ job[j].op \in Checksums)
  BY <1>2, <1>4
<1> QED BY <1>3, <1>4

LEMMA BasedHolds ==
    ASSUME TInv, Looking, Based, [Next]_vars
    PROVE  Based' /\ (base # "none" => base' = base)
<1>1. CASE UNCHANGED results
  BY <1>1 DEF Based, results
<1>2. ASSUME NEW p \in Procs, NEW j \in Jobs, Commit(p, j)
      PROVE  Based' /\ (base # "none" => base' = base)
  <2>1. ASSUME NEW op \in Ops \cap Checksums, fact'[op].status = "complete"
        PROVE  fact'[op].data = base' /\ base' # "none"
    <3>1. CASE fact'[op] = fact[op]
      BY <1>2, <2>1, <3>1, CommitBase DEF Based
    <3>2. CASE fact'[op] # fact[op]
      BY <1>2, <2>1, <3>2, CommitBase, CommitFacts
    <3> QED BY <3>1, <3>2
  <2> QED BY <1>2, <2>1, CommitBase DEF Based
<1> QED BY <1>1, <1>2, OnlyCommits

(* The first checksum stays the baseline, and no current checksum fact      *)
(* disagrees with it (complete_inner, media_mutation.rs:597-606).           *)
THEOREM BaselineHoldsAlways == Spec => BaselineHolds
<1>1. Init => Based
  BY DEF Init, Based, NoFact
<1>2. TInv /\ Looking /\ Based /\ [Next]_vars => Based'
  BY BasedHolds
<1>3. TInv /\ Looking /\ Based /\ [Next]_vars =>
        [/\ base # "none" => base' = base
         /\ \A op \in Ops \cap Checksums :
              fact'[op].status = "complete" => fact'[op].data = base']_vars
  BY BasedHolds DEF Based
<1> QED BY <1>1, <1>2, <1>3, Invariant, PTL DEF Spec, BaselineHolds

-----------------------------------------------------------------------------
(* Cancellation.  Every way to bring a job back looks at its state.         *)

LEMMA CancelStep ==
    ASSUME TInv, Looking, Next, NEW j \in Jobs, job[j].state = "cancelled", job'[j] # job[j]
    PROVE  job'[j].state = "queued" /\ UNCHANGED <<due, proc, task>>
<1>1. job \in [Jobs -> JobRows]
  BY DEF TInv, TypeOK
<1>2. ASSUME NEW op \in Ops, NEW refresh \in BOOLEAN, Enqueue(op, refresh) PROVE FALSE
  BY <1>1, <1>2 DEF Enqueue
<1>3. ASSUME NEW k \in Jobs, Cancel(k) PROVE FALSE
  BY <1>1, <1>3 DEF Cancel, CanCancel
<1>4. ASSUME NEW k \in Jobs, Retry(k)
      PROVE  job'[j].state = "queued" /\ UNCHANGED <<due, proc, task>>
  BY <1>1, <1>4 DEF Retry, JobRows
<1>5. ASSUME NEW p \in Procs, Pool(p) PROVE FALSE
  <2>1. CASE CloseRun(p) \/ Seal(p) \/ Stop(p)
    BY <2>1 DEF CloseRun, Seal, Stop, rows
  <2>2. ASSUME NEW retries, NEW D, OpenRun(p, retries, D) PROVE FALSE
    <3>1. j \notin D /\ j \notin Abandoned
      BY <2>2 DEF OpenRun, Due, Abandoned, CanReclaim
    <3> QED BY <2>2, <3>1 DEF OpenRun
  <2>3. ASSUME NEW k \in Jobs, Acquire(p, k) PROVE FALSE
    <3>1. k # j
      BY <2>3 DEF Acquire, CanStart
    <3> QED BY <1>1, <2>3, <3>1 DEF Acquire
  <2>4. ASSUME NEW k \in Jobs, Work(p, k) \/ Check(p, k) PROVE FALSE
    BY <2>4 DEF Work, Check, rows
  <2>5. ASSUME NEW k \in Jobs, Commit(p, k) PROVE FALSE
    <3>1. k # j
      BY <2>5 DEF Commit, CanFinish, Fence
    <3> QED BY <1>1, <2>5, <3>1 DEF Commit
  <2> QED BY <1>5, <2>1, <2>2, <2>3, <2>4, <2>5 DEF Pool, Submit, RunDirect
<1>6. CASE Environment
  BY <1>6 DEF Environment, Edit, Decay, Scan, Lapse, StrayExits, Crash, rows
<1> QED BY <1>2, <1>3, <1>4, <1>5, <1>6 DEF Next, Commands

(* A cancelled job stays cancelled until somebody asks for a retry, whatever *)
(* rows and workers earlier attempts left behind (media_mutation.rs:729).    *)
THEOREM CancelHoldsAlways == Spec => CancelHolds
<1>1. TInv /\ Looking /\ [Next]_vars =>
        [\A j \in Jobs : job[j].state = "cancelled" /\ job'[j] # job[j] =>
             job'[j].state = "queued" /\ UNCHANGED <<due, proc, task>>]_vars
  BY CancelStep
<1> QED BY <1>1, Invariant, PTL DEF Spec, CancelHolds

-----------------------------------------------------------------------------
(* Native catalogs.  A process is engaged with a job from its acquisition   *)
(* until the seal; a sealed or never claimed job has nobody engaged and no  *)
(* child process left, which is why it may be admitted.                     *)

Sealing(p, j) == proc[p].pc = "seal" /\ proc[p].cur = j
Engaged(p, j) == task[p][j].st # "none" \/ Sealing(p, j)
Free(j) == sealed[j] = "quiescent" \/ claim[j].owner = NoProc

Exclusive ==
    \A j \in Jobs :
        /\ \A p, q \in Procs : Engaged(p, j) /\ Engaged(q, j) => p = q
        /\ \A p \in Procs : Engaged(p, j) => j \notin stray
        /\ \A p \in Procs : Sealing(p, j) => task[p][j].st = "none"
        /\ Free(j) => j \notin stray /\ \A p \in Procs : ~Engaged(p, j)

Native == native => Exclusive

(* Nobody new is engaged, and what became free was given up.                *)
LEMMA Shrinks ==
    ASSUME Exclusive, stray' \subseteq stray,
           \A j \in Jobs, p \in Procs :
              /\ Engaged(p, j)' => Engaged(p, j)
              /\ Sealing(p, j)' => task'[p][j].st = "none",
           \A j \in Jobs : Free(j)' => \/ Free(j)
                                       \/ j \notin stray /\ \A p \in Procs : ~Engaged(p, j)'
    PROVE  Exclusive'
BY DEF Exclusive

LEMMA AcquireExclusive ==
    ASSUME TInv, native, Exclusive, NEW p \in Procs, NEW j \in Jobs, Acquire(p, j),
           native' = native, stray' = stray, proc[p].pc # "seal",
           proc' = proc \/ Goto(p, "pool")
    PROVE  Exclusive'
<1>1. Free(j)
  BY DEF Acquire, Admitted, Free
<1>2. j \notin stray /\ \A q \in Procs : ~Engaged(q, j)
  BY <1>1 DEF Exclusive
<1>3. \A q \in Procs, k \in Jobs : Sealing(q, k)' = Sealing(q, k)
  BY DEF Sealing, Goto, TInv, TypeOK, Processes
<1>4. task \in [Procs -> [Jobs -> Tasks]] /\ claim \in [Jobs -> ClaimRows]
      /\ sealed \in [Jobs -> {"none", "owned", "quiescent"}]
  BY DEF TInv, TypeOK
<1>5. \A q \in Procs, k \in Jobs : q # p \/ k # j => task'[q][k] = task[q][k]
  BY <1>4 DEF Acquire
<1>6. \A k \in Jobs : k # j => claim'[k] = claim[k] /\ sealed'[k] = sealed[k]
  BY <1>4 DEF Acquire
<1>7. claim'[j].owner = p /\ sealed'[j] = "owned"
  BY <1>4 DEF Acquire, Claim
<1>8. ~Free(j)'
  BY <1>7, AnalysisAssumption DEF Free
<1>9. \A k \in Jobs : k # j => Free(k)' = Free(k)
  BY <1>6 DEF Free
<1>10. \A q \in Procs, k \in Jobs : q # p \/ k # j => Engaged(q, k)' = Engaged(q, k)
  BY <1>3, <1>5 DEF Engaged
<1>11. \A q \in Procs : q # p => ~Engaged(q, j)'
  BY <1>2, <1>10
<1>12. ~Sealing(p, j)'
  BY <1>3 DEF Sealing
<1> QED
  <2> SUFFICES ASSUME NEW k \in Jobs
               PROVE  /\ \A q, r \in Procs : Engaged(q, k)' /\ Engaged(r, k)' => q = r
                      /\ \A q \in Procs : Engaged(q, k)' => k \notin stray'
                      /\ \A q \in Procs : Sealing(q, k)' => task'[q][k].st = "none"
                      /\ Free(k)' => k \notin stray' /\ \A q \in Procs : ~Engaged(q, k)'
    BY DEF Exclusive
  <2>1. CASE k = j
    <3>1. \A q \in Procs : Sealing(q, k)' => q # p /\ Sealing(q, j)
      BY <2>1, <1>3, <1>12
    <3>2. \A q \in Procs : ~Sealing(q, j)
      BY <1>2 DEF Engaged
    <3> QED BY <2>1, <1>2, <1>8, <1>11, <3>1, <3>2
  <2>2. CASE k # j
    <3>1. \A q \in Procs : Engaged(q, k)' = Engaged(q, k) /\ Sealing(q, k)' = Sealing(q, k)
                           /\ task'[q][k] = task[q][k]
      BY <2>2, <1>3, <1>5, <1>10
    <3> QED BY <2>2, <1>9, <3>1 DEF Exclusive
  <2> QED BY <2>1, <2>2

LEMMA CommitExclusive ==
    ASSUME TInv, Looking, Exclusive, NEW p \in Procs, NEW j \in Jobs, Commit(p, j)
    PROVE  Exclusive'
<1>1. task \in [Procs -> [Jobs -> Tasks]] /\ claim \in [Jobs -> ClaimRows] /\ proc \in [Procs -> Processes]
  BY DEF TInv, TypeOK
<1>2. \A q \in Procs, k \in Jobs :
        /\ q # p \/ k # j => task'[q][k] = task[q][k]
        /\ q = p /\ k = j => task'[q][k].st = "none"
  BY <1>1, IdleTyped DEF Commit
<1>3. \A q \in Procs, k \in Jobs : Sealing(q, k)' => (Sealing(q, k) /\ q # p) \/ (q = p /\ k = j)
  BY <1>1 DEF Commit, Sealing
<1>4. Engaged(p, j)
  BY CommitIsDone DEF Engaged
<1>5. \A k \in Jobs : Free(k)' = Free(k) /\ stray' = stray
  BY <1>1 DEF Commit, Free, ClaimRows
<1>6. ASSUME NEW k \in Jobs, NEW q \in Procs
      PROVE  /\ Engaged(q, k)' => Engaged(q, k)
             /\ Sealing(q, k)' => task'[q][k].st = "none"
  BY <1>2, <1>3, <1>4 DEF Engaged, Exclusive
<1> QED BY <1>5, <1>6, Shrinks

LEMMA NativeSame ==
    ASSUME [Next]_vars
    PROVE  native' = native
<1>1. CASE UNCHANGED vars
  BY <1>1 DEF vars
<1>2. CASE Commands
  BY <1>2 DEF Commands, Enqueue, Cancel, Retry
<1>3. ASSUME NEW p \in Procs, Pool(p) PROVE native' = native
  <2>1. CASE CloseRun(p) \/ Seal(p) \/ Stop(p)
    BY <2>1 DEF CloseRun, Seal, Stop
  <2>2. ASSUME NEW retries, NEW D, OpenRun(p, retries, D) PROVE native' = native
    BY <2>2 DEF OpenRun
  <2>3. ASSUME NEW j \in Jobs, Submit(p, j) \/ RunDirect(p, j) PROVE native' = native
    BY <2>3 DEF Submit, RunDirect
  <2>4. ASSUME NEW j \in Jobs, Work(p, j) \/ Check(p, j) \/ Commit(p, j) PROVE native' = native
    BY <2>4 DEF Work, Check, Commit
  <2> QED BY <1>3, <2>1, <2>2, <2>3, <2>4 DEF Pool
<1>4. CASE Environment
  BY <1>4 DEF Environment, Edit, Decay, Scan, Lapse, StrayExits, Crash
<1> QED BY <1>1, <1>2, <1>3, <1>4 DEF Next

LEMMA SealExclusive ==
    ASSUME TInv, Exclusive, NEW p \in Procs, Seal(p)
    PROVE  Exclusive'
<1>1. proc \in [Procs -> Processes] /\ sealed \in [Jobs -> {"none", "owned", "quiescent"}]
  BY DEF TInv, TypeOK
<1>2. /\ \A q \in Procs, j \in Jobs : Sealing(q, j)' => q # p /\ Sealing(q, j)
      /\ UNCHANGED <<task, claim, stray>>
  BY <1>1 DEF Seal, Sealing, Processes
<1>3. \A q \in Procs, j \in Jobs : Engaged(q, j)' => Engaged(q, j)
  BY <1>2 DEF Engaged
<1>4. \A q \in Procs, j \in Jobs : Sealing(q, j)' => task'[q][j].st = "none"
  BY <1>2 DEF Exclusive
<1>5. ASSUME NEW j \in Jobs, Free(j)', ~Free(j)
      PROVE  j \notin stray /\ \A q \in Procs : ~Engaged(q, j)'
  <2>1. j = proc[p].cur
    BY <1>1, <1>2, <1>5 DEF Seal, Free
  <2>2. Sealing(p, j) /\ Engaged(p, j) /\ task[p][j].st = "none"
    BY <2>1 DEF Seal, Sealing, Engaged, Exclusive
  <2>3. ~Engaged(p, j)'
    BY <1>2, <2>2 DEF Engaged
  <2> QED BY <1>3, <2>2, <2>3 DEF Exclusive
<1> QED BY <1>2, <1>3, <1>4, <1>5, Shrinks

(* A process that gives everything up; what it was engaged with may become  *)
(* free (sealed) or leave a child process behind, but not both.             *)
LEMMA GivesUp ==
    ASSUME TInv, Exclusive, NEW p \in Procs,
           task' = DropTasks(p), proc' = [proc EXCEPT ![p] = Idle],
           \A j \in Jobs : j \in stray' => j \in stray \/ Engaged(p, j),
           \A j \in Jobs : Free(j)' => Free(j) \/ (Engaged(p, j) /\ (j \in stray' => j \in stray))
    PROVE  Exclusive'
<1>1. proc \in [Procs -> Processes]
  BY DEF TInv, TypeOK
<1>2. \A q \in Procs, j \in Jobs :
        /\ q = p => ~Engaged(q, j)' /\ ~Sealing(q, j)'
        /\ q # p => /\ Engaged(q, j)' = Engaged(q, j) /\ Sealing(q, j)' = Sealing(q, j)
                   /\ task'[q][j] = task[q][j]
  BY <1>1, DropTyped, IdleTyped DEF Engaged, Sealing, Idle
<1> QED
  <2> SUFFICES ASSUME NEW j \in Jobs
               PROVE  /\ \A q, r \in Procs : Engaged(q, j)' /\ Engaged(r, j)' => q = r
                      /\ \A q \in Procs : Engaged(q, j)' => j \notin stray'
                      /\ \A q \in Procs : Sealing(q, j)' => task'[q][j].st = "none"
                      /\ Free(j)' => j \notin stray' /\ \A q \in Procs : ~Engaged(q, j)'
    BY DEF Exclusive
  <2>1. CASE Engaged(p, j)
    <3>1. j \notin stray /\ ~Free(j) /\ \A q \in Procs : q # p => ~Engaged(q, j)
      BY <2>1 DEF Exclusive
    <3>2. \A q \in Procs : ~Engaged(q, j)'
      BY <1>2, <3>1
    <3>3. \A q \in Procs : ~Sealing(q, j)'
      BY <1>2, <3>1 DEF Engaged
    <3> QED BY <3>1, <3>2, <3>3
  <2>2. CASE ~Engaged(p, j)
    BY <1>2, <2>2 DEF Exclusive
  <2> QED BY <2>1, <2>2

LEMMA NativeHolds ==
    ASSUME TInv, Looking, Native, [Next]_vars
    PROVE  Native'
<1> SUFFICES ASSUME native, Exclusive PROVE Exclusive'
  BY NativeSame DEF Native
<1>1. native' = native
  BY NativeSame
<1>2. ASSUME UNCHANGED <<task, proc, sealed>>, stray' \subseteq stray,
             \A j \in Jobs : claim'[j].owner = claim[j].owner
      PROVE  Exclusive'
  BY <1>2, Shrinks DEF Engaged, Sealing, Free, Exclusive
<1>3. claim \in [Jobs -> ClaimRows] /\ task \in [Procs -> [Jobs -> Tasks]] /\ proc \in [Procs -> Processes]
      /\ sealed \in [Jobs -> {"none", "owned", "quiescent"}]
  BY DEF TInv, TypeOK
<1>4. CASE UNCHANGED vars
  BY <1>2, <1>4 DEF vars
<1>5. CASE Commands
  BY <1>2, <1>5 DEF Commands, Enqueue, Cancel, Retry
<1>6. CASE Edit \/ Decay \/ Scan
  BY <1>2, <1>6 DEF Edit, Decay, Scan, rows
<1>7. ASSUME NEW j \in Jobs, Lapse(j) \/ StrayExits(j) PROVE Exclusive'
  <2>1. \A k \in Jobs : claim'[k].owner = claim[k].owner
    BY <1>3, <1>7 DEF Lapse, StrayExits, rows, ClaimRows
  <2>2. UNCHANGED <<task, proc, sealed>> /\ stray' \subseteq stray
    BY <1>7 DEF Lapse, StrayExits, rows
  <2> QED BY <1>2, <2>1, <2>2
<1>8. ASSUME NEW p \in Procs, Crash(p) PROVE Exclusive'
  <2>1. \A j \in Jobs : j \in stray' => j \in stray \/ Engaged(p, j)
    BY <1>8 DEF Crash, Pending, Engaged
  <2>2. task' = DropTasks(p) /\ proc' = [proc EXCEPT ![p] = Idle] /\ \A j \in Jobs : Free(j)' = Free(j)
    BY <1>8 DEF Crash, rows, Free
  <2> QED BY <2>1, <2>2, GivesUp
<1>9. ASSUME NEW p \in Procs, Stop(p) PROVE Exclusive'
  <2>1. task' = DropTasks(p) /\ proc' = [proc EXCEPT ![p] = Idle] /\ stray' = stray
    BY <1>9 DEF Stop
  <2>2. ASSUME NEW j \in Jobs, Free(j)' PROVE Free(j) \/ Engaged(p, j)
    <3>1. claim'[j].owner = claim[j].owner
      BY <1>3, <1>9 DEF Stop, ClaimRows
    <3>2. sealed'[j] # sealed[j] => j \in Pending(p)
      BY <1>9 DEF Stop
    <3> QED BY <2>2, <3>1, <3>2 DEF Free, Pending, Engaged
  <2> QED BY <2>1, <2>2, GivesUp
<1>10. ASSUME NEW p \in Procs, CloseRun(p) PROVE Exclusive'
  <2>1. \A q \in Procs, j \in Jobs : Sealing(q, j)' => Sealing(q, j)
    BY <1>3, <1>10 DEF CloseRun, Sealing, Idle
  <2>2. UNCHANGED <<task, sealed, claim, stray>>
    BY <1>10 DEF CloseRun, rows
  <2> QED BY <2>1, <2>2, Shrinks DEF Engaged, Free, Exclusive
<1>11. ASSUME NEW p \in Procs, NEW retries, NEW D, OpenRun(p, retries, D) PROVE Exclusive'
  <2>1. \A q \in Procs, j \in Jobs : Sealing(q, j)' => Sealing(q, j)
    BY <1>3, <1>11 DEF OpenRun, Goto, Sealing, Processes
  <2>2. UNCHANGED <<task, sealed, stray>> /\ \A j \in Jobs : claim'[j].owner = claim[j].owner
    BY <1>3, <1>11 DEF OpenRun, ClaimRows
  <2> QED BY <2>1, <2>2, Shrinks DEF Engaged, Free, Exclusive
<1>12. ASSUME NEW p \in Procs, NEW j \in Jobs, Submit(p, j) \/ RunDirect(p, j) PROVE Exclusive'
  <2>1. Acquire(p, j) /\ stray' = stray /\ proc[p].pc # "seal" /\ (proc' = proc \/ Goto(p, "pool"))
    BY <1>12 DEF Submit, RunDirect
  <2> QED BY <1>1, <2>1, AcquireExclusive
<1>13. ASSUME NEW p \in Procs, NEW j \in Jobs, Work(p, j) PROVE Exclusive'
  <2>1. PICK r : task' = [task EXCEPT ![p][j] = [st |-> "done", att |-> @.att, res |-> r]]
    BY <1>13 DEF Work
  <2>2. task[p][j].st = "busy" /\ UNCHANGED <<proc, sealed, claim, stray>>
    BY <1>13 DEF Work, rows
  <2>3. \A q \in Procs, k \in Jobs : task'[q][k].st # "none" <=> task[q][k].st # "none"
    BY <1>3, <2>1, <2>2
  <2> QED BY <2>2, <2>3, Shrinks DEF Engaged, Sealing, Free, Exclusive
<1>14. ASSUME NEW p \in Procs, NEW j \in Jobs, Check(p, j) PROVE Exclusive'
  <2>1. \A q \in Procs, k \in Jobs : Sealing(q, k)' => Sealing(q, k)
    BY <1>3, <1>14 DEF Check, Sealing, Processes
  <2>2. UNCHANGED <<task, sealed, claim, stray>>
    BY <1>14 DEF Check, rows
  <2> QED BY <2>1, <2>2, Shrinks DEF Engaged, Free, Exclusive
<1> QED
  BY <1>4, <1>5, <1>6, <1>7, <1>8, <1>9, <1>10, <1>11, <1>12, <1>13, <1>14, SealExclusive, CommitExclusive
  DEF Next, Pool, Environment

(* In a native catalog no job has two workers at a time, nor a worker next  *)
(* to a child process that a crash left behind (native_admission,           *)
(* media_mutation.rs:100).                                                  *)
THEOREM OneWorkerHolds == Spec => []OneWorker
<1>1. Init => Native
  BY DEF Init, Native, Exclusive, Engaged, Sealing, Idle, NoTask
<1>2. TInv /\ Looking /\ Native /\ [Next]_vars => Native'
  BY NativeHolds
<1>3. Native => OneWorker
  BY DEF Native, Exclusive, Engaged, OneWorker
<1> QED BY <1>1, <1>2, <1>3, Invariant, PTL DEF Spec

-----------------------------------------------------------------------------
(* Facts were read.  So were the results that wait for their commit and     *)
(* those in the caches; the revision of a requested job never changes.      *)

IsRead(p, j) == task[p][j].st = "done" /\ task[p][j].res.out = "complete"

Read ==
    /\ <<disk.rev, disk.data>> \in had
    /\ FactsWereRead
    /\ \A p \in Procs, j \in Jobs : IsRead(p, j) => <<job[j].rev, task[p][j].res.data>> \in had
    /\ \A p \in Procs : \A c \in proc[p].cache : <<c.rev, c.data>> \in had

(* No fact, result or cache entry is new; the file only gains history.      *)
LEMMA KeepsRead ==
    ASSUME Read, had \subseteq had', <<disk'.rev, disk'.data>> \in had',
           \A op \in Ops : fact'[op].status = "complete" => fact'[op] = fact[op],
           \A p \in Procs, j \in Jobs :
              IsRead(p, j)' => IsRead(p, j) /\ job'[j].rev = job[j].rev
                                /\ task'[p][j].res.data = task[p][j].res.data,
           \A p \in Procs : proc'[p].cache \subseteq proc[p].cache
    PROVE  Read'
BY DEF Read, FactsWereRead

LEMMA AcquireRead ==
    ASSUME TInv, Read, NEW p \in Procs, NEW j \in Jobs, Acquire(p, j),
           UNCHANGED <<file, results>>, \A q \in Procs : proc'[q].cache = proc[q].cache
    PROVE  Read'
<1>1. job \in [Jobs -> JobRows] /\ task \in [Procs -> [Jobs -> Tasks]]
  BY DEF TInv, TypeOK
<1>2. \A k \in Jobs : job'[k].rev = job[k].rev
  BY <1>1 DEF Acquire, JobRows
<1>3. \A q \in Procs, k \in Jobs : q # p \/ k # j => task'[q][k] = task[q][k]
  BY <1>1 DEF Acquire
<1>4. IsRead(p, j)' => <<job'[j].rev, task'[p][j].res.data>> \in had
  <2>1. CASE Hits(p, j) = {}
    <3>1. task'[p][j].st = "busy"
      BY <1>1, <2>1 DEF Acquire
    <3> QED BY <3>1 DEF IsRead
  <2>2. CASE Hits(p, j) # {}
    <3>1. task'[p][j].res.data = (CHOOSE c \in Hits(p, j) : TRUE).data
      BY <1>1, <2>2 DEF Acquire
    <3>2. <<job[j].rev, (CHOOSE c \in Hits(p, j) : TRUE).data>> \in had
      BY <2>2, HitTyped DEF TInv, Read
    <3> QED BY <1>2, <3>1, <3>2
  <2> QED BY <2>1, <2>2
<1>5. ASSUME NEW q \in Procs, NEW k \in Jobs, IsRead(q, k)'
      PROVE  <<job'[k].rev, task'[q][k].res.data>> \in had
  <2>1. CASE q = p /\ k = j
    BY <1>4, <1>5, <2>1
  <2>2. CASE ~(q = p /\ k = j)
    BY <1>2, <1>3, <1>5, <2>2 DEF Read, IsRead
  <2> QED BY <2>1, <2>2
<1>6. UNCHANGED <<disk, had, fact>>
  BY DEF file, results
<1> QED BY <1>5, <1>6 DEF Read, FactsWereRead

LEMMA WorkRead ==
    ASSUME TInv, Read, NEW p \in Procs, NEW j \in Jobs, Work(p, j)
    PROVE  Read'
<1>1. PICK r \in Reports(j) :
        task' = [task EXCEPT ![p][j] = [st |-> "done", att |-> @.att, res |-> r]]
  BY DEF Work
<1>2. task \in [Procs -> [Jobs -> Tasks]]
  BY DEF TInv, TypeOK
<1>3. UNCHANGED <<disk, had, fact, job, proc>>
  BY DEF Work, file, rows, results
<1>4. ASSUME NEW q \in Procs, NEW k \in Jobs, IsRead(q, k)'
      PROVE  <<job'[k].rev, task'[q][k].res.data>> \in had
  <2>1. CASE q = p /\ k = j
    <3>1. task'[p][j].res = r
      BY <1>1, <1>2
    <3> QED BY <1>3, <1>4, <2>1, <3>1, ReportTyped DEF TInv, Read, IsRead
  <2>2. CASE ~(q = p /\ k = j)
    <3>1. task'[q][k] = task[q][k]
      BY <1>1, <1>2, <2>2
    <3> QED BY <1>3, <1>4, <3>1 DEF Read, IsRead
  <2> QED BY <2>1, <2>2
<1> QED BY <1>3, <1>4 DEF Read, FactsWereRead

LEMMA CommitRead ==
    ASSUME TInv, Looking, Read, NEW p \in Procs, NEW j \in Jobs, Commit(p, j)
    PROVE  Read'
<1>1. job \in [Jobs -> JobRows] /\ task \in [Procs -> [Jobs -> Tasks]] /\ proc \in [Procs -> Processes]
  BY DEF TInv, TypeOK
<1>2. UNCHANGED <<disk, had>> /\ \A k \in Jobs : job'[k].rev = job[k].rev
  BY <1>1 DEF Commit, file, JobRows
<1>3. Outcome(p, j) = "complete" => <<job[j].rev, task[p][j].res.data>> \in had
  BY CommitIsDone, Completed DEF Read, IsRead
<1>4. ASSUME NEW op \in Ops, fact'[op].status = "complete"
      PROVE  <<fact'[op].rev, fact'[op].data>> \in had
  BY <1>3, <1>4, CommitFacts DEF Read, FactsWereRead
<1>5. ASSUME NEW q \in Procs, NEW k \in Jobs, IsRead(q, k)'
      PROVE  <<job'[k].rev, task'[q][k].res.data>> \in had
  <2>1. task'[q][k] = task[q][k]
    BY <1>1, <1>5, IdleTyped DEF Commit, IsRead
  <2> QED BY <1>2, <1>5, <2>1 DEF Read, IsRead
<1>6. ASSUME NEW q \in Procs, NEW c \in proc'[q].cache PROVE <<c.rev, c.data>> \in had
  <2>1. CASE c \in proc[q].cache
    BY <2>1 DEF Read
  <2>2. CASE c \notin proc[q].cache
    <3>1. Outcome(p, j) = "complete" /\ c = [op |-> job[j].op, rev |-> job[j].rev, data |-> task[p][j].res.data]
      BY <1>1, <1>6, <2>2 DEF Commit
    <3> QED BY <1>3, <3>1
  <2> QED BY <2>1, <2>2
<1> QED BY <1>2, <1>4, <1>5, <1>6 DEF Read, FactsWereRead

LEMMA ReadHolds ==
    ASSUME TInv, Looking, Read, [Next]_vars
    PROVE  Read'
<1>1. job \in [Jobs -> JobRows] /\ task \in [Procs -> [Jobs -> Tasks]] /\ proc \in [Procs -> Processes]
  BY DEF TInv, TypeOK
<1>2. ASSUME UNCHANGED <<file, fact, task>>,
             \A j \in Jobs, p \in Procs : task[p][j].st # "none" => job'[j].rev = job[j].rev,
             \A p \in Procs : proc'[p].cache = proc[p].cache
      PROVE  Read'
  BY <1>2, KeepsRead DEF Read, IsRead, file
<1>3. CASE UNCHANGED vars
  <2>1. UNCHANGED <<file, fact, task, job, proc>>
    BY <1>3 DEF vars, file
  <2> QED BY <1>2, <2>1
<1>4. ASSUME NEW op \in Ops, NEW refresh \in BOOLEAN, Enqueue(op, refresh) PROVE Read'
  <2>1. \A j \in Jobs, p \in Procs : task[p][j].st # "none" => job'[j].rev = job[j].rev
    BY <1>1, <1>4 DEF Enqueue, TInv, Requested
  <2> QED BY <1>2, <1>4, <2>1 DEF Enqueue, results
<1>5. ASSUME NEW j \in Jobs, Cancel(j) \/ Retry(j) PROVE Read'
  <2>1. job' = [job EXCEPT ![j].state = "cancelled"] \/ job' = [job EXCEPT ![j].state = "queued"]
    BY <1>5 DEF Cancel, Retry
  <2>2. \A k \in Jobs : job'[k].rev = job[k].rev
    BY <1>1, <2>1 DEF JobRows
  <2>3. UNCHANGED <<file, fact, task, proc>>
    BY <1>5 DEF Cancel, Retry, results
  <2> QED BY <1>2, <2>2, <2>3
<1>6. ASSUME NEW p \in Procs, CloseRun(p) \/ Stop(p) \/ Crash(p) PROVE Read'
  <2>1. UNCHANGED <<file, fact, job>> /\ proc' = [proc EXCEPT ![p] = Idle]
        /\ (task' = task \/ task' = DropTasks(p))
    BY <1>6 DEF CloseRun, Stop, Crash, rows, results
  <2>2. \A q \in Procs, j \in Jobs : IsRead(q, j)' => task'[q][j] = task[q][j]
    BY <2>1, DropTyped, IdleTyped DEF IsRead
  <2>3. \A q \in Procs : proc'[q].cache \subseteq proc[q].cache
    BY <1>1, <2>1 DEF Idle
  <2> QED BY <2>1, <2>2, <2>3, KeepsRead DEF Read, IsRead, file
<1>7. ASSUME NEW p \in Procs, Seal(p) PROVE Read'
  BY <1>1, <1>2, <1>7 DEF Seal, results, Processes
<1>8. ASSUME NEW p \in Procs, NEW retries, NEW D, OpenRun(p, retries, D) PROVE Read'
  <2>1. \A k \in Jobs : job'[k].rev = job[k].rev
    BY <1>1, <1>8 DEF OpenRun, JobRows
  <2>2. \A q \in Procs : proc'[q].cache = proc[q].cache
    BY <1>1, <1>8 DEF OpenRun, Goto, Processes
  <2> QED BY <1>2, <1>8, <2>1, <2>2 DEF OpenRun, results
<1>9. ASSUME NEW p \in Procs, NEW j \in Jobs, Submit(p, j) \/ RunDirect(p, j) PROVE Read'
  <2>1. Acquire(p, j) /\ UNCHANGED <<file, results>>
    BY <1>9 DEF Submit, RunDirect
  <2>2. \A q \in Procs : proc'[q].cache = proc[q].cache
    BY <1>1, <1>9 DEF Submit, RunDirect, Goto, Processes
  <2> QED BY <2>1, <2>2, AcquireRead
<1>10. ASSUME NEW p \in Procs, NEW j \in Jobs, Check(p, j) PROVE Read'
  <2>1. \A q \in Procs : proc'[q].cache = proc[q].cache
    BY <1>1, <1>10 DEF Check, Processes
  <2> QED BY <1>2, <1>10, <2>1 DEF Check, rows, results
<1>11. CASE Edit \/ Decay
  <2>1. had' = had \cup {<<disk'.rev, disk'.data>>} /\ UNCHANGED <<fact, job, task, proc>>
    BY <1>11 DEF Edit, Decay, rows, results
  <2> QED BY <2>1, KeepsRead DEF IsRead
<1>12. CASE Scan
  BY <1>12, KeepsRead DEF Scan, rows, results, Read, IsRead
<1>13. ASSUME NEW j \in Jobs, Lapse(j) \/ StrayExits(j) PROVE Read'
  BY <1>2, <1>13 DEF Lapse, StrayExits, rows, results
<1> QED
  BY <1>3, <1>4, <1>5, <1>6, <1>7, <1>8, <1>9, <1>10, <1>11, <1>12, <1>13, WorkRead, CommitRead
  DEF Next, Commands, Pool, Environment

(* What a complete fact says was read from the revision it is recorded for, *)
(* also when the run took it from its cache (public_processing.rs:610).     *)
THEOREM FactsWereReadHolds == Spec => []FactsWereRead
<1>1. Init => Read
  BY DEF Init, Read, FactsWereRead, NoFact, NoTask, Idle, IsRead
<1>2. TInv /\ Looking /\ Read /\ [Next]_vars => Read'
  BY ReadHolds
<1>3. Read => FactsWereRead
  BY DEF Read
<1> QED BY <1>1, <1>2, <1>3, Invariant, PTL DEF Spec
=============================================================================
