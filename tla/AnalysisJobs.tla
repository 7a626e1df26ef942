---------------------------- MODULE AnalysisJobs ----------------------------
(***************************************************************************)
(* Analysis jobs of one source file: hash, verify, probe, ...              *)
(* (crates/catabolic-store/src/media_mutation.rs), run by the worker pool  *)
(* of crates/catabolic-runtime/src/public_processing.rs or one by one by   *)
(* media.rs, and the durable facts and the checksum baseline they leave.   *)
(*                                                                         *)
(* Every action is one transaction or one look at the file.  The writer     *)
(* lock, which a process gives up only while it waits for its threads, is  *)
(* left out: it can only remove interleavings.  While threads work, the    *)
(* file is edited and decays, scans record revisions, jobs are cancelled,  *)
(* leases lapse and processes die.  In a native catalog (schema 33 and     *)
(* later) a job that was started once is admitted again only after its     *)
(* worker was joined and sealed.                                           *)
(***************************************************************************)
EXTENDS Execution, FiniteSets

CONSTANTS
    Procs, NoProc,
    Direct,         \* the processes that execute media run, not processing run
    MaxJobs,        \* bound: job rows; they are numbered in creation order
    MaxStarts,      \* bound: attempts allocated to all jobs together
    MaxRev,         \* bound: revisions of the file
    MaxFaults,      \* bound: crashes, lapsed leases, bit rot, cancellations
    Ops,            \* the operations that are requested
    Digests,        \* contents of the file; equal contents have equal digests
    Failures,       \* outcomes a processor reports besides complete and changed
    Workers,        \* worker threads of one pool
    MaxRetries      \* the largest retry_transient of a run

Checksums == {"hash", "verify"}
Builtin   == Checksums \cup {"sniff"}    \* operations without a child process

ASSUME AnalysisAssumption ==
    /\ NoProc \notin Procs
    /\ Direct \subseteq Procs
    /\ MaxJobs \in Nat /\ MaxStarts \in Nat /\ MaxRev \in Nat \ {0}
    /\ MaxFaults \in Nat /\ Workers \in Nat /\ MaxRetries \in Nat
    /\ Ops \subseteq Builtin \cup {"probe", "decode", "text"}
    /\ Failures \subseteq Terminal \ {"complete", "changed", "mismatch"}
    /\ "none" \notin Digests

VARIABLES
    native,     \* the catalog has a native schema
    disk,       \* the file: its revision and its bytes
    had,        \* history: every (revision, bytes) the file had
    inv,        \* the revision the inventory records
    job,        \* processing_jobs
    claim,      \* execution_claims
    sealed,     \* native_execution_lifetimes.state of the current claim
    due,        \* processing_retry_queue.attempt, 0 without a row
    fact,       \* file_facts of the file, one row per operation
    base,       \* content_baselines.digest
    task,       \* the worker threads of a process, by job
    proc,       \* the processes
    stray,      \* jobs with child processes that outlive their worker
    starts, faults

vars == <<native, disk, had, inv, job, claim, sealed, due, fact, base, task,
          proc, stray, starts, faults>>
file    == <<disk, had, inv>>
rows    == <<job, claim, sealed, due>>
results == <<fact, base>>

Jobs == 1 .. MaxJobs
Revs == 1 .. MaxRev
Result == [out : {"complete"}, data : Digests]
          \cup [out : {"damaged"} \cup (Terminal \ {"complete"}), data : {"none"}]

JobRows   == [state : Phases, attempts : 0 .. MaxStarts, op : Ops \cup {"none"},
              rev : 0 .. MaxRev]
ClaimRows == [owner : Procs \cup {NoProc}, attempt : 0 .. MaxStarts,
              lease : 0 .. LeaseTicks]
FactRows  == [status : {"none", "complete", "invalidated"}, job : 0 .. MaxJobs,
              rev : 0 .. MaxRev, data : Digests \cup {"none"}]
NoFact    == [status |-> "none", job |-> 0, rev |-> 0, data |-> "none"]
NoTask    == [st |-> "none"]
Tasks     == {NoTask}
             \cup [st : {"busy"}, att : 1 .. MaxStarts]
             \cup [st : {"done"}, att : 1 .. MaxStarts, res : Result]
Cached    == [op : Ops, rev : Revs, data : Digests]
Processes == [pc : {"idle", "pool", "commit", "seal"},
              cur : 0 .. MaxJobs, look : {"none", "same", "changed"},
              cache : SUBSET Cached]
Idle      == [pc |-> "idle", cur |-> 0, look |-> "none", cache |-> {}]

Pending(p) == {j \in Jobs : task[p][j].st # "none"}
Fenced(p, j) == Fence(job[j], claim[j], p, task[p][j].att, Procs)
Fault      == faults < MaxFaults /\ faults' = faults + 1
Goto(p, pc) == proc' = [proc EXCEPT ![p].pc = pc]
DropTasks(p) == [task EXCEPT ![p] = [j \in Jobs |-> NoTask]]

MutAdmitted(j) == native => claim[j].owner = NoProc \/ claim[j].lease = 0

(* native_admission: a pid is no proof of exit.  A first start needs no      *)
(* witness, any later one the sealed lifetime of the last claim.            *)
Admitted(j) ==
    native => \/ sealed[j] = "quiescent"
              \/ claim[j].owner = NoProc /\ job[j].state = "queued" /\ job[j].attempts = 0

Init ==
    /\ native \in BOOLEAN
    /\ \E d \in Digests : disk = [rev |-> 1, data |-> d] /\ had = {<<1, d>>}
    /\ inv = 1
    /\ job = [j \in Jobs |-> [state |-> "none", attempts |-> 0, op |-> "none", rev |-> 0]]
    /\ claim = [j \in Jobs |-> [owner |-> NoProc, attempt |-> 0, lease |-> 0]]
    /\ sealed = [j \in Jobs |-> "none"]
    /\ due = [j \in Jobs |-> 0]
    /\ fact = [op \in Ops |-> NoFact]
    /\ base = "none"
    /\ task = [p \in Procs |-> [j \in Jobs |-> NoTask]]
    /\ proc = [p \in Procs |-> Idle]
    /\ stray = {}
    /\ starts = 0
    /\ faults = 0

-----------------------------------------------------------------------------
(* One-transaction commands.                                                *)

(* The fact that job j left is still the current fact of its operation.     *)
Current(j) == fact[job[j].op].job = j /\ fact[job[j].op].status = "complete"

(* The newest job of the same operation and snapshot answers a request,     *)
(* unless its fact is gone, it is a finished one and a refresh was asked    *)
(* for, or the request is a verification.                                   *)
Reusable(op, refresh) ==
    LET same == {j \in Jobs : /\ job[j].op = op /\ job[j].rev = inv
                              /\ job[j].state \notin {"none", "cancelled"}}
    IN  {j \in same : /\ \A k \in same : k <= j
                      /\ job[j].state = "complete" => Current(j)
                      /\ refresh => job[j].state \in {"queued", "running"}
                      /\ op # "verify"}

Enqueue(op, refresh) ==
    /\ disk.rev = inv
    /\ Reusable(op, refresh) = {}
    /\ op = "verify" => base # "none"
    /\ \E j \in Jobs :
         /\ job[j].state = "none"
         /\ \A k \in Jobs : k < j => job[k].state # "none"
         /\ job' = [job EXCEPT ![j] = [@ EXCEPT !.state = "queued", !.op = op, !.rev = inv]]
    /\ UNCHANGED <<native, file, claim, sealed, due, results, task, proc, stray, starts, faults>>

Cancel(j) ==
    /\ CanCancel(job[j], FALSE)
    /\ Fault
    /\ job' = [job EXCEPT ![j].state = "cancelled"]
    /\ UNCHANGED <<native, file, claim, sealed, due, results, task, proc, stray, starts>>

(* A manual retry leaves the row of the automatic one behind.               *)
Retry(j) ==
    /\ Admitted(j)
    /\ CanRetry(job[j], FALSE)
    /\ job' = [job EXCEPT ![j].state = "queued"]
    /\ UNCHANGED <<native, file, claim, sealed, due, results, task, proc, stray, starts, faults>>

-----------------------------------------------------------------------------
(* processing run: reopen what is due, take back what was abandoned, then   *)
(* keep the worker threads busy.                                            *)

MutDue(retries) ==
    {j \in Jobs : due[j] # 0 /\ due[j] = job[j].attempts /\ job[j].attempts <= retries}

Due(retries) ==
    {j \in Jobs : /\ due[j] # 0 /\ due[j] = job[j].attempts
                  /\ job[j].attempts <= retries
                  /\ job[j].state \in {"failed", "timeout"}}

Abandoned == {j \in Jobs : CanReclaim(job[j], claim[j], Procs)}

Candidates == {j \in Jobs : job[j].state = "queued" /\ ~Live(claim[j], Procs)
                            /\ starts < MaxStarts}

(* prepare_run is one transaction: one refused job refuses the whole run.   *)
(* D are the rows whose retry_after has passed.  A run that finds nothing   *)
(* to do changes nothing and is left out.                                   *)
OpenRun(p, retries, D) ==
    /\ p \notin Direct
    /\ proc[p].pc = "idle"
    /\ D \subseteq Due(retries)
    /\ D \cup Abandoned \cup Candidates # {}
    /\ \A j \in D \cup {k \in Jobs : job[k].state = "running"} : Admitted(j)
    /\ job' = [j \in Jobs |-> IF j \in D \cup Abandoned
                                THEN [job[j] EXCEPT !.state = "queued"] ELSE job[j]]
    /\ due' = [j \in Jobs |-> IF j \in D THEN 0 ELSE due[j]]
    /\ claim' = [j \in Jobs |-> IF j \in Abandoned
                                  THEN [claim[j] EXCEPT !.lease = 0] ELSE claim[j]]
    /\ Goto(p, "pool")
    /\ UNCHANGED <<native, file, sealed, results, task, stray, starts, faults>>

MutHits(p, j) == {c \in proc[p].cache : c.op = job[j].op}

(* The run reuses a result it just computed for the same physical revision. *)
Hits(p, j) == {c \in proc[p].cache : c.op = job[j].op /\ c.rev = job[j].rev}

(* start: the attempt and its claim are committed before the thread runs.   *)
Acquire(p, j) ==
    /\ Admitted(j)
    /\ CanStart(job[j], claim[j], Procs)
    /\ starts < MaxStarts
    /\ LET n == job[j].attempts + 1 IN
         /\ job' = [job EXCEPT ![j].state = "running", ![j].attempts = n]
         /\ claim' = [claim EXCEPT ![j] = Claim(p, n)]
         /\ task' = [task EXCEPT ![p][j] =
                \* an unseen hit is computed, a seen one is done at once
                IF Hits(p, j) = {} THEN [st |-> "busy", att |-> n]
                ELSE [st |-> "done", att |-> n,
                      res |-> [out |-> "complete",
                               data |-> (CHOOSE c \in Hits(p, j) : TRUE).data]]]
    /\ starts' = starts + 1
    /\ sealed' = [sealed EXCEPT ![j] = IF native THEN "owned" ELSE "none"]

Submit(p, j) ==
    /\ proc[p].pc = "pool"
    /\ p \notin Direct
    /\ Cardinality(Pending(p)) < Workers
    /\ j \in Candidates
    /\ Acquire(p, j)
    /\ UNCHANGED <<native, file, due, results, proc, stray, faults>>

(* media run: one job after the other, also a running one nobody owns, and  *)
(* never with a cleanup witness.                                            *)
RunDirect(p, j) ==
    /\ p \in Direct
    /\ proc[p].pc = "idle"
    /\ Acquire(p, j)
    /\ Goto(p, "pool")
    /\ UNCHANGED <<native, file, due, results, stray, faults>>

CloseRun(p) ==
    /\ proc[p].pc = "pool"
    /\ Pending(p) = {}
    /\ p \in Direct \/ Candidates = {}
    /\ proc' = [proc EXCEPT ![p] = Idle]
    /\ UNCHANGED <<native, file, rows, results, task, stray, starts, faults>>

-----------------------------------------------------------------------------
(* A worker thread reads the file between two checks of its revision.       *)

(* Only a timeout is retryable, and only a failed decoding ("damaged")       *)
(* condemns the file's media.                                               *)
Reports(j) ==
    IF disk.rev # job[j].rev
      THEN {[out |-> "changed", data |-> "none"]}
      ELSE {[out |-> "complete", data |-> disk.data]}
           \cup [out : Failures, data : {"none"}]
           \cup {r \in {[out |-> "damaged", data |-> "none"]} :
                    job[j].op \in {"probe", "decode"}}

Work(p, j) ==
    /\ task[p][j].st = "busy"
    /\ \E r \in Reports(j) :
         task' = [task EXCEPT ![p][j] = [st |-> "done", att |-> @.att, res |-> r]]
    /\ UNCHANGED <<native, file, rows, results, proc, stray, starts, faults>>

-----------------------------------------------------------------------------
(* complete: judge the result, then commit it under the claim's fence.      *)

MutStillCurrent(p, j) == proc[p].look = "same"

(* The first look and the inventory as the transaction sees it.             *)
StillCurrent(p, j) == proc[p].look = "same" /\ inv = job[j].rev

Judged(p, j) ==
    LET out == task[p][j].res.out
    IN  IF out \in {"complete", "damaged"} /\ ~StillCurrent(p, j) THEN "changed"
        ELSE IF out = "damaged" THEN "failed" ELSE out

MutAgrees(j, r) == TRUE

(* A digest agrees with the preserved baseline, or establishes it.          *)
Agrees(j, r) == job[j].op \in Checksums => base \in {"none", r.data}

Outcome(p, j) ==
    IF Judged(p, j) = "complete" /\ ~Agrees(j, task[p][j].res) THEN "mismatch"
    ELSE Judged(p, j)

Invalidated(f) == IF f.status = "none" THEN f ELSE [f EXCEPT !.status = "invalidated"]

Facts(p, j) ==
    LET r == task[p][j].res
        wiped == \/ r.out = "damaged" /\ StillCurrent(p, j)
                 \/ Outcome(p, j) = "mismatch"
    IN  [op \in Ops |->
           IF op = job[j].op /\ Outcome(p, j) = "complete"
             THEN [status |-> "complete", job |-> j, rev |-> job[j].rev, data |-> r.data]
             ELSE IF wiped THEN Invalidated(fact[op]) ELSE fact[op]]

RetryRow(out, n) == IF out = "timeout" /\ n <= 10 THEN n ELSE 0

Witnessed(p, j) == native /\ p \notin Direct /\ job[j].op \in Builtin

(* The first look, outside the transaction: the inventory and the file      *)
(* itself must still show the job's revision.                               *)
Check(p, j) ==
    /\ proc[p].pc = "pool"
    /\ task[p][j].st = "done"
    /\ proc' = [proc EXCEPT ![p] =
          [@ EXCEPT !.pc = "commit", !.cur = j,
                    !.look = IF inv = job[j].rev /\ disk.rev = job[j].rev
                               THEN "same" ELSE "changed"]]
    /\ UNCHANGED <<native, file, rows, results, task, stray, starts, faults>>

(* The transaction: fence, facts, baseline, job, retry row and claim.       *)
Commit(p, j) ==
    /\ proc[p].pc = "commit"
    /\ proc[p].cur = j
    /\ LET r == task[p][j].res
           out == Outcome(p, j)
           stored == IF out = "complete" /\ p \notin Direct
                       THEN {[op |-> job[j].op, rev |-> job[j].rev, data |-> r.data]} ELSE {}
       IN
         /\ CanFinish(job[j], claim[j], p, task[p][j].att, Procs, out)
         /\ fact' = Facts(p, j)
         /\ base' = IF out = "complete" /\ job[j].op \in Checksums THEN r.data ELSE base
         /\ job' = [job EXCEPT ![j].state = out]
         /\ due' = [due EXCEPT ![j] = RetryRow(out, task[p][j].att)]
         /\ proc' = [proc EXCEPT ![p] =
               [pc    |-> IF Witnessed(p, j) THEN "seal" ELSE "pool",
                cur   |-> IF Witnessed(p, j) THEN j ELSE 0,
                look  |-> "none",
                cache |-> proc[p].cache \cup stored]]
    /\ claim' = [claim EXCEPT ![j].lease = 0]
    /\ task' = [task EXCEPT ![p][j] = NoTask]
    /\ UNCHANGED <<native, file, sealed, stray, starts, faults>>

(* The claim row is still the one that p's thread was started with.         *)
Holds(p, j, n) == claim[j].owner = p /\ claim[j].attempt = n

(* The joined worker's lifetime is sealed in a transaction of its own.      *)
Seal(p) ==
    /\ proc[p].pc = "seal"
    /\ sealed' = [sealed EXCEPT ![proc[p].cur] = "quiescent"]
    /\ proc' = [proc EXCEPT ![p].pc = "pool", ![p].cur = 0]
    /\ UNCHANGED <<native, file, job, claim, due, results, task, stray, starts, faults>>

-----------------------------------------------------------------------------
(* A run that is cancelled or meets an error (a claim that was replaced, a  *)
(* job that may not be admitted) joins every worker first, then seals or    *)
(* releases what it still holds.  The jobs stay "running" for the next run. *)

MustStop(p) ==
    \/ proc[p].pc = "commit" /\ ~Fenced(p, proc[p].cur)
    \/ proc[p].pc = "pool" /\ \E j \in Candidates : ~Admitted(j)

Stop(p) ==
    /\ proc[p].pc \in {"pool", "commit"}
    /\ proc[p].pc = "commit" => MustStop(p)
    /\ LET mine == {j \in Pending(p) : Holds(p, j, task[p][j].att)} IN
         /\ claim' = [j \in Jobs |-> IF j \in mine THEN [claim[j] EXCEPT !.lease = 0] ELSE claim[j]]
         /\ sealed' = [j \in Jobs |-> IF j \in mine /\ Witnessed(p, j) THEN "quiescent" ELSE sealed[j]]
    /\ task' = DropTasks(p)
    /\ proc' = [proc EXCEPT ![p] = Idle]
    /\ UNCHANGED <<native, file, job, due, results, stray, starts, faults>>

-----------------------------------------------------------------------------
(* The file, the scans, time and faults.                                    *)

Edit ==
    /\ disk.rev < MaxRev
    /\ \E d \in Digests : disk' = [rev |-> disk.rev + 1, data |-> d]
    /\ had' = had \cup {<<disk'.rev, disk'.data>>}
    /\ UNCHANGED <<native, inv, rows, results, task, proc, stray, starts, faults>>

(* The bytes decay under an unchanged revision.                             *)
Decay ==
    /\ Fault
    /\ \E d \in Digests \ {disk.data} : disk' = [disk EXCEPT !.data = d]
    /\ had' = had \cup {<<disk'.rev, disk'.data>>}
    /\ UNCHANGED <<native, inv, rows, results, task, proc, stray, starts>>

(* A scan commits a revision it saw; a second edit may already be there.    *)
Scan ==
    /\ inv < disk.rev
    /\ inv' \in (inv + 1) .. disk.rev
    /\ UNCHANGED <<native, disk, had, rows, results, task, proc, stray, starts, faults>>

(* A lease runs out, or its process id is found dead.  The pool and the     *)
(* heartbeat thread renew the claims of running workers in time, so for     *)
(* them it is a fault (a suspended host).                                   *)
Lapse(j) ==
    /\ claim[j].lease > 0
    /\ IF \E p \in Procs : task[p][j].st # "none" /\ Fenced(p, j)
         THEN Fault ELSE UNCHANGED faults
    /\ claim' = [claim EXCEPT ![j].lease = 0]
    /\ UNCHANGED <<native, file, job, sealed, due, results, task, proc, stray, starts>>

(* A process dies, or its session could not reopen the catalog: nothing is  *)
(* released, and of a dead process children may live on.  The next process  *)
(* may get its process id.                                                  *)
Crash(p) ==
    /\ proc[p].pc # "idle"
    /\ Fault
    /\ proc' = [proc EXCEPT ![p] = Idle]
    /\ \E S \in SUBSET {j \in Pending(p) : task[p][j].st = "busy" /\ job[j].op \notin Builtin} :
         stray' = stray \cup S
    /\ task' = DropTasks(p)
    /\ UNCHANGED <<native, file, rows, results, starts>>

StrayExits(j) ==
    /\ j \in stray
    /\ stray' = stray \ {j}
    /\ UNCHANGED <<native, file, rows, results, task, proc, starts, faults>>

Pool(p) ==
    \/ CloseRun(p) \/ Seal(p) \/ Stop(p)
    \/ \E retries \in 0 .. MaxRetries : \E D \in SUBSET Due(retries) : OpenRun(p, retries, D)
    \/ \E j \in Jobs : Submit(p, j) \/ RunDirect(p, j) \/ Work(p, j)
                         \/ Check(p, j) \/ Commit(p, j)

Commands ==
    \/ \E op \in Ops, refresh \in BOOLEAN : Enqueue(op, refresh)
    \/ \E j \in Jobs : Cancel(j) \/ Retry(j)

Environment ==
    \/ Edit \/ Decay \/ Scan
    \/ \E j \in Jobs : Lapse(j) \/ StrayExits(j)
    \/ \E p \in Procs : Crash(p)

Next == Commands \/ (\E p \in Procs : Pool(p)) \/ Environment

Spec == Init /\ [][Next]_vars

-----------------------------------------------------------------------------
(* Properties.                                                              *)

TypeOK ==
    /\ native \in BOOLEAN
    /\ disk \in [rev : Revs, data : Digests]
    /\ had \in SUBSET (Revs \X Digests)
    /\ inv \in Revs
    /\ job \in [Jobs -> JobRows]
    /\ claim \in [Jobs -> ClaimRows]
    /\ sealed \in [Jobs -> {"none", "owned", "quiescent"}]
    /\ due \in [Jobs -> 0 .. MaxStarts]
    /\ fact \in [Ops -> FactRows]
    /\ base \in Digests \cup {"none"}
    /\ task \in [Procs -> [Jobs -> Tasks]]
    /\ proc \in [Procs -> Processes]
    /\ stray \subseteq Jobs
    /\ starts \in 0 .. MaxStarts
    /\ faults \in 0 .. MaxFaults

(* A late result never replaces a fact about a newer revision, and no fact  *)
(* is recorded for a revision the inventory does not show, however long the *)
(* worker ran and whatever was scanned meanwhile (media_mutation.rs:581).   *)
FactsNeverOlder ==
    [][\A op \in Ops : fact'[op].status = "complete" /\ fact'[op] # fact[op] =>
         fact'[op].rev = inv /\ fact'[op].rev >= fact[op].rev]_vars

(* What a fact says was read from the revision it is recorded for, also     *)
(* when the run took the result from its cache (public_processing.rs:317).  *)
FactsWereRead ==
    \A op \in Ops : fact[op].status = "complete" => <<fact[op].rev, fact[op].data>> \in had

(* The first checksum stays the baseline, and whatever was edited, decayed  *)
(* or recomputed, no current checksum fact disagrees with it.               *)
BaselineHolds ==
    [][/\ base # "none" => base' = base
       /\ \A op \in Ops \cap Checksums :
            fact'[op].status = "complete" => fact'[op].data = base']_vars

(* In a native catalog no job has two workers at a time, not even a child   *)
(* that outlived a crashed process.                                         *)
OneWorker ==
    native => \A j \in Jobs :
        /\ \A p, q \in Procs : task[p][j].st = "busy" /\ task[q][j].st = "busy" => p = q
        /\ j \in stray => \A p \in Procs : task[p][j].st # "busy"

(* A cancelled job stays cancelled: no late result, no reclaim and no due   *)
(* row that an earlier attempt left behind reopens it, only a new request   *)
(* to retry it does (media_mutation.rs:729).                                *)
CancelHolds ==
    [][\A j \in Jobs : job[j].state = "cancelled" /\ job'[j] # job[j] =>
         job'[j].state = "queued" /\ UNCHANGED <<due, proc, task>>]_vars
=============================================================================
