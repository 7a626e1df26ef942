----------------------------- MODULE RenderJobs -----------------------------
(***************************************************************************)
(* Render jobs: the durable life of one output file, from the queued job   *)
(* to the registered artifact (crates/catabolic-store/src/                 *)
(* artifact_mutation.rs, driven by crates/catabolic-runtime/src/           *)
(* artifacts.rs and renditions.rs, decided by execution.rs).               *)
(*                                                                         *)
(* Processes share one SQLite catalog and one output directory.  A process *)
(* holds the catalog's writer lock for its whole command except inside     *)
(* "detached" sections (encoding, hashing), so another process can only    *)
(* act while this one is detached or dead.  Every action is one commit or  *)
(* one file-system call, so a crash can fall between any two of them.      *)
(***************************************************************************)
EXTENDS Execution, FiniteSets

CONSTANTS
    Procs,          \* process ids
    ApiWorkers,     \* the ids running the HTTP worker loop (renditions.rs tick)
    Jobs,           \* render jobs, each with a cache key of its own
    NoProc, NoJob,
    MaxAttempts,    \* bound: attempts allocated to one job
    MaxFaults       \* bound: crashes, power losses, outages, lapsed leases, ...

ASSUME RenderAssumption ==
    /\ ApiWorkers \subseteq Procs
    /\ NoProc \notin Procs
    /\ NoJob \notin Jobs
    /\ MaxAttempts \in Nat
    /\ MaxFaults \in Nat

VARIABLES
    job,         \* processing_jobs: state and attempts
    claim,       \* execution_claims
    art,         \* processing_artifacts.state, one row per job and attempt
    registered,  \* artifacts with their files, observations and media_outputs rows
    vol,         \* the output directory as the system calls see it
    dur,         \* the output directory as a power loss would leave it
    mounted,     \* the output root is present with its ownership marker
    lock,        \* the holder of the writer lock
    proc,        \* the processes
    faults

vars == <<job, claim, art, registered, vol, dur, mounted, lock, proc, faults>>
db   == <<job, claim, art, registered>>
disk == <<vol, dur>>

Attempts == 1 .. MaxAttempts
Arts     == Jobs \X Attempts
Unfinished == {"planned", "writing", "publishing"}
ArtStates  == Unfinished \cup {"none", "ready", "failed", "interrupted"}
Contents   == {"absent", "partial", "good", "foreign"}

Detached == {"render", "checkTemp", "checkFinal"}
Working  == Detached \cup {"temp", "adopt", "intent", "publish", "rename",
                           "sync", "register", "fail"}
Sessions == {"run", "recover", "admit"}
Pcs      == Working \cup Sessions \cup {"down", "idle"}

JobRows   == [state : Phases, attempts : 0 .. MaxAttempts]
ClaimRows == [owner : Procs \cup {NoProc}, attempt : 0 .. MaxAttempts,
              lease : 0 .. LeaseTicks]
Names     == [temp : Contents, final : Contents]
Processes == [pc : Pcs, mode : {"run", "recover"}, job : Jobs \cup {NoJob},
              att : 0 .. MaxAttempts, queue : SUBSET Jobs, list : SUBSET Arts,
              resume : Jobs \cup {NoJob}]

NoWork == [pc |-> "idle", mode |-> "run", job |-> NoJob, att |-> 0,
           queue |-> {}, list |-> {}, resume |-> NoJob]
Down   == [NoWork EXCEPT !.pc = "down"]

Up        == {p \in Procs : proc[p].pc # "down"}
ArtOf(p)  == <<proc[p].job, proc[p].att>>
Fenced(p) == Fence(job[proc[p].job], claim[proc[p].job], p, proc[p].att, Up)
Owned(j)  == Live(claim[j], Up)
Pending   == {a \in Arts : art[a] \in Unfinished}
Goto(p, pc) == proc' = [proc EXCEPT ![p].pc = pc]
Fault     == faults < MaxFaults /\ faults' = faults + 1

(* finish(): the job row changes only while this attempt is its last one    *)
(* and nobody cancelled it.                                                 *)
MutFinish(a, s) ==
    job' = [job EXCEPT ![a[1]].state = IF job[a[1]].attempts = a[2] THEN s ELSE @]

Finish(a, s) ==
    job' = [job EXCEPT ![a[1]].state =
               IF job[a[1]].attempts = a[2] /\ @ # "cancelled" THEN s ELSE @]

Init ==
    /\ job = [j \in Jobs |-> [state |-> "none", attempts |-> 0]]
    /\ claim = [j \in Jobs |-> [owner |-> NoProc, attempt |-> 0, lease |-> 0]]
    /\ art = [a \in Arts |-> "none"]
    /\ registered = {}
    /\ vol = [a \in Arts |-> [temp |-> "absent", final |-> "absent"]]
    /\ dur = vol
    /\ mounted = TRUE
    /\ lock = NoProc
    /\ proc = [p \in Procs |-> NoWork]
    /\ faults = 0

-----------------------------------------------------------------------------
(* One-transaction commands of a user or of the request ledger.             *)

Enqueue(j) ==
    /\ lock = NoProc
    /\ job[j].state = "none"
    /\ job' = [job EXCEPT ![j].state = "queued"]
    /\ UNCHANGED <<claim, art, registered, disk, mounted, lock, proc, faults>>

Cancel(j) ==
    /\ lock = NoProc
    /\ CanCancel(job[j], \E n \in Attempts : art[<<j, n>>] = "publishing")
    /\ job' = [job EXCEPT ![j].state = "cancelled"]
    /\ UNCHANGED <<claim, art, registered, disk, mounted, lock, proc, faults>>

Retry(j) ==
    /\ lock = NoProc
    /\ CanRetry(job[j], \E n \in Attempts : <<j, n>> \in Pending)
    /\ job' = [job EXCEPT ![j].state = "queued"]
    /\ UNCHANGED <<claim, art, registered, disk, mounted, lock, proc, faults>>

-----------------------------------------------------------------------------
(* artifact run: take queued jobs one by one.                               *)

OpenRun(p) ==
    /\ proc[p].pc = "idle"
    /\ lock = NoProc
    /\ \A a \in Pending : Owned(a[1])
    /\ \E S \in SUBSET {j \in Jobs : job[j].state = "queued"} :
         /\ S # {}
         /\ proc' = [proc EXCEPT ![p].pc = "run", ![p].queue = S]
    /\ lock' = p
    /\ UNCHANGED <<db, disk, mounted, faults>>

Startable(j) ==
    /\ mounted
    /\ job[j].state = "queued"
    /\ \A n \in Attempts : <<j, n>> \notin Pending
    /\ CanStart(job[j], claim[j], Up)
    /\ job[j].attempts < MaxAttempts

Start(p, j) ==
    /\ proc[p].pc = "run"
    /\ j \in proc[p].queue
    /\ Startable(j)
    /\ LET n == job[j].attempts + 1 IN
         /\ job' = [job EXCEPT ![j] = [state |-> "running", attempts |-> n]]
         /\ claim' = [claim EXCEPT ![j] = Claim(p, n)]
         /\ art' = [art EXCEPT ![<<j, n>>] = "planned"]
         /\ proc' = [proc EXCEPT ![p] = [proc[p] EXCEPT !.pc = "temp", !.mode = "run",
                                           !.job = j, !.att = n, !.queue = @ \ {j}]]
    /\ UNCHANGED <<registered, disk, mounted, lock, faults>>

StartRefused(p, j) ==
    /\ proc[p].pc = "run"
    /\ j \in proc[p].queue
    /\ ~Startable(j)
    /\ proc' = [proc EXCEPT ![p].queue = @ \ {j}]
    /\ UNCHANGED <<db, disk, mounted, lock, faults>>

CloseRun(p) ==
    /\ proc[p].pc = "run"
    /\ proc[p].queue = {}
    /\ proc' = [proc EXCEPT ![p] = NoWork]
    /\ lock' = NoProc
    /\ UNCHANGED <<db, disk, mounted, faults>>

-----------------------------------------------------------------------------
(* One attempt: private temporary, detached encoding, durable intent.       *)

CreateTemp(p) ==
    /\ proc[p].pc = "temp"
    /\ IF Fenced(p) /\ mounted /\ vol[ArtOf(p)].temp = "absent"
         THEN /\ vol' = [vol EXCEPT ![ArtOf(p)].temp = "partial"]
              /\ Goto(p, "adopt")
         ELSE /\ Goto(p, "fail")
              /\ UNCHANGED vol
    /\ UNCHANGED <<db, dur, mounted, lock, faults>>

(* The row learns the temporary's inode; encoding starts detached.          *)
Adopt(p) ==
    /\ proc[p].pc = "adopt"
    /\ IF Fenced(p)
         THEN /\ art' = [art EXCEPT ![ArtOf(p)] =
                            IF @ = "planned" THEN "writing" ELSE @]
              /\ Goto(p, "render")
              /\ lock' = NoProc
         ELSE /\ Goto(p, "fail")
              /\ UNCHANGED <<art, lock>>
    /\ UNCHANGED <<job, claim, registered, disk, mounted, faults>>

(* A detached section ends: take the writer lock back, fence, and go on     *)
(* when the external work succeeded.                                        *)
Reattach(p, ok, next) ==
    /\ lock = NoProc
    /\ lock' = p
    /\ Goto(p, IF Fenced(p) /\ ok THEN next ELSE "fail")

EndRender(p) ==
    /\ proc[p].pc = "render"
    /\ \E encoded \in BOOLEAN :
         /\ Reattach(p, encoded, "intent")
         /\ vol' = [vol EXCEPT ![ArtOf(p)].temp =
                       IF encoded /\ @ = "partial" THEN "good" ELSE @]
    /\ UNCHANGED <<db, dur, mounted, faults>>

MutIntent(p) ==
    /\ proc[p].pc = "intent"
    /\ IF Fenced(p) /\ mounted /\ vol[ArtOf(p)].temp = "good" /\ art[ArtOf(p)] = "writing"
         THEN /\ art' = [art EXCEPT ![ArtOf(p)] = "publishing"]
              /\ Goto(p, "publish")
         ELSE /\ Goto(p, "fail")
              /\ UNCHANGED art
    /\ UNCHANGED <<job, claim, registered, disk, mounted, lock, faults>>

(* File and directory are synced before the intent is committed.            *)
Intent(p) ==
    /\ proc[p].pc = "intent"
    /\ dur' = [dur EXCEPT ![ArtOf(p)] = vol[ArtOf(p)]]
    /\ IF Fenced(p) /\ mounted /\ vol[ArtOf(p)].temp = "good" /\ art[ArtOf(p)] = "writing"
         THEN /\ art' = [art EXCEPT ![ArtOf(p)] = "publishing"]
              /\ Goto(p, "publish")
         ELSE /\ Goto(p, "fail")
              /\ UNCHANGED art
    /\ UNCHANGED <<job, claim, registered, vol, mounted, lock, faults>>

(* The cancel flag of the command, or a source or policy that changed since *)
(* the job was queued.  An intent outlives such a refusal: it is met again  *)
(* by the next recovery, so before registration it counts as a fault.       *)
GiveUp(p) ==
    /\ proc[p].pc \in {"temp", "intent", "register"}
    /\ IF proc[p].pc = "register" THEN Fault ELSE UNCHANGED faults
    /\ Goto(p, "fail")
    /\ UNCHANGED <<db, disk, mounted, lock>>

-----------------------------------------------------------------------------
(* publish(): verify, rename without replacement, sync, verify, register.   *)
(* The same steps serve artifact run and artifact recover.                  *)

MutPublish(p) ==
    /\ proc[p].pc = "publish"
    /\ IF Fenced(p) /\ mounted /\ art[ArtOf(p)] = "publishing"
         THEN Goto(p, "checkTemp") /\ lock' = NoProc
         ELSE Goto(p, "fail") /\ UNCHANGED lock
    /\ UNCHANGED <<db, disk, mounted, faults>>

Publish(p) ==
    /\ proc[p].pc = "publish"
    /\ IF Fenced(p) /\ mounted /\ art[ArtOf(p)] = "publishing"
         THEN /\ Goto(p, IF vol[ArtOf(p)].final = "absent" THEN "checkTemp" ELSE "checkFinal")
              /\ lock' = NoProc
         ELSE /\ Goto(p, "fail")
              /\ UNCHANGED lock
    /\ UNCHANGED <<db, disk, mounted, faults>>

CheckTemp(p) ==
    /\ proc[p].pc = "checkTemp"
    /\ Reattach(p, mounted /\ vol[ArtOf(p)].temp = "good", "rename")
    /\ UNCHANGED <<db, disk, mounted, faults>>

Rename(p) ==
    /\ proc[p].pc = "rename"
    /\ LET a == ArtOf(p) IN
         IF mounted /\ vol[a].temp # "absent" /\ vol[a].final = "absent"
           THEN /\ vol' = [vol EXCEPT ![a] = [temp |-> "absent", final |-> @.temp]]
                /\ Goto(p, "sync")
           ELSE /\ Goto(p, "fail")
                /\ UNCHANGED vol
    /\ UNCHANGED <<db, dur, mounted, lock, faults>>

Sync(p) ==
    /\ proc[p].pc = "sync"
    /\ IF mounted
         THEN dur' = [dur EXCEPT ![ArtOf(p)] = vol[ArtOf(p)]]
         ELSE UNCHANGED dur
    /\ IF mounted /\ Fenced(p)
         THEN /\ Goto(p, "checkFinal")
              /\ lock' = NoProc
         ELSE /\ Goto(p, "fail")
              /\ UNCHANGED lock
    /\ UNCHANGED <<db, vol, mounted, faults>>

MutCheckFinal(p) ==
    /\ proc[p].pc = "checkFinal"
    /\ Reattach(p, mounted /\ vol[ArtOf(p)].final = "good", "register")
    /\ UNCHANGED <<db, disk, mounted, faults>>

(* The second sync covers a rename made by a process that died before its   *)
(* own: the file it finds may not be durable yet.                           *)
CheckFinal(p) ==
    /\ proc[p].pc = "checkFinal"
    /\ LET a  == ArtOf(p)
           ok == mounted /\ vol[a].final = "good" IN
         /\ Reattach(p, ok, "register")
         /\ dur' = IF ok /\ Fenced(p) THEN [dur EXCEPT ![a] = vol[a]] ELSE dur
    /\ UNCHANGED <<db, vol, mounted, faults>>

(* Registration is one transaction: inventory rows, ready artifact, finished *)
(* job, released claim.                                                     *)
Register(p) ==
    /\ proc[p].pc = "register"
    /\ LET a == ArtOf(p) IN
         IF Fenced(p) /\ vol[a].final = "good" /\ a \notin registered
           THEN /\ art' = [art EXCEPT ![a] = "ready"]
                /\ registered' = registered \cup {a}
                /\ Finish(a, "complete")
                /\ claim' = [claim EXCEPT ![a[1]].lease = 0]
                /\ Goto(p, proc[p].mode)
           ELSE /\ Goto(p, "fail")
                /\ UNCHANGED db
    /\ UNCHANGED <<disk, mounted, lock, faults>>

MutFail(p) ==
    /\ proc[p].pc = "fail"
    /\ IF proc[p].mode = "run" /\ Fenced(p)
         THEN /\ art' = [art EXCEPT ![ArtOf(p)] = "failed"]
              /\ Finish(ArtOf(p), "failed")
              /\ claim' = [claim EXCEPT ![proc[p].job].lease = 0]
         ELSE UNCHANGED <<art, job, claim>>
    /\ Goto(p, proc[p].mode)
    /\ UNCHANGED <<registered, disk, mounted, lock, faults>>

(* An error of any step.  A run calls fail(), which needs the claim and     *)
(* spares a publication; a recovery records the error and only releases.    *)
Fail(p) ==
    /\ proc[p].pc = "fail"
    /\ LET a == ArtOf(p)
           spared == art[a] \in {"publishing", "ready"} IN
         /\ IF proc[p].mode = "run" /\ Fenced(p) /\ ~spared
              THEN /\ art' = [art EXCEPT ![a] = "failed"]
                   /\ Finish(a, "failed")
              ELSE UNCHANGED <<art, job>>
         /\ IF claim[a[1]].owner = p /\ (proc[p].mode = "recover" \/ Fenced(p))
              THEN claim' = [claim EXCEPT ![a[1]].lease = 0]
              ELSE UNCHANGED claim
    /\ Goto(p, proc[p].mode)
    /\ UNCHANGED <<registered, disk, mounted, lock, faults>>

-----------------------------------------------------------------------------
(* artifact recover: visit the unfinished artifacts listed at the start.    *)
(* Publishing one detaches, so the list can be stale for the later ones.    *)

OpenRecover(p) ==
    /\ proc[p].pc = "idle"
    /\ lock = NoProc
    /\ Pending # {}
    /\ proc' = [proc EXCEPT ![p].pc = "recover", ![p].list = Pending]
    /\ lock' = p
    /\ UNCHANGED <<db, disk, mounted, faults>>

Visiting(p, a) == proc[p].pc = "recover" /\ a \in proc[p].list
Visited(p, a)  == proc' = [proc EXCEPT ![p].list = @ \ {a}]

SkipOwned(p, a) ==
    /\ Visiting(p, a)
    /\ Owned(a[1])
    /\ Visited(p, a)
    /\ UNCHANGED <<db, disk, mounted, lock, faults>>

ResumeIntent(p, a) ==
    /\ Visiting(p, a)
    /\ art[a] = "publishing"
    /\ CanRecover(job[a[1]], claim[a[1]], a[2], Up)
    /\ claim' = [claim EXCEPT ![a[1]] = Claim(p, a[2])]
    /\ proc' = [proc EXCEPT ![p] = [proc[p] EXCEPT !.pc = "publish", !.mode = "recover",
                                      !.job = a[1], !.att = a[2], !.list = @ \ {a}]]
    /\ UNCHANGED <<job, art, registered, disk, mounted, lock, faults>>

(* "publication intent no longer matches its job attempt"                   *)
RefuseIntent(p, a) ==
    /\ Visiting(p, a)
    /\ ~Owned(a[1])
    /\ art[a] = "publishing"
    /\ ~CanRecover(job[a[1]], claim[a[1]], a[2], Up)
    /\ Visited(p, a)
    /\ UNCHANGED <<db, disk, mounted, lock, faults>>

(* The row is re-read, and whatever is not "publishing" is interrupted.     *)
Interrupt(p, a) ==
    /\ Visiting(p, a)
    /\ ~Owned(a[1])
    /\ art[a] # "publishing"
    /\ art' = [art EXCEPT ![a] = "interrupted"]
    /\ Finish(a, "failed")
    /\ Visited(p, a)
    /\ UNCHANGED <<claim, registered, disk, mounted, lock, faults>>

CloseRecover(p) ==
    /\ proc[p].pc = "recover"
    /\ proc[p].list = {}
    /\ proc[p].resume = NoJob
    /\ proc' = [proc EXCEPT ![p] = NoWork]
    /\ lock' = NoProc
    /\ UNCHANGED <<db, disk, mounted, faults>>

-----------------------------------------------------------------------------
(* One tick of the HTTP worker: select a demanded job while nobody holds a  *)
(* live claim, recover, put the job back in the queue, run it.              *)

ApiTick(p, j) ==
    /\ proc[p].pc = "idle"
    /\ lock = NoProc
    /\ job[j].state \in {"queued", "running"}
    /\ \A k \in Jobs : ~Owned(k)
    /\ proc' = [proc EXCEPT ![p].pc = "recover", ![p].list = Pending, ![p].resume = j]
    /\ lock' = p
    /\ UNCHANGED <<db, disk, mounted, faults>>

ResumeWork(p) ==
    /\ proc[p].pc = "recover"
    /\ proc[p].list = {}
    /\ proc[p].resume # NoJob
    /\ job' = [job EXCEPT ![proc[p].resume].state = IF @ = "running" THEN "queued" ELSE @]
    /\ Goto(p, "admit")
    /\ UNCHANGED <<claim, art, registered, disk, mounted, lock, faults>>

ApiRun(p) ==
    /\ proc[p].pc = "admit"
    /\ IF /\ job[proc[p].resume].state = "queued"
          /\ \A a \in Pending : Owned(a[1])
         THEN /\ proc' = [proc EXCEPT ![p] =
                             [NoWork EXCEPT !.pc = "run", !.queue = {proc[p].resume}]]
              /\ UNCHANGED lock
         ELSE /\ proc' = [proc EXCEPT ![p] = NoWork]
              /\ lock' = NoProc
    /\ UNCHANGED <<db, disk, mounted, faults>>

-----------------------------------------------------------------------------
(* Time, heartbeats and faults.                                             *)

(* The heartbeat thread opens a short session of its own while its process  *)
(* is detached.                                                             *)
Heartbeat(p) ==
    /\ proc[p].pc \in Detached
    /\ lock = NoProc
    /\ Fenced(p)
    /\ claim[proc[p].job].lease < LeaseTicks
    /\ claim' = [claim EXCEPT ![proc[p].job].lease = LeaseTicks]
    /\ UNCHANGED <<job, art, registered, disk, mounted, lock, proc, faults>>

(* Letting the lease of a working process run out is a fault: its host was  *)
(* suspended or its heartbeats could not open the catalog.                  *)
Lapses == \E p \in Procs : /\ proc[p].pc \in Working
                           /\ Fenced(p)
                           /\ claim[proc[p].job].lease = 1
Shorter(lease) == IF lease > 0 THEN lease - 1 ELSE 0

Tick ==
    /\ \E j \in Jobs : claim[j].lease > 0
    /\ claim' = [j \in Jobs |->
                   [claim[j] EXCEPT !.lease = Shorter(claim[j].lease)]]
    /\ IF Lapses THEN Fault ELSE UNCHANGED faults
    /\ UNCHANGED <<job, art, registered, disk, mounted, lock, proc>>

(* The catalog could not be reopened within 5 s because another writer was  *)
(* in: the session refuses every later call and the command ends.           *)
SessionLost(p) ==
    /\ proc[p].pc \in Detached
    /\ lock # NoProc
    /\ Fault
    /\ proc' = [proc EXCEPT ![p] = NoWork]
    /\ UNCHANGED <<db, disk, mounted, lock>>

Crash(p) ==
    /\ proc[p].pc # "down"
    /\ Fault
    /\ proc' = [proc EXCEPT ![p] = Down]
    /\ lock' = IF lock = p THEN NoProc ELSE lock
    /\ UNCHANGED <<db, disk, mounted>>

(* A new process, which may well get the process id of an old one.          *)
Restart(p) ==
    /\ proc[p].pc = "down"
    /\ proc' = [proc EXCEPT ![p] = NoWork]
    /\ UNCHANGED <<db, disk, mounted, lock, faults>>

(* SQLite commits survive; of each directory entry either version does.     *)
PowerLoss ==
    /\ Fault
    /\ \E S \in SUBSET {a \in Arts : vol[a] # dur[a]} :
         /\ vol' = [a \in Arts |-> IF a \in S THEN dur[a] ELSE vol[a]]
         /\ dur' = vol'
    /\ proc' = [p \in Procs |-> Down]
    /\ lock' = NoProc
    /\ UNCHANGED <<db, mounted>>

(* Somebody else's file under one of the two names of an unfinished output. *)
Tamper(a) ==
    /\ a \in Pending
    /\ Fault
    /\ \E name \in {"temp", "final"} :
         /\ name = "temp" => vol[a].temp # "absent"
         /\ vol' = [vol EXCEPT ![a][name] = "foreign"]
    /\ UNCHANGED <<db, dur, mounted, lock, proc>>

Unmount ==
    /\ mounted
    /\ Fault
    /\ mounted' = FALSE
    /\ UNCHANGED <<db, disk, lock, proc>>

Mount ==
    /\ ~mounted
    /\ mounted' = TRUE
    /\ UNCHANGED <<db, disk, lock, proc, faults>>

-----------------------------------------------------------------------------
Commands == \E j \in Jobs : Enqueue(j) \/ Cancel(j) \/ Retry(j)

Attempt(p) ==
    \/ CreateTemp(p) \/ Adopt(p) \/ EndRender(p) \/ Intent(p) \/ GiveUp(p)
    \/ Publish(p) \/ CheckTemp(p) \/ Rename(p) \/ Sync(p) \/ CheckFinal(p)
    \/ Register(p) \/ Fail(p)

Run(p) ==
    \/ OpenRun(p) \/ CloseRun(p)
    \/ \E j \in Jobs : Start(p, j) \/ StartRefused(p, j)

Recover(p) ==
    \/ OpenRecover(p) \/ CloseRecover(p)
    \/ \E a \in Arts : \/ SkipOwned(p, a) \/ ResumeIntent(p, a)
                       \/ RefuseIntent(p, a) \/ Interrupt(p, a)

Api(p) ==
    /\ p \in ApiWorkers
    /\ ResumeWork(p) \/ ApiRun(p) \/ \E j \in Jobs : ApiTick(p, j)

Environment ==
    \/ Tick \/ PowerLoss \/ Unmount \/ Mount
    \/ \E p \in Procs : Heartbeat(p) \/ SessionLost(p) \/ Crash(p) \/ Restart(p)
    \/ \E a \in Arts : Tamper(a)

Next ==
    \/ Commands
    \/ \E p \in Procs : Attempt(p) \/ Run(p) \/ Recover(p) \/ Api(p)
    \/ Environment

Spec == Init /\ [][Next]_vars

(* What is fair: a command that was started runs on (it is sequential code  *)
(* that waits for nothing but the writer lock, which it polls), processes   *)
(* come back, time passes, an unplugged volume is plugged in again, and     *)
(* artifact recover is run again while something is unfinished, as          *)
(* docs/ARTIFACTS.md asks the operator to.                                  *)
Proceed(p) ==
    \/ CreateTemp(p) \/ Adopt(p) \/ Intent(p) \/ Publish(p) \/ Rename(p)
    \/ Sync(p) \/ Register(p) \/ Fail(p) \/ CloseRun(p) \/ CloseRecover(p)
    \/ ResumeWork(p) \/ ApiRun(p)
    \/ \E j \in Jobs : Start(p, j) \/ StartRefused(p, j)
    \/ \E a \in Arts : \/ SkipOwned(p, a) \/ ResumeIntent(p, a)
                       \/ RefuseIntent(p, a) \/ Interrupt(p, a)

Fairness ==
    /\ \A p \in Procs :
         /\ WF_vars(Proceed(p))
         /\ SF_vars(EndRender(p) \/ CheckTemp(p) \/ CheckFinal(p))
         /\ WF_vars(Restart(p))
         /\ SF_vars(OpenRecover(p))
    /\ WF_vars(Tick)
    /\ WF_vars(Mount)

FairSpec == Spec /\ Fairness

-----------------------------------------------------------------------------
(* Properties.                                                              *)

TypeOK ==
    /\ job \in [Jobs -> JobRows]
    /\ claim \in [Jobs -> ClaimRows]
    /\ art \in [Arts -> ArtStates]
    /\ registered \in SUBSET Arts
    /\ vol \in [Arts -> Names]
    /\ dur \in [Arts -> Names]
    /\ mounted \in BOOLEAN
    /\ lock \in Procs \cup {NoProc}
    /\ proc \in [Procs -> Processes]
    /\ faults \in 0 .. MaxFaults

(* A committed publication intent pins its job: as long as the artifact is  *)
(* "publishing", the job is running that very attempt.  Otherwise recovery  *)
(* refuses the intent for ever (artifact_mutation.rs:1073-1077).            *)
IntentPinsJob ==
    \A a \in Arts : art[a] = "publishing" =>
        job[a[1]].state = "running" /\ job[a[1]].attempts = a[2]

(* A file is visible under an output name only with a durable intent or     *)
(* registration behind it, whatever crashed, failed or was cancelled.       *)
NoOrphanOutput ==
    \A a \in Arts : vol[a].final = "good" => art[a] = "publishing" \/ a \in registered

(* The intent never runs ahead of the bytes: after a power loss at any      *)
(* moment one of the two names of an intended output still has them.        *)
IntentIsDurable ==
    \A a \in Arts : art[a] = "publishing" =>
        \A d \in {vol[a], dur[a]} : {d.temp, d.final} \cap {"good", "foreign"} # {}

(* A registered output survives a power loss: its name was synced before    *)
(* the catalog said so, whoever made the rename.                            *)
RegisteredIsDurable ==
    \A a \in registered : vol[a].final = "good" /\ dur[a].final = "good"

(* One job never has two unfinished artifacts.                              *)
OneUnfinished ==
    \A a, b \in Pending : a[1] = b[1] => a = b

(* A worker whose claim was replaced changes no row any more: not the job,  *)
(* not the artifact, not the claim of its successor.                        *)
StaleWorkerIsPowerless ==
    [][\A p \in Procs :
         (/\ proc[p].pc \in Working
          /\ claim[proc[p].job].owner # p
          /\ proc'[p] # proc[p]) => UNCHANGED db]_vars

(* Nothing but a retry brings a cancelled job back.                         *)
CancelSticks ==
    [][\A j \in Jobs : job[j].state = "cancelled" /\ job'[j] # job[j] =>
         job'[j] = [job[j] EXCEPT !.state = "queued"] /\ lock = NoProc]_vars

(* Every publication intent is completed in the end, unless somebody else   *)
(* put a file under its names.                                              *)
IntentResolves ==
    \A a \in Arts : art[a] = "publishing" ~>
        (a \in registered \/ "foreign" \in {vol[a].temp, vol[a].final})

(* Work that was interrupted before its intent does not stay unfinished.    *)
UnfinishedSettles ==
    \A a \in Arts : art[a] \in {"planned", "writing"} ~>
        art[a] \notin {"planned", "writing"}

(* The promise of Publication, for every attempt's output.                  *)
Promise == INSTANCE Publication WITH
    Outputs <- Arts,
    stage <- [a \in Arts |-> IF a \in registered THEN "published"
                             ELSE IF art[a] = "publishing" THEN "intended" ELSE "idle"],
    shown <- {a \in Arts : vol[a].final = "good"}

PublicationPromise == Promise!Spec

(* docs/ARTIFACTS.md: "Interrupted work before validated publication is      *)
(* marked interrupted": never an output that was published and registered.  *)
InterruptedBeforePublication ==
    \A a \in Arts : art[a] = "interrupted" => a \notin registered

(* rendition_mutation.rs:494: the worker puts a running job back in the     *)
(* queue "only after durable artifact recovery has fenced/reconciled old    *)
(* work": no publication intent of the job is left.                         *)
RequeueAfterReconcile ==
    [][\A j \in Jobs : job[j].state = "running" /\ job'[j].state = "queued" =>
         \A n \in Attempts : art[<<j, n>>] # "publishing"]_vars
=============================================================================
