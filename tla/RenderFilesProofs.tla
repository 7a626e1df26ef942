-------------------------- MODULE RenderFilesProofs --------------------------
(***************************************************************************)
(* The theorems of RenderJobs that relate the rows of the catalog to the   *)
(* files of the output directory: durability of the intent, no orphaned    *)
(* output, durable registration, and the implementation of Publication.    *)
(***************************************************************************)
EXTENDS RenderJobsProofs

USE RenderAssumption, LeaseAssumption

-----------------------------------------------------------------------------
(* Who changes a process record.                                            *)

Own(p) ==
    \/ Attempt(p) \/ Run(p) \/ Recover(p)
    \/ p \in ApiWorkers /\ Api(p)
    \/ SessionLost(p) \/ Crash(p) \/ Restart(p) \/ PowerLoss

LEMMA Goes ==
    ASSUME IndType, NEW p \in Procs, NEW pc, Goto(p, pc)
    PROVE  /\ proc'[p].pc = pc
           /\ proc'[p].job = proc[p].job
           /\ proc'[p].att = proc[p].att
BY DEF IndType, TypeOK, Processes, Goto

LEMMA AttemptGoes ==
    ASSUME NEW p \in Procs, Attempt(p)
    PROVE  \E pc : Goto(p, pc)
BY DEF Attempt, CreateTemp, Adopt, EndRender, Intent, GiveUp, Publish, CheckTemp,
   Rename, Sync, CheckFinal, Register, Fail, Reattach

LEMMA ProcSteps ==
    ASSUME IndType, [Next]_vars, NEW p \in Procs, proc'[p] # proc[p]
    PROVE  Own(p)
<1>t. proc \in [Procs -> Processes]
  BY DEF IndType, TypeOK
<1>1. CASE UNCHANGED vars
  BY <1>1 DEF vars
<1>2. CASE Commands
  BY <1>2 DEF Commands, Enqueue, Cancel, Retry
<1>3. ASSUME NEW q \in Procs, Attempt(q) PROVE Own(p)
  <2>1. PICK pc : Goto(q, pc)
    BY <1>3, AttemptGoes
  <2>2. q = p
    BY <2>1, <1>t DEF Goto
  <2> QED
    BY <2>2, <1>3 DEF Own
<1>4. ASSUME NEW q \in Procs, Run(q) PROVE Own(p)
  <2>1. \E r : proc' = [proc EXCEPT ![q] = r]
    BY <1>4, <1>t DEF Run, OpenRun, CloseRun, Start, StartRefused
  <2>2. q = p
    BY <2>1, <1>t
  <2> QED
    BY <2>2, <1>4 DEF Own
<1>5. ASSUME NEW q \in Procs, Recover(q) PROVE Own(p)
  <2>1. \E r : proc' = [proc EXCEPT ![q] = r]
    <3>1. CASE OpenRecover(q) \/ CloseRecover(q)
      BY <3>1, <1>t DEF OpenRecover, CloseRecover
    <3>2. ASSUME NEW a \in Arts, SkipOwned(q, a) \/ RefuseIntent(q, a) \/ Interrupt(q, a)
          PROVE  \E r : proc' = [proc EXCEPT ![q] = r]
      <4>1. Visited(q, a)
        BY <3>2 DEF SkipOwned, RefuseIntent, Interrupt
      <4> QED
        BY <4>1, <1>t DEF Visited
    <3>3. ASSUME NEW a \in Arts, ResumeIntent(q, a)
          PROVE  \E r : proc' = [proc EXCEPT ![q] = r]
      BY <3>3 DEF ResumeIntent
    <3> QED
      BY <1>5, <3>1, <3>2, <3>3 DEF Recover
  <2>2. q = p
    BY <2>1, <1>t
  <2> QED
    BY <2>2, <1>5 DEF Own
<1>6. ASSUME NEW q \in Procs, Api(q) PROVE Own(p)
  <2>1. \E r : proc' = [proc EXCEPT ![q] = r]
    BY <1>6, <1>t DEF Api, ApiTick, ResumeWork, ApiRun, Goto
  <2>2. q = p
    BY <2>1, <1>t
  <2> QED
    BY <2>2, <1>6 DEF Own, Api
<1>7. CASE Environment
  <2>1. CASE Tick \/ Unmount \/ Mount
    BY <2>1 DEF Tick, Unmount, Mount
  <2>2. CASE PowerLoss
    BY <2>2 DEF Own
  <2>3. ASSUME NEW q \in Procs, Heartbeat(q) PROVE Own(p)
    BY <2>3 DEF Heartbeat
  <2>4. ASSUME NEW q \in Procs, SessionLost(q) \/ Crash(q) \/ Restart(q) PROVE Own(p)
    <3>1. q = p
      BY <2>4, <1>t DEF SessionLost, Crash, Restart
    <3> QED
      BY <2>4, <3>1 DEF Own
  <2>5. ASSUME NEW a \in Arts, Tamper(a) PROVE Own(p)
    BY <2>5 DEF Tamper
  <2> QED
    BY <1>7, <2>1, <2>2, <2>3, <2>4, <2>5 DEF Environment
<1> QED
  BY <1>1, <1>2, <1>3, <1>4, <1>5, <1>6, <1>7 DEF Next

(* A step of a process at work is a step of its attempt, or its end.        *)
LEMMA WorkSteps ==
    ASSUME NEW p \in Procs, Own(p), proc[p].pc \in Working
    PROVE  Attempt(p) \/ SessionLost(p) \/ Crash(p) \/ PowerLoss
<1> USE DEF Working, Detached
<1>1. ~Run(p)
  BY DEF Run, OpenRun, CloseRun, Start, StartRefused
<1>2. ~Api(p)
  BY DEF Api, ApiTick, ResumeWork, ApiRun
<1>3. ~Recover(p)
  BY DEF Recover, OpenRecover, CloseRecover, SkipOwned, ResumeIntent, RefuseIntent,
     Interrupt, Visiting
<1>4. ~Restart(p)
  BY DEF Restart
<1> QED
  BY <1>1, <1>2, <1>3, <1>4 DEF Own

(* A worker whose claim was replaced writes no row any more, whichever step *)
(* of its attempt it still takes.                                           *)
THEOREM StaleWorkerIsPowerlessHolds == Spec => StaleWorkerIsPowerless
<1> DEFINE Powerless == \A p \in Procs :
             (/\ proc[p].pc \in Working
              /\ claim[proc[p].job].owner # p
              /\ proc'[p] # proc[p]) => UNCHANGED db
<1>1. IndType /\ [Next]_vars => Powerless
  <2> SUFFICES ASSUME IndType, [Next]_vars, NEW p \in Procs,
                      proc[p].pc \in Working, claim[proc[p].job].owner # p,
                      proc'[p] # proc[p]
               PROVE  UNCHANGED db
    OBVIOUS
  <2>1. ~Fenced(p)
    BY FencedJob
  <2>2. CASE Attempt(p)
    <3>1. CASE CreateTemp(p) \/ EndRender(p) \/ GiveUp(p) \/ Publish(p) \/ CheckTemp(p)
      BY <3>1 DEF CreateTemp, EndRender, GiveUp, Publish, CheckTemp
    <3>2. CASE Rename(p) \/ Sync(p) \/ CheckFinal(p) \/ Register(p)
      BY <2>1, <3>2 DEF Rename, Sync, CheckFinal, Register
    <3>3. CASE Adopt(p) \/ Intent(p)
      BY <2>1, <3>3 DEF Adopt, Intent, db
    <3>4. CASE Fail(p)
      BY <2>1, <3>4 DEF Fail, ArtOf, db
    <3> QED
      BY <2>2, <3>1, <3>2, <3>3, <3>4 DEF Attempt
  <2>3. CASE SessionLost(p) \/ Crash(p) \/ PowerLoss
    BY <2>3 DEF SessionLost, Crash, PowerLoss
  <2> QED
    BY <2>2, <2>3, ProcSteps, WorkSteps
<1> QED
  BY <1>1, TypeInvariant, PTL DEF Spec, StaleWorkerIsPowerless

-----------------------------------------------------------------------------
(* The writer lock: whoever is inside a session has it.                     *)

Inside == (Working \ Detached) \cup Sessions

LockOK == \A p \in Procs : proc[p].pc \in Inside => lock = p

LEMMA LockAttempt ==
    ASSUME IndType, NEW p \in Procs, Attempt(p)
    PROVE  /\ lock \in {p, NoProc} \/ proc[p].pc \in Inside
           /\ lock' \in {p, NoProc} \/ lock' = lock
           /\ proc'[p].pc \in Inside => lock' = p \/ (lock' = lock /\ proc[p].pc \in Inside)
<1> USE DEF Pcs, Working, Detached, Sessions, Inside
<1>t. proc \in [Procs -> Processes] /\ proc[p].mode \in {"run", "recover"}
  BY DEF IndType, TypeOK, Processes
<1>1. CASE CreateTemp(p) \/ Adopt(p) \/ GiveUp(p) \/ Publish(p)
  <2>1. proc[p].pc \in Inside /\ lock' \in {lock, NoProc}
    BY <1>1 DEF CreateTemp, Adopt, GiveUp, Publish
  <2>2. lock' = lock \/ proc'[p].pc \in Detached
    <3>1. CASE Adopt(p)
      BY <3>1, Goes DEF Adopt
    <3>2. CASE Publish(p)
      BY <3>2, Goes DEF Publish
    <3>3. CASE CreateTemp(p) \/ GiveUp(p)
      BY <3>3 DEF CreateTemp, GiveUp
    <3> QED
      BY <1>1, <3>1, <3>2, <3>3
  <2> QED
    BY <2>1, <2>2
<1>2. CASE Intent(p) \/ Rename(p) \/ Sync(p)
  <2>1. proc[p].pc \in Inside /\ lock' \in {lock, NoProc}
    BY <1>2 DEF Intent, Rename, Sync
  <2>2. lock' = lock \/ proc'[p].pc \in Detached
    <3>1. CASE Sync(p)
      BY <3>1, Goes DEF Sync
    <3>2. CASE Intent(p) \/ Rename(p)
      BY <3>2 DEF Intent, Rename
    <3> QED
      BY <1>2, <3>1, <3>2
  <2> QED
    BY <2>1, <2>2
<1>3. CASE EndRender(p) \/ CheckTemp(p) \/ CheckFinal(p)
  <2>1. lock = NoProc /\ lock' = p
    BY <1>3 DEF EndRender, CheckTemp, CheckFinal, Reattach
  <2> QED
    BY <2>1
<1>4. CASE Register(p) \/ Fail(p)
  <2>1. lock' = lock /\ proc[p].pc \in Inside
    BY <1>4 DEF Register, Fail
  <2> QED
    BY <2>1
<1> QED
  BY <1>1, <1>2, <1>3, <1>4 DEF Attempt

LEMMA LockOther ==
    ASSUME IndType, NEW p \in Procs, Run(p) \/ Recover(p) \/ Api(p)
    PROVE  /\ (lock = NoProc /\ lock' = p) \/ proc[p].pc \in Inside
           /\ lock' \in {p, NoProc} \/ lock' = lock
           /\ proc'[p].pc \in Inside => lock' = p \/ (lock' = lock /\ proc[p].pc \in Inside)
<1> USE DEF Pcs, Working, Detached, Sessions, Inside
<1>t. proc \in [Procs -> Processes]
  BY DEF IndType, TypeOK
<1>1. CASE Run(p)
  <2>1. CASE OpenRun(p)
    BY <2>1 DEF OpenRun
  <2>2. CASE CloseRun(p)
    BY <2>2, <1>t DEF CloseRun, NoWork
  <2>3. ASSUME NEW j \in Jobs, Start(p, j) \/ StartRefused(p, j)
        PROVE  lock' = lock /\ proc[p].pc \in Inside
    BY <2>3 DEF Start, StartRefused
  <2> QED
    BY <1>1, <2>1, <2>2, <2>3 DEF Run
<1>2. CASE Recover(p)
  <2>1. CASE OpenRecover(p) \/ CloseRecover(p)
    BY <2>1, <1>t DEF OpenRecover, CloseRecover, NoWork
  <2>2. ASSUME NEW a \in Arts,
               \/ SkipOwned(p, a) \/ RefuseIntent(p, a)
               \/ Interrupt(p, a) \/ ResumeIntent(p, a)
        PROVE  lock' = lock /\ proc[p].pc \in Inside
    BY <2>2 DEF SkipOwned, RefuseIntent, Interrupt, ResumeIntent, Visiting
  <2> QED
    BY <1>2, <2>1, <2>2 DEF Recover
<1>3. CASE Api(p)
  BY <1>3, <1>t DEF Api, ApiTick, ResumeWork, ApiRun, Goto, NoWork
<1> QED
  BY <1>1, <1>2, <1>3

LEMMA LockSteps ==
    ASSUME [Next]_vars
    PROVE  \/ UNCHANGED lock
           \/ PowerLoss
           \/ \E p \in Procs : Attempt(p) \/ Run(p) \/ Recover(p) \/ Api(p) \/ Crash(p)
<1>1. CASE UNCHANGED vars
  BY <1>1 DEF vars
<1>2. CASE Commands
  BY <1>2 DEF Commands, Enqueue, Cancel, Retry
<1>3. CASE Environment
  BY <1>3 DEF Environment, Tick, Unmount, Mount, Heartbeat, SessionLost, Restart, Tamper
<1> QED
  BY <1>1, <1>2, <1>3 DEF Next

LEMMA LockStep == IndType /\ LockOK /\ [Next]_vars => LockOK'
<1> SUFFICES ASSUME IndType, LockOK, [Next]_vars, NEW p \in Procs,
                    proc'[p].pc \in Inside
             PROVE  lock' = p
  BY DEF LockOK
<1>t. proc \in [Procs -> Processes] /\ p # NoProc
  BY DEF IndType, TypeOK
<1>d. ~PowerLoss /\ ~Crash(p) /\ ~SessionLost(p) /\ ~Restart(p)
  BY <1>t DEF PowerLoss, Crash, SessionLost, Restart, NoWork, Down, Inside, Working,
     Detached, Sessions
<1>1. CASE proc'[p] = proc[p]
  <2>1. lock = p /\ proc[p].pc \in Inside
    BY <1>1 DEF LockOK
  <2>2. CASE UNCHANGED lock
    BY <2>1, <2>2
  <2>3. ASSUME NEW q \in Procs, Attempt(q) \/ Run(q) \/ Recover(q) \/ Api(q)
        PROVE  lock' = p
    <3>1. q = p
      BY <2>1, <2>3, <1>t, LockAttempt, LockOther DEF LockOK
    <3> QED
      BY <2>1, <2>3, <3>1, <1>1, LockAttempt, LockOther
  <2>4. ASSUME NEW q \in Procs, Crash(q) PROVE lock' = p
    BY <2>1, <2>4, <1>d DEF Crash
  <2> QED
    BY <2>2, <2>3, <2>4, <1>d, LockSteps
<1>2. CASE proc'[p] # proc[p]
  <2>1. Attempt(p) \/ Run(p) \/ Recover(p) \/ Api(p)
    BY <1>2, <1>d, ProcSteps DEF Own
  <2> QED
    BY <2>1, LockAttempt, LockOther DEF LockOK
<1> QED
  BY <1>1, <1>2

-----------------------------------------------------------------------------
(* A lost fence is lost for good: no step of another process or of time     *)
(* makes the claim of a working process valid again.                        *)

LEMMA ClaimSteps ==
    ASSUME IndType, [Next]_vars, NEW j \in Jobs, claim'[j] # claim[j]
    PROVE  \/ \E q \in Procs : claim'[j].owner = q /\ proc[q].pc \in {"run", "recover"}
           \/ claim'[j].lease = 0
           \/ \E q \in Procs : Heartbeat(q) /\ proc[q].job = j
                               /\ claim'[j].owner = claim[j].owner
                               /\ claim'[j].attempt = claim[j].attempt
           \/ /\ claim[j].lease > 0
              /\ claim'[j].owner = claim[j].owner
              /\ claim'[j].attempt = claim[j].attempt
<1>t. claim \in [Jobs -> ClaimRows]
  BY DEF IndType, TypeOK
<1> DEFINE G == \/ \E q \in Procs : claim'[j].owner = q /\ proc[q].pc \in {"run", "recover"}
                \/ claim'[j].lease = 0
                \/ \E q \in Procs : Heartbeat(q) /\ proc[q].job = j
                                    /\ claim'[j].owner = claim[j].owner
                                    /\ claim'[j].attempt = claim[j].attempt
                \/ /\ claim[j].lease > 0
                   /\ claim'[j].owner = claim[j].owner
                   /\ claim'[j].attempt = claim[j].attempt
<1>1. CASE UNCHANGED vars
  BY <1>1 DEF vars
<1>2. CASE Commands
  BY <1>2 DEF Commands, Enqueue, Cancel, Retry
<1>3. ASSUME NEW q \in Procs, Attempt(q) PROVE G
  <2>1. CASE Register(q) \/ Fail(q)
    BY <2>1, <1>t DEF Register, Fail, db, ClaimRows
  <2> QED
    BY <1>3, <2>1 DEF Attempt, CreateTemp, Adopt, EndRender, Intent, GiveUp, Publish,
       CheckTemp, Rename, Sync, CheckFinal, db
<1>4. ASSUME NEW q \in Procs, Run(q) PROVE G
  <2>1. ASSUME NEW k \in Jobs, Start(q, k) PROVE G
    BY <2>1, <1>t DEF Start, Claim
  <2> QED
    BY <1>4, <2>1 DEF Run, OpenRun, CloseRun, StartRefused, db
<1>5. ASSUME NEW q \in Procs, Recover(q) PROVE G
  <2>1. CASE OpenRecover(q) \/ CloseRecover(q)
    BY <2>1 DEF OpenRecover, CloseRecover, db
  <2>2. ASSUME NEW a \in Arts, SkipOwned(q, a) \/ RefuseIntent(q, a) \/ Interrupt(q, a)
        PROVE  UNCHANGED claim
    BY <2>2 DEF SkipOwned, RefuseIntent, Interrupt, db
  <2>3. ASSUME NEW a \in Arts, ResumeIntent(q, a) PROVE G
    <3>1. proc[q].pc = "recover" /\ claim' = [claim EXCEPT ![a[1]] = Claim(q, a[2])]
      BY <2>3 DEF ResumeIntent, Visiting
    <3> QED
      BY <3>1, <1>t DEF Claim
  <2> QED
    BY <1>5, <2>1, <2>2, <2>3 DEF Recover
<1>6. ASSUME NEW q \in Procs, Api(q) PROVE G
  BY <1>6 DEF Api, ApiTick, ResumeWork, ApiRun, db
<1>7. CASE Environment
  <2>1. CASE Tick
    <3>1. claim'[j] = [claim[j] EXCEPT !.lease = Shorter(claim[j].lease)]
      BY <2>1 DEF Tick
    <3> QED
      BY <3>1, <1>t DEF ClaimRows, Shorter
  <2>2. ASSUME NEW q \in Procs, Heartbeat(q) PROVE G
    BY <2>2, <1>t DEF Heartbeat, ClaimRows
  <2> QED
    BY <1>7, <2>1, <2>2 DEF Environment, PowerLoss, Unmount, Mount, SessionLost, Crash,
       Restart, Tamper, db
<1> QED
  BY <1>1, <1>2, <1>3, <1>4, <1>5, <1>6, <1>7 DEF Next

LEMMA JobSteps ==
    ASSUME IndType, [Next]_vars, NEW j \in Jobs,
           job'[j] # job[j], job'[j].state = "running"
    PROVE  \E q \in Procs : claim'[j].owner = q /\ proc[q].pc = "run"
<1>t. /\ job \in [Jobs -> JobRows] /\ claim \in [Jobs -> ClaimRows] /\ WorkOK
      /\ job[j] \in JobRows
  BY DEF IndType, TypeOK
<1>1. CASE UNCHANGED <<job, art, registered>>
  BY <1>1
<1>2. ASSUME NEW k \in Jobs, Enqueue(k) \/ Cancel(k) \/ Retry(k) PROVE FALSE
  BY <1>2, <1>t DEF Enqueue, Cancel, Retry, JobRows
<1>3. ASSUME NEW q \in Procs, Adopt(q) \/ Intent(q) PROVE FALSE
  BY <1>3 DEF Adopt, Intent
<1>4. ASSUME NEW a \in Arts, NEW s \in {"complete", "failed"}, Finish(a, s) PROVE FALSE
  BY <1>4, FinishRow, FinishType, SameRow DEF IndType, TypeOK, JobRows, Phases, Terminal
<1>5. ASSUME NEW q \in Procs, Register(q) \/ Fail(q) PROVE FALSE
  <2>1. ArtOf(q) \in Arts
    BY <1>5, <1>t DEF Register, Fail, WorkOK, RecOK, Working, Detached, ArtOf, Arts
  <2>2. UNCHANGED job \/ \E s \in {"complete", "failed"} : Finish(ArtOf(q), s)
    BY <1>5 DEF Register, Fail, db
  <2> QED
    BY <2>1, <2>2, <1>4
<1>6. ASSUME NEW q \in Procs, ResumeWork(q) PROVE FALSE
  <2>1. job'[j] = job[j] \/ job'[j].state \in {"queued", job[j].state}
    BY <1>6, <1>t DEF ResumeWork, JobRows
  <2>2. job' \in [Jobs -> JobRows] /\ job'[j].attempts = job[j].attempts
    BY <1>6, <1>t DEF ResumeWork, JobRows, Phases, Terminal
  <2> QED
    BY <2>1, <2>2, <1>t, SameRow
<1>7. ASSUME NEW q \in Procs, NEW k \in Jobs, Start(q, k)
      PROVE  claim'[j].owner = q /\ proc[q].pc = "run"
  <2>1. j = k
    BY <1>7, <1>t DEF Start
  <2> QED
    BY <1>7, <2>1, <1>t DEF Start, Claim
<1>8. ASSUME NEW q \in Procs, NEW a \in Arts, Interrupt(q, a) PROVE FALSE
  BY <1>8, <1>4 DEF Interrupt
<1> QED
  BY <1>1, <1>2, <1>3, <1>5, <1>6, <1>7, <1>8, RowSteps DEF RowStep

LEMMA KeepFence ==
    ASSUME IndType, [Next]_vars, NEW p \in Procs,
           proc[p].pc \in Working, proc'[p] = proc[p], Fenced(p)'
    PROVE  Fenced(p)
<1> DEFINE j == proc[p].job
           n == proc[p].att
<1>1. /\ j \in Jobs /\ proc[p].pc \notin {"run", "recover", "down"}
      /\ claim[j] \in ClaimRows
  BY DEF IndType, TypeOK, WorkOK, RecOK, Working, Detached
<1>2. /\ job'[j].state = "running" /\ job'[j].attempts = n /\ n > 0
      /\ claim'[j].lease > 0 /\ claim'[j].owner = p /\ claim'[j].attempt = n
  BY DEF Fenced, Fence, Live
<1>3. job'[j] = job[j]
  BY <1>1, <1>2, JobSteps
<1>4. claim[j].lease > 0 /\ claim[j].owner = p /\ claim[j].attempt = n
  <2>1. CASE claim'[j] = claim[j]
    BY <1>2, <2>1
  <2>2. CASE claim'[j] # claim[j]
    <3>1. ASSUME NEW q \in Procs, Heartbeat(q), proc[q].job = j,
                 claim'[j].owner = claim[j].owner, claim'[j].attempt = claim[j].attempt
          PROVE  claim[j].lease > 0 /\ claim[j].owner = p /\ claim[j].attempt = n
      BY <3>1, <1>2, FencedJob DEF Heartbeat
    <3> QED
      BY <1>1, <1>2, <2>2, <3>1, ClaimSteps
  <2> QED
    BY <2>1, <2>2
<1>5. p \in Up
  BY <1>1 DEF Up
<1> QED
  BY <1>2, <1>3, <1>4, <1>5 DEF Fenced, Fence, Live

-----------------------------------------------------------------------------
(* How the two names of an artifact change.                                 *)

VolStep(a) ==
    \/ \E p \in Procs : CreateTemp(p) /\ vol'[a].final = vol[a].final
                        /\ vol[a].temp = "absent"
    \/ \E p \in Procs : EndRender(p) /\ vol'[a].final = vol[a].final
                        /\ vol'[a].temp = "good"
    \/ \E p \in Procs : Rename(p) /\ a = ArtOf(p) /\ vol[a].final = "absent"
                        /\ vol'[a].final = vol[a].temp
    \/ PowerLoss /\ vol'[a] = dur[a] /\ dur'[a] = vol'[a]
    \/ /\ Tamper(a) /\ art[a] \in Unfinished
       /\ \/ vol'[a].final = "foreign" /\ vol'[a].temp = vol[a].temp
          \/ vol'[a].final = vol[a].final /\ vol'[a].temp = "foreign"

LEMMA VolSteps ==
    ASSUME IndType, [Next]_vars, NEW a \in Arts, vol'[a] # vol[a]
    PROVE  VolStep(a)
<1>t. vol \in [Arts -> Names]
  BY DEF IndType, TypeOK
<1>1. CASE UNCHANGED vars
  BY <1>1 DEF vars
<1>2. CASE Commands
  BY <1>2 DEF Commands, Enqueue, Cancel, Retry, disk
<1>3. ASSUME NEW p \in Procs, Attempt(p) PROVE VolStep(a)
  <2>1. CASE CreateTemp(p)
    <3>1. a = ArtOf(p)
      BY <2>1, <1>t DEF CreateTemp
    <3> QED
      BY <2>1, <3>1, <1>t DEF CreateTemp, VolStep, Names
  <2>2. CASE EndRender(p)
    <3>1. a = ArtOf(p)
      BY <2>2, <1>t DEF EndRender
    <3>2. vol'[a].final = vol[a].final /\ vol'[a].temp \in {"good", vol[a].temp}
      BY <2>2, <3>1, <1>t DEF EndRender, Names
    <3>3. vol' = vol \/ vol'[a].temp = "good"
      BY <2>2, <3>1, <1>t DEF EndRender, Names
    <3> QED
      BY <2>2, <3>2, <3>3 DEF VolStep
  <2>3. CASE Rename(p)
    <3>1. a = ArtOf(p)
      BY <2>3, <1>t DEF Rename
    <3> QED
      BY <2>3, <3>1, <1>t DEF Rename, VolStep
  <2> QED
    BY <1>3, <2>1, <2>2, <2>3 DEF Attempt, Adopt, Intent, GiveUp, Publish, CheckTemp,
       Sync, CheckFinal, Register, Fail, disk
<1>4. ASSUME NEW p \in Procs, Run(p) \/ Recover(p) \/ Api(p) PROVE UNCHANGED vol
  <2>1. CASE Run(p)
    BY <2>1 DEF Run, OpenRun, CloseRun, Start, StartRefused, disk
  <2>2. CASE Recover(p)
    <3>1. UNCHANGED disk
      <4>1. CASE OpenRecover(p) \/ CloseRecover(p)
        BY <4>1 DEF OpenRecover, CloseRecover, disk
      <4>2. ASSUME NEW b \in Arts, SkipOwned(p, b) \/ RefuseIntent(p, b)
            PROVE  UNCHANGED disk
        BY <4>2 DEF SkipOwned, RefuseIntent, disk
      <4>3. ASSUME NEW b \in Arts, Interrupt(p, b) \/ ResumeIntent(p, b)
            PROVE  UNCHANGED disk
        BY <4>3 DEF Interrupt, ResumeIntent, disk
      <4> QED
        BY <2>2, <4>1, <4>2, <4>3 DEF Recover
    <3> QED
      BY <3>1 DEF disk
  <2>3. CASE Api(p)
    BY <2>3 DEF Api, ApiTick, ResumeWork, ApiRun, disk
  <2> QED
    BY <1>4, <2>1, <2>2, <2>3
<1>5. CASE Environment
  <2>1. CASE PowerLoss
    BY <2>1, <1>t DEF PowerLoss, VolStep
  <2>2. ASSUME NEW b \in Arts, Tamper(b) PROVE VolStep(a)
    <3>1. PICK name \in {"temp", "final"} : vol' = [vol EXCEPT ![b][name] = "foreign"]
      BY <2>2 DEF Tamper
    <3>2. a = b
      BY <3>1, <1>t
    <3>3. art[a] \in Unfinished
      BY <2>2, <3>2 DEF Tamper, Pending
    <3>4. vol[a] \in Names /\ vol'[a] = [vol[a] EXCEPT ![name] = "foreign"]
      BY <3>1, <3>2, <1>t
    <3> QED
      BY <2>2, <3>2, <3>3, <3>4 DEF VolStep, Names
  <2> QED
    BY <1>5, <2>1, <2>2 DEF Environment, Tick, Unmount, Mount, Heartbeat, SessionLost,
       Crash, Restart, disk
<1> QED
  BY <1>1, <1>2, <1>3, <1>4, <1>5 DEF Next

LEMMA DurSteps ==
    ASSUME IndType, [Next]_vars, NEW a \in Arts
    PROVE  dur'[a] = dur[a] \/ dur'[a] = vol'[a]
<1>t. dur \in [Arts -> Names] /\ vol \in [Arts -> Names]
  BY DEF IndType, TypeOK
<1>1. CASE UNCHANGED vars
  BY <1>1 DEF vars
<1>2. CASE Commands
  BY <1>2 DEF Commands, Enqueue, Cancel, Retry, disk
<1>3. ASSUME NEW p \in Procs, Attempt(p) PROVE dur'[a] = dur[a] \/ dur'[a] = vol'[a]
  <2>1. CASE Intent(p) \/ Sync(p) \/ CheckFinal(p)
    <3>1. UNCHANGED dur \/ dur' = [dur EXCEPT ![ArtOf(p)] = vol[ArtOf(p)]]
      BY <2>1 DEF Intent, Sync, CheckFinal
    <3>2. vol' = vol
      BY <2>1 DEF Intent, Sync, CheckFinal
    <3> QED
      BY <3>1, <3>2, <1>t
  <2> QED
    BY <1>3, <2>1 DEF Attempt, CreateTemp, Adopt, EndRender, GiveUp, Publish, CheckTemp,
       Rename, Register, Fail, disk
<1>4. ASSUME NEW p \in Procs, Run(p) PROVE UNCHANGED dur
  BY <1>4 DEF Run, OpenRun, CloseRun, Start, StartRefused, disk
<1>5. ASSUME NEW p \in Procs, Recover(p) PROVE UNCHANGED dur
  <2>1. CASE OpenRecover(p) \/ CloseRecover(p)
    BY <2>1 DEF OpenRecover, CloseRecover, disk
  <2>2. ASSUME NEW b \in Arts, SkipOwned(p, b) \/ RefuseIntent(p, b)
        PROVE  UNCHANGED dur
    BY <2>2 DEF SkipOwned, RefuseIntent, disk
  <2>3. ASSUME NEW b \in Arts, Interrupt(p, b) \/ ResumeIntent(p, b)
        PROVE  UNCHANGED dur
    BY <2>3 DEF Interrupt, ResumeIntent, disk
  <2> QED
    BY <1>5, <2>1, <2>2, <2>3 DEF Recover
<1>6. ASSUME NEW p \in Procs, Api(p) PROVE UNCHANGED dur
  BY <1>6 DEF Api, ApiTick, ResumeWork, ApiRun, disk
<1>7. CASE Environment
  BY <1>7 DEF Environment, PowerLoss, Tamper, Tick, Unmount, Mount, Heartbeat,
     SessionLost, Crash, Restart, disk
<1> QED
  BY <1>1, <1>2, <1>3, <1>4, <1>5, <1>6, <1>7 DEF Next

LEMMA RegSteps ==
    ASSUME [Next]_vars
    PROVE  \/ UNCHANGED registered
           \/ \E p \in Procs : /\ Register(p) /\ Fenced(p)
                               /\ ArtOf(p) \notin registered
                               /\ vol[ArtOf(p)].final = "good"
                               /\ registered' = registered \cup {ArtOf(p)}
<1>1. CASE UNCHANGED <<job, art, registered>>
  BY <1>1
<1>2. ASSUME NEW j \in Jobs, Enqueue(j) \/ Cancel(j) \/ Retry(j)
      PROVE  UNCHANGED registered
  BY <1>2 DEF Enqueue, Cancel, Retry
<1>3. ASSUME NEW p \in Procs, Adopt(p) \/ Intent(p) \/ Fail(p) \/ ResumeWork(p)
      PROVE  UNCHANGED registered
  BY <1>3 DEF Adopt, Intent, Fail, ResumeWork
<1>4. ASSUME NEW p \in Procs, NEW j \in Jobs, Start(p, j) PROVE UNCHANGED registered
  BY <1>4 DEF Start
<1>5. ASSUME NEW p \in Procs, NEW a \in Arts, Interrupt(p, a)
      PROVE  UNCHANGED registered
  BY <1>5 DEF Interrupt
<1>6. ASSUME NEW p \in Procs, Register(p), ~UNCHANGED registered
      PROVE  /\ Fenced(p) /\ ArtOf(p) \notin registered
             /\ vol[ArtOf(p)].final = "good"
             /\ registered' = registered \cup {ArtOf(p)}
  BY <1>6 DEF Register, db
<1> QED
  BY <1>1, <1>2, <1>3, <1>4, <1>5, <1>6, RowSteps DEF RowStep

-----------------------------------------------------------------------------
(* The bytes behind a committed intent survive a power loss at any moment,  *)
(* under one of the two names: file and directory are synced first.         *)

Kept(names) == {names.temp, names.final} \cap {"good", "foreign"} # {}

LEMMA KeptVol ==
    ASSUME IndType, [Next]_vars, NEW a \in Arts, Kept(vol[a]), Kept(dur[a])
    PROVE  Kept(vol'[a])
<1>1. CASE vol'[a] = vol[a]
  BY <1>1
<1>2. CASE vol'[a] # vol[a]
  BY <1>2, VolSteps DEF VolStep, Kept
<1> QED
  BY <1>1, <1>2

THEOREM IntentIsDurableHolds == Spec => []IntentIsDurable
<1> DEFINE I == \A a \in Arts : art[a] = "publishing" => Kept(vol[a]) /\ Kept(dur[a])
<1>1. Init => I
  BY DEF Init
<1>2. IndType /\ I /\ [Next]_vars => I'
  <2> SUFFICES ASSUME IndType, I, [Next]_vars, NEW a \in Arts, art'[a] = "publishing"
               PROVE  Kept(vol'[a]) /\ Kept(dur'[a])
    OBVIOUS
  <2>1. CASE art[a] = "publishing"
    <3>1. Kept(vol'[a])
      BY <2>1, KeptVol
    <3> QED
      BY <2>1, <3>1, DurSteps
  <2>2. CASE art[a] # "publishing"
    <3>1. PICK p \in Procs : Intent(p) /\ a = ArtOf(p) /\ art[a] = "writing"
      BY <2>2, ArtSteps DEF ArtStep
    <3>2. vol[a].temp = "good" /\ vol' = vol /\ dur'[a] = vol[a]
      BY <2>2, <3>1 DEF Intent, IndType, TypeOK
    <3> QED
      BY <3>2 DEF Kept
  <2> QED
    BY <2>1, <2>2
<1>3. I => IntentIsDurable
  BY DEF IntentIsDurable, Kept
<1> QED
  BY <1>1, <1>2, <1>3, TypeInvariant, PTL DEF Spec

-----------------------------------------------------------------------------
(* The inductive invariant that ties the steps of a publication to the      *)
(* rows and the files.                                                      *)

(* A registered output belongs to an allocated attempt and is not           *)
(* unfinished: a new attempt never takes its place.                         *)
RowsOK ==
    \A a \in registered : a[2] <= job[a[1]].attempts /\ art[a] \notin Unfinished

(* Between the intent and the registration the artifact is "publishing":    *)
(* under the lock because nobody else acts, outside it because the fence    *)
(* would have been lost with the claim.                                     *)
InPublication ==
    \A p \in Procs :
        /\ proc[p].pc \in {"rename", "sync", "register"} => art[ArtOf(p)] = "publishing"
        /\ proc[p].pc \in {"checkTemp", "checkFinal"} /\ Fenced(p) =>
             art[ArtOf(p)] = "publishing"

(* What a process is about to register is durable.                          *)
RegisterReady ==
    \A p \in Procs : proc[p].pc = "register" /\ vol[ArtOf(p)].final = "good" =>
        dur[ArtOf(p)].final = "good"

(* NoOrphanOutput, also of the directory a power loss would bring back.      *)
NoOrphanName ==
    \A a \in Arts : "good" \in {vol[a].final, dur[a].final} =>
        art[a] = "publishing" \/ a \in registered

IInv == /\ IndType /\ LockOK /\ RowsOK /\ InPublication /\ RegisterReady
        /\ NoOrphanName /\ RegisteredIsDurable

LEMMA InitInv == Init => IInv
<1> SUFFICES ASSUME Init PROVE IInv
  OBVIOUS
<1>1. \A p \in Procs : proc[p].pc = "idle"
  BY DEF Init, NoWork
<1>2. LockOK /\ InPublication /\ RegisterReady
  BY <1>1 DEF LockOK, InPublication, RegisterReady, Inside, Working, Detached, Sessions
<1>3. RowsOK /\ NoOrphanName /\ RegisteredIsDurable
  BY DEF Init, RowsOK, NoOrphanName, RegisteredIsDurable
<1> QED
  BY <1>2, <1>3, InitType DEF IInv

LEMMA AttemptsGrow ==
    ASSUME IndType, [Next]_vars, NEW j \in Jobs
    PROVE  job[j].attempts \in Nat /\ job'[j].attempts \in Nat
           /\ job[j].attempts <= job'[j].attempts
<1>t. job \in [Jobs -> JobRows] /\ WorkOK
  BY DEF IndType, TypeOK
<1>0. job[j].attempts \in Nat
  BY <1>t DEF JobRows
<1>2. ASSUME UNCHANGED <<job, art, registered>>
      PROVE  job'[j].attempts = job[j].attempts
  BY <1>2
<1>3. ASSUME NEW k \in Jobs, Enqueue(k) \/ Cancel(k) \/ Retry(k)
      PROVE  job'[j].attempts = job[j].attempts
  <2>1. \E s : job' = [job EXCEPT ![k].state = s]
    BY <1>3 DEF Enqueue, Cancel, Retry
  <2> QED
    BY <2>1, <1>t DEF JobRows
<1>4. ASSUME NEW q \in Procs, Adopt(q) \/ Intent(q) PROVE job' = job
  BY <1>4 DEF Adopt, Intent
<1>5. ASSUME NEW q \in Procs, Register(q) \/ Fail(q)
      PROVE  job'[j].attempts = job[j].attempts
  <2>1. ArtOf(q) \in Arts
    BY <1>5, <1>t DEF Register, Fail, WorkOK, RecOK, Working, Detached, ArtOf, Arts
  <2>2. UNCHANGED job \/ \E s \in Phases : Finish(ArtOf(q), s)
    BY <1>5 DEF Register, Fail, db, Phases, Terminal
  <2> QED
    BY <2>1, <2>2, FinishRow
<1>6. ASSUME NEW q \in Procs, ResumeWork(q) PROVE job'[j].attempts = job[j].attempts
  BY <1>6, <1>t DEF ResumeWork, JobRows
<1>7. ASSUME NEW q \in Procs, NEW k \in Jobs, Start(q, k)
      PROVE  job'[j].attempts \in {job[j].attempts, job[j].attempts + 1}
  BY <1>7, <1>t DEF Start
<1>8. ASSUME NEW q \in Procs, NEW a \in Arts, Interrupt(q, a)
      PROVE  job'[j].attempts = job[j].attempts
  BY <1>8, FinishRow DEF Interrupt, Phases, Terminal
<1>9. job'[j].attempts \in {job[j].attempts, job[j].attempts + 1}
  BY <1>2, <1>3, <1>4, <1>5, <1>6, <1>7, <1>8, RowSteps DEF RowStep
<1> QED
  BY <1>0, <1>9

LEMMA RowsStep == IndType /\ RowsOK /\ [Next]_vars => RowsOK'
<1> SUFFICES ASSUME IndType, RowsOK, [Next]_vars, NEW a \in registered'
             PROVE  a[2] <= job'[a[1]].attempts /\ art'[a] \notin Unfinished
  BY DEF RowsOK
<1>a. a \in Arts /\ a[1] \in Jobs /\ a[2] \in Nat
  BY TypeStep DEF IndType, TypeOK, Arts, Attempts
<1>1. CASE a \notin registered
  <2>1. PICK p \in Procs : Register(p) /\ Fenced(p) /\ a = ArtOf(p)
    BY <1>1, RegSteps
  <2>2. job[a[1]].attempts = a[2]
    BY <2>1, FencedJob DEF ArtOf
  <2>3. art'[a] = "ready"
    BY <1>1, <1>a, <2>1 DEF Register, db, IndType, TypeOK
  <2> QED
    BY <1>a, <2>2, <2>3, AttemptsGrow DEF Unfinished
<1>2. CASE a \in registered
  <2>1. a[2] <= job[a[1]].attempts /\ art[a] \notin Unfinished
    BY <1>2 DEF RowsOK
  <2>2. a[2] <= job'[a[1]].attempts
    BY <1>a, <2>1, AttemptsGrow
  <2>3. a[2] # job[a[1]].attempts + 1
    BY <1>a, <2>1, AttemptsGrow
  <2>4. art'[a] \notin Unfinished
    <3>1. CASE art'[a] = art[a]
      BY <2>1, <3>1
    <3>2. CASE art'[a] # art[a]
      BY <1>a, <2>1, <2>3, <3>2, ArtSteps DEF ArtStep, Unfinished
    <3> QED
      BY <3>1, <3>2
  <2> QED
    BY <2>2, <2>4
<1> QED
  BY <1>1, <1>2

(* Only registration ends a publication.                                    *)
LEMMA PublishingEnds ==
    ASSUME IndType, [Next]_vars, NEW a \in Arts, art[a] = "publishing",
           art'[a] # "publishing"
    PROVE  \E q \in Procs : Register(q) /\ Fenced(q) /\ a = ArtOf(q)
                            /\ a \in registered'
<1>1. PICK q \in Procs : Register(q) /\ a = ArtOf(q) /\ art'[a] = "ready" /\ a \in registered'
  <2>1. ASSUME NEW q \in Procs, Start(q, a[1]) PROVE FALSE
    <3>1. a = <<a[1], a[2]>> /\ a[2] \in Attempts
      BY DEF Arts
    <3> QED
      BY <2>1, <3>1 DEF Start, Startable, Pending, Unfinished
  <2> QED
    BY <2>1, ArtSteps DEF ArtStep
<1>2. art' # art
  BY <1>1
<1> QED
  BY <1>1, <1>2 DEF Register, db

(* How a process gets into the later steps of a publication.                *)
EnterStep(p) ==
    \/ CheckTemp(p) /\ Fenced(p) /\ proc'[p].pc = "rename"
    \/ Rename(p) /\ proc'[p].pc = "sync"
    \/ Sync(p) /\ proc'[p].pc = "checkFinal"
    \/ Publish(p) /\ art[ArtOf(p)] = "publishing" /\ proc'[p].pc \in {"checkTemp", "checkFinal"}
    \/ CheckFinal(p) /\ Fenced(p) /\ vol[ArtOf(p)].final = "good" /\ mounted
                     /\ proc'[p].pc = "register"

LEMMA EnterSteps ==
    ASSUME IndType, [Next]_vars, NEW p \in Procs, proc'[p] # proc[p],
           proc'[p].pc \in {"checkTemp", "rename", "sync", "checkFinal", "register"}
    PROVE  /\ EnterStep(p)
           /\ ArtOf(p)' = ArtOf(p)
           /\ art' = art
<1>t. proc \in [Procs -> Processes] /\ proc[p].mode \in {"run", "recover"}
  BY DEF IndType, TypeOK, Processes
<1>1. ~Run(p)
  <2>1. ASSUME NEW j \in Jobs, Start(p, j) PROVE proc'[p].pc = "temp"
    BY <2>1, <1>t DEF Start, Processes
  <2>2. ASSUME OpenRun(p) PROVE proc'[p].pc = "run"
    BY <2>2, <1>t DEF OpenRun, Processes
  <2>3. ASSUME CloseRun(p) PROVE proc'[p].pc = "idle"
    BY <2>3, <1>t DEF CloseRun, NoWork
  <2>4. ASSUME NEW j \in Jobs, StartRefused(p, j) PROVE proc'[p].pc = "run"
    BY <2>4, <1>t DEF StartRefused, Processes
  <2> QED
    BY <2>1, <2>2, <2>3, <2>4 DEF Run
<1>2. ~Recover(p)
  <2>1. ASSUME NEW a \in Arts, ResumeIntent(p, a) PROVE proc'[p].pc = "publish"
    BY <2>1, <1>t DEF ResumeIntent, Processes
  <2>2. ASSUME OpenRecover(p) PROVE proc'[p].pc = "recover"
    BY <2>2, <1>t DEF OpenRecover, Processes
  <2>3. ASSUME CloseRecover(p) PROVE proc'[p].pc = "idle"
    BY <2>3, <1>t DEF CloseRecover, NoWork
  <2>4. ASSUME NEW a \in Arts, SkipOwned(p, a) \/ RefuseIntent(p, a) \/ Interrupt(p, a)
        PROVE  proc'[p].pc = "recover"
    <3>1. proc[p].pc = "recover" /\ Visited(p, a)
      BY <2>4 DEF SkipOwned, RefuseIntent, Interrupt, Visiting
    <3> QED
      BY <3>1, <1>t DEF Visited, Processes
  <2> QED
    BY <2>1, <2>2, <2>3, <2>4 DEF Recover
<1>3. ~Api(p)
  <2>1. ASSUME NEW j \in Jobs, ApiTick(p, j) PROVE proc'[p].pc = "recover"
    BY <2>1, <1>t DEF ApiTick, Processes
  <2>2. ASSUME ResumeWork(p) PROVE proc'[p].pc = "admit"
    BY <2>2, Goes DEF ResumeWork
  <2>3. ASSUME ApiRun(p) PROVE proc'[p].pc \in {"run", "idle"}
    <3>1. NoWork \in Processes /\ NoWork.pc = "idle"
      BY NoWorkType DEF NoWork
    <3>2. proc'[p] \in {NoWork, [NoWork EXCEPT !.pc = "run", !.queue = {proc[p].resume}]}
      BY <2>3, <1>t DEF ApiRun
    <3> QED
      BY <3>1, <3>2 DEF Processes
  <2> QED
    BY <2>1, <2>2, <2>3 DEF Api
<1>4. ~SessionLost(p) /\ ~Crash(p) /\ ~Restart(p) /\ ~PowerLoss
  BY <1>t DEF SessionLost, Crash, Restart, PowerLoss, NoWork, Down
<1>5. Attempt(p)
  BY <1>1, <1>2, <1>3, <1>4, ProcSteps DEF Own
<1>6. ArtOf(p)' = ArtOf(p)
  BY <1>5, AttemptGoes, Goes DEF ArtOf
<1>7. ~CreateTemp(p) /\ ~Adopt(p) /\ ~EndRender(p) /\ ~Intent(p) /\ ~GiveUp(p)
  <2>1. ~CreateTemp(p) /\ ~GiveUp(p)
    BY Goes DEF CreateTemp, GiveUp
  <2>2. ~Adopt(p)
    BY Goes DEF Adopt
  <2>3. ~EndRender(p)
    BY Goes DEF EndRender, Reattach
  <2>4. ~Intent(p)
    BY Goes DEF Intent
  <2> QED
    BY <2>1, <2>2, <2>3, <2>4
<1>8. ~Register(p) /\ ~Fail(p)
  BY <1>t, Goes DEF Register, Fail
<1>9. CASE Publish(p)
  BY <1>9, <1>6, Goes DEF Publish, EnterStep, db
<1>10. CASE CheckTemp(p)
  BY <1>10, <1>6, Goes DEF CheckTemp, Reattach, EnterStep, db
<1>11. CASE Rename(p)
  BY <1>11, <1>6, Goes DEF Rename, EnterStep, db
<1>12. CASE Sync(p)
  BY <1>12, <1>6, Goes DEF Sync, EnterStep, db
<1>13. CASE CheckFinal(p)
  BY <1>13, <1>6, Goes DEF CheckFinal, Reattach, EnterStep, db
<1> QED
  BY <1>5, <1>7, <1>8, <1>9, <1>10, <1>11, <1>12, <1>13 DEF Attempt

LEMMA InPublicationStep ==
    IndType /\ LockOK /\ InPublication /\ [Next]_vars => InPublication'
<1> SUFFICES ASSUME IndType, LockOK, InPublication, [Next]_vars, NEW p \in Procs,
                    \/ proc'[p].pc \in {"rename", "sync", "register"}
                    \/ proc'[p].pc \in {"checkTemp", "checkFinal"} /\ Fenced(p)'
             PROVE  art'[ArtOf(p)'] = "publishing"
  BY DEF InPublication
<1>t. WorkOK /\ IndType'
  BY TypeStep DEF IndType
<1>1. CASE proc'[p] = proc[p]
  <2>1. proc[p].pc \in Working /\ proc[p].pc \notin {"fail", "down"} \cup Sessions
    BY <1>1 DEF Working, Detached, Sessions
  <2>2. ArtOf(p) \in Arts /\ ArtOf(p)' = ArtOf(p)
    BY <1>t, <1>1, <2>1 DEF WorkOK, RecOK, ArtOf, Arts
  <2>3. \/ proc[p].pc \in {"rename", "sync", "register"}
        \/ proc[p].pc \in {"checkTemp", "checkFinal"} /\ Fenced(p)
    BY <1>1, <2>1, KeepFence
  <2>4. art[ArtOf(p)] = "publishing"
    BY <2>3 DEF InPublication
  <2>5. ASSUME NEW q \in Procs, Register(q), Fenced(q), ArtOf(p) = ArtOf(q)
        PROVE  FALSE
    <3>1. q = p
      <4>1. CASE proc[p].pc \in {"rename", "sync", "register"}
        BY <2>5, <4>1 DEF LockOK, Inside, Working, Detached, Register
      <4>2. CASE Fenced(p)
        BY <2>5, <4>2, FencedJob DEF ArtOf
      <4> QED
        BY <2>3, <4>1, <4>2
    <3>2. proc[p].pc = "register" /\ proc'[p].pc \in {"fail", proc[p].mode}
      BY <2>5, <3>1, Goes DEF Register
    <3>3. proc[p].mode \in {"run", "recover"}
      BY DEF IndType, TypeOK, Processes
    <3> QED
      BY <1>1, <3>2, <3>3
  <2> QED
    BY <2>2, <2>4, <2>5, PublishingEnds
<1>2. CASE proc'[p] # proc[p]
  BY <1>2, EnterSteps DEF EnterStep, InPublication, CheckTemp, Rename, Sync, CheckFinal
<1> QED
  BY <1>1, <1>2

LEMMA RegisterReadyStep ==
    IndType /\ LockOK /\ RegisterReady /\ [Next]_vars => RegisterReady'
<1> SUFFICES ASSUME IndType, LockOK, RegisterReady, [Next]_vars, NEW p \in Procs,
                    proc'[p].pc = "register", vol'[ArtOf(p)'].final = "good"
             PROVE  dur'[ArtOf(p)'].final = "good"
  BY DEF RegisterReady
<1>t. WorkOK /\ WorkOK' /\ dur \in [Arts -> Names] /\ vol \in [Arts -> Names]
  BY TypeStep DEF IndType, TypeOK
<1>a. ArtOf(p)' \in Arts
  BY <1>t DEF WorkOK, RecOK, Working, ArtOf, Arts
<1>1. CASE proc'[p] = proc[p]
  <2>1. ArtOf(p)' = ArtOf(p)
    BY <1>1 DEF ArtOf
  <2>2. lock = p
    BY <1>1 DEF LockOK, Inside, Working, Detached
  <2>3. \A q \in Procs : ~Rename(q)
    <3>1. SUFFICES ASSUME NEW q \in Procs, Rename(q) PROVE FALSE
      OBVIOUS
    <3>2. lock = q
      BY <3>1 DEF Rename, LockOK, Inside, Working, Detached
    <3> QED
      BY <1>1, <2>2, <3>1, <3>2 DEF Rename
  <2>4. ~PowerLoss
    BY <1>1 DEF PowerLoss, Down, NoWork
  <2>5. vol[ArtOf(p)].final = "good"
    <3>1. CASE vol'[ArtOf(p)] = vol[ArtOf(p)]
      BY <2>1, <3>1
    <3>2. CASE vol'[ArtOf(p)] # vol[ArtOf(p)]
      BY <1>a, <2>1, <2>3, <2>4, <3>2, VolSteps DEF VolStep
    <3> QED
      BY <3>1, <3>2
  <2>6. dur[ArtOf(p)].final = "good"
    BY <1>1, <2>5 DEF RegisterReady
  <2> QED
    BY <1>a, <2>1, <2>6, DurSteps
<1>2. CASE proc'[p] # proc[p]
  <2>1. /\ CheckFinal(p) /\ Fenced(p) /\ vol[ArtOf(p)].final = "good" /\ mounted
        /\ ArtOf(p)' = ArtOf(p)
    BY <1>2, EnterSteps DEF EnterStep
  <2>2. dur'[ArtOf(p)] = vol[ArtOf(p)]
    BY <1>a, <1>t, <2>1 DEF CheckFinal
  <2> QED
    BY <2>1, <2>2
<1> QED
  BY <1>1, <1>2

LEMMA NoOrphanStep ==
    IndType /\ InPublication /\ NoOrphanName /\ [Next]_vars => NoOrphanName'
<1> SUFFICES ASSUME IndType, InPublication, NoOrphanName, [Next]_vars, NEW a \in Arts,
                    "good" \in {vol'[a].final, dur'[a].final}
             PROVE  art'[a] = "publishing" \/ a \in registered'
  BY DEF NoOrphanName
<1>1. ASSUME art[a] = "publishing" \/ a \in registered
      PROVE  art'[a] = "publishing" \/ a \in registered'
  BY <1>1, PublishingEnds, RegSteps
<1>2. CASE "good" \in {vol[a].final, dur[a].final}
  BY <1>1, <1>2 DEF NoOrphanName
<1>3. CASE "good" \notin {vol[a].final, dur[a].final}
  <2>1. vol'[a] # vol[a] /\ vol'[a].final = "good"
    BY <1>3, DurSteps
  <2>2. PICK p \in Procs : Rename(p) /\ a = ArtOf(p)
    BY <1>3, <2>1, VolSteps DEF VolStep
  <2>3. art[a] = "publishing"
    BY <2>2 DEF Rename, InPublication
  <2> QED
    BY <2>3, <1>1
<1> QED
  BY <1>2, <1>3

LEMMA RegisteredStep ==
    IndType /\ RowsOK /\ RegisterReady /\ RegisteredIsDurable /\ [Next]_vars
      => RegisteredIsDurable'
<1> SUFFICES ASSUME IndType, RowsOK, RegisterReady, RegisteredIsDurable, [Next]_vars,
                    NEW a \in registered'
             PROVE  vol'[a].final = "good" /\ dur'[a].final = "good"
  BY DEF RegisteredIsDurable
<1>a. a \in Arts
  BY TypeStep DEF IndType, TypeOK
<1>1. CASE a \in registered
  <2>1. vol[a].final = "good" /\ dur[a].final = "good" /\ art[a] \notin Unfinished
    BY <1>1 DEF RegisteredIsDurable, RowsOK
  <2>2. vol'[a].final = "good"
    <3>1. CASE vol'[a] = vol[a]
      BY <2>1, <3>1
    <3>2. CASE vol'[a] # vol[a]
      BY <1>a, <2>1, <3>2, VolSteps DEF VolStep
    <3> QED
      BY <3>1, <3>2
  <2> QED
    BY <1>a, <2>1, <2>2, DurSteps
<1>2. CASE a \notin registered
  <2>1. PICK p \in Procs : Register(p) /\ a = ArtOf(p) /\ vol[a].final = "good"
    BY <1>2, RegSteps
  <2>2. dur[a].final = "good"
    BY <2>1 DEF RegisterReady, Register
  <2> QED
    BY <2>1, <2>2 DEF Register, disk
<1> QED
  BY <1>1, <1>2

THEOREM Invariant == Spec => []IInv
<1>1. IInv /\ [Next]_vars => IInv'
  BY TypeStep, LockStep, RowsStep, InPublicationStep, RegisterReadyStep, NoOrphanStep,
     RegisteredStep DEF IInv
<1> QED
  BY InitInv, <1>1, PTL DEF Spec

(* No crash, failure, cancellation or race leaves an output file visible    *)
(* that neither an intent nor a registration accounts for.                  *)
THEOREM NoOrphanOutputHolds == Spec => []NoOrphanOutput
<1>1. IInv => NoOrphanOutput
  BY DEF IInv, NoOrphanName, NoOrphanOutput
<1> QED
  BY <1>1, Invariant, PTL

(* What the catalog lists as ready is in the directory and stays there      *)
(* through a power loss.                                                    *)
THEOREM RegisteredIsDurableHolds == Spec => []RegisteredIsDurable
<1>1. IInv => RegisteredIsDurable
  BY DEF IInv
<1> QED
  BY <1>1, Invariant, PTL

-----------------------------------------------------------------------------
(* RenderJobs implements Publication.                                       *)

Stage == [a \in Arts |-> IF a \in registered THEN "published"
                         ELSE IF art[a] = "publishing" THEN "intended" ELSE "idle"]
Shown == {a \in Arts : vol[a].final = "good"}

LEMMA PromiseInit == Init => Promise!Init
<1> SUFFICES ASSUME Init PROVE Promise!Init
  OBVIOUS
<1>1. Stage = [a \in Arts |-> "idle"] /\ Shown = {}
  BY DEF Init, Stage, Shown
<1> QED
  BY <1>1 DEF Promise!Init, Stage, Shown

(* Registering an attempt publishes its output, committing its intent        *)
(* intends it, and whatever else happens moves only files of intended       *)
(* outputs.                                                                 *)
LEMMA PromiseStep == IInv /\ [Next]_vars => [Promise!Next]_(Promise!vars)
<1> SUFFICES ASSUME IInv, [Next]_vars PROVE Promise!Next
  OBVIOUS
<1>i. /\ IndType /\ RowsOK /\ InPublication /\ NoOrphanName /\ RegisteredIsDurable
      /\ IndType' /\ NoOrphanName' /\ RegisteredIsDurable'
      /\ registered \subseteq Arts /\ registered' \subseteq Arts
  BY TypeStep, RowsStep, NoOrphanStep, RegisteredStep DEF IInv, IndType, TypeOK
<1>1. ASSUME NEW p \in Procs, Register(p), registered' # registered
      PROVE  Promise!Next
  <2>0. PICK a \in Arts : a = ArtOf(p)
    BY <1>1, <1>i DEF IndType, WorkOK, RecOK, Working, Register, ArtOf, Arts
  <2>1. /\ Fenced(p) /\ a \notin registered /\ vol[a].final = "good"
        /\ registered' = registered \cup {a}
        /\ art' = [art EXCEPT ![a] = "ready"]
        /\ vol' = vol
    BY <1>1, <2>0 DEF Register, db, disk
  <2>2. a \in Arts /\ art[a] = "publishing"
    BY <1>i, <1>1, <2>0 DEF InPublication, Register
  <2>3. Stage' = [Stage EXCEPT ![a] = "published"]
    BY <2>1, <2>2, <1>i DEF Stage, IndType, TypeOK
  <2>4. Stage[a] = "intended" /\ a \in Shown /\ Shown' = Shown
    BY <2>1, <2>2 DEF Stage, Shown
  <2>5. Promise!Publish(a)
    BY <2>3, <2>4 DEF Promise!Publish, Stage, Shown
  <2> QED
    BY <2>2, <2>5 DEF Promise!Next
<1>2. ASSUME NEW p \in Procs, Intent(p), art' # art
      PROVE  Promise!Next
  <2>2. PICK a \in Arts : a = ArtOf(p)
    BY <1>2, <1>i DEF IndType, WorkOK, RecOK, Working, Intent, ArtOf, Arts
  <2>1. /\ art[a] = "writing" /\ art' = [art EXCEPT ![a] = "publishing"]
        /\ vol' = vol /\ registered' = registered
    BY <1>2, <2>2 DEF Intent
  <2>3. a \notin registered
    BY <1>i, <2>1 DEF RowsOK, Unfinished
  <2>4. Stage' = [Stage EXCEPT ![a] = "intended"]
    BY <2>1, <2>2, <2>3, <1>i DEF Stage, IndType, TypeOK
  <2>5. Stage[a] = "idle" /\ a \notin Shown /\ Shown' = Shown
    BY <1>i, <2>1, <2>2, <2>3 DEF Stage, Shown, NoOrphanName
  <2>6. Promise!Intend(a)
    BY <2>4, <2>5 DEF Promise!Intend, Stage, Shown
  <2> QED
    BY <2>2, <2>6 DEF Promise!Next
<1>3. ASSUME registered' = registered,
             \A a \in Arts : art[a] = "publishing" <=> art'[a] = "publishing"
      PROVE  Promise!Next
  <2>1. Stage' = Stage
    BY <1>3 DEF Stage
  <2>2. \A a \in Arts : Stage[a] # "intended" => (a \in Shown' <=> a \in Shown)
    BY <1>3, <1>i DEF Stage, Shown, NoOrphanName, RegisteredIsDurable
  <2>3. Promise!Files
    BY <2>1, <2>2 DEF Promise!Files, Stage, Shown
  <2> QED
    BY <2>3 DEF Promise!Next
<1>4. CASE registered' # registered
  <2>1. \E p \in Procs : Register(p)
    BY <1>4, RegSteps
  <2> QED
    BY <1>1, <1>4, <2>1
<1>5. CASE registered' = registered
  <2>1. ASSUME NEW a \in Arts, art[a] = "publishing", art'[a] # "publishing"
        PROVE  FALSE
    <3>1. PICK p \in Procs : Register(p) /\ a = ArtOf(p)
      BY <1>i, <2>1, PublishingEnds
    <3> QED
      BY <1>5, <2>1, <3>1 DEF Register, db
  <2>2. ASSUME NEW a \in Arts, art[a] # "publishing", art'[a] = "publishing"
        PROVE  Promise!Next
    <3>1. \E p \in Procs : Intent(p)
      BY <1>i, <2>2, ArtSteps DEF ArtStep
    <3> QED
      BY <1>2, <2>2, <3>1
  <2> QED
    BY <1>3, <1>5, <2>1, <2>2
<1> QED
  BY <1>4, <1>5

(* Publishing keeps its promise: intent first, then the visible name, then   *)
(* the catalog, and what is registered stays visible.                       *)
THEOREM PublicationPromiseHolds == Spec => PublicationPromise
BY PromiseInit, PromiseStep, Invariant, PTL DEF Spec, PublicationPromise, Promise!Spec
=============================================================================
