-------------------------- MODULE RenderJobsProofs --------------------------
(***************************************************************************)
(* Theorems about the rows of RenderJobs, for every number of processes,   *)
(* jobs, attempts and faults: type correctness, cancellation, one          *)
(* unfinished artifact per job, and the pin an intent puts on its job.     *)
(***************************************************************************)
EXTENDS RenderJobs, TLAPS

USE RenderAssumption, LeaseAssumption

-----------------------------------------------------------------------------
(* Type correctness.                                                        *)

(* What the fields of one process record mean together.                     *)
RecOK(r) ==
    /\ r.pc \in Working => r.job \in Jobs /\ r.att \in Attempts
    /\ r.pc = "admit" => r.resume \in Jobs

WorkOK == \A p \in Procs : RecOK(proc[p])

IndType == TypeOK /\ WorkOK

LEMMA SetProc ==
    ASSUME TypeOK, WorkOK, NEW p \in Procs, NEW r \in Processes, RecOK(r),
           proc' = [proc EXCEPT ![p] = r]
    PROVE  proc' \in [Procs -> Processes] /\ WorkOK'
<1>1. proc' \in [Procs -> Processes]
  BY DEF TypeOK
<1>2. \A q \in Procs : proc'[q] = IF q = p THEN r ELSE proc[q]
  BY DEF TypeOK
<1> QED
  BY <1>1, <1>2 DEF WorkOK, RecOK

LEMMA GotoType ==
    ASSUME TypeOK, WorkOK, NEW p \in Procs, NEW pc \in Pcs, Goto(p, pc),
           pc \in Working => proc[p].pc \in Working,
           pc = "admit" => proc[p].resume \in Jobs
    PROVE  proc' \in [Procs -> Processes] /\ WorkOK'
<1> DEFINE r == [proc[p] EXCEPT !.pc = pc]
<1>1. proc[p] \in Processes /\ RecOK(proc[p])
  BY DEF TypeOK, WorkOK
<1>2. r \in Processes /\ r.pc = pc /\ r.job = proc[p].job
      /\ r.att = proc[p].att /\ r.resume = proc[p].resume
  BY <1>1 DEF Processes
<1>3. RecOK(r)
  BY <1>1, <1>2 DEF RecOK
<1>4. proc' = [proc EXCEPT ![p] = r]
  BY DEF Goto, TypeOK
<1> HIDE DEF r
<1> QED
  BY <1>2, <1>3, <1>4, SetProc

LEMMA NoWorkType == NoWork \in Processes /\ RecOK(NoWork)
                    /\ Down \in Processes /\ RecOK(Down)
BY DEF NoWork, Down, Processes, Pcs, RecOK, Working, Detached

LEMMA FinishType ==
    ASSUME TypeOK, NEW a \in Arts, NEW s \in Phases, Finish(a, s)
    PROVE  job' \in [Jobs -> JobRows]
BY DEF TypeOK, JobRows, Finish

LEMMA ClaimType ==
    ASSUME TypeOK, NEW p \in Procs, NEW n \in 0 .. MaxAttempts, NEW j \in Jobs,
           claim' = [claim EXCEPT ![j] = Claim(p, n)]
    PROVE  claim' \in [Jobs -> ClaimRows]
BY DEF TypeOK, ClaimRows, Claim

LEMMA LeaseType ==
    ASSUME TypeOK, NEW j \in Jobs, NEW l \in 0 .. LeaseTicks,
           claim' = [claim EXCEPT ![j].lease = l]
    PROVE  claim' \in [Jobs -> ClaimRows]
BY DEF TypeOK, ClaimRows

LEMMA ArtType ==
    ASSUME TypeOK, NEW a, NEW s \in ArtStates, art' = [art EXCEPT ![a] = s]
    PROVE  art' \in [Arts -> ArtStates]
BY DEF TypeOK

LEMMA InitType == Init => IndType
<1> SUFFICES ASSUME Init PROVE IndType
  OBVIOUS
<1>1. proc \in [Procs -> Processes] /\ WorkOK
  BY NoWorkType DEF Init, WorkOK
<1>2. job \in [Jobs -> JobRows] /\ claim \in [Jobs -> ClaimRows]
  BY DEF Init, JobRows, ClaimRows, Phases, Terminal
<1>3. art \in [Arts -> ArtStates] /\ registered \in SUBSET Arts
  BY DEF Init, ArtStates
<1>4. vol \in [Arts -> Names] /\ dur \in [Arts -> Names]
  BY DEF Init, Names, Contents
<1>5. mounted \in BOOLEAN /\ lock \in Procs \cup {NoProc} /\ faults \in 0 .. MaxFaults
  BY DEF Init
<1> QED
  BY <1>1, <1>2, <1>3, <1>4, <1>5 DEF IndType, TypeOK

LEMMA CommandsType == IndType /\ Commands => IndType'
<1> SUFFICES ASSUME IndType, Commands PROVE IndType'
  OBVIOUS
<1>1. UNCHANGED <<claim, art, registered, disk, mounted, lock, proc, faults>>
  BY DEF Commands, Enqueue, Cancel, Retry
<1>2. PICK j \in Jobs, s \in Phases : job' = [job EXCEPT ![j].state = s]
  BY DEF Commands, Enqueue, Cancel, Retry, Phases, Terminal
<1>3. job' \in [Jobs -> JobRows]
  BY <1>2 DEF IndType, TypeOK, JobRows
<1> QED
  BY <1>1, <1>3 DEF IndType, TypeOK, WorkOK, disk

LEMMA AttemptType ==
    ASSUME IndType, NEW p \in Procs, Attempt(p)
    PROVE  IndType'
<1> USE DEF Pcs, Working, Detached, Sessions
<1>p. TypeOK /\ WorkOK /\ RecOK(proc[p]) /\ proc[p] \in Processes
  BY DEF IndType, TypeOK, WorkOK
<1>m. proc[p].mode \in {"run", "recover"}
  BY <1>p DEF Processes
<1>a. ASSUME proc[p].pc \in Working
      PROVE  ArtOf(p) \in Arts /\ proc[p].job \in Jobs
  BY <1>p, <1>a DEF RecOK, ArtOf, Arts
<1> DEFINE ProcOK == proc' \in [Procs -> Processes] /\ WorkOK'
<1>1. CASE CreateTemp(p)
  <2>1. ProcOK
    BY <1>p, <1>1, GotoType DEF CreateTemp
  <2>2. vol' \in [Arts -> Names]
    BY <1>p, <1>1 DEF CreateTemp, TypeOK, Names, Contents
  <2> QED
    BY <2>1, <2>2, <1>p, <1>1 DEF CreateTemp, IndType, TypeOK, db
<1>2. CASE Adopt(p)
  <2>1. ProcOK
    BY <1>p, <1>2, GotoType DEF Adopt
  <2>2. art' \in [Arts -> ArtStates]
    BY <1>p, <1>2 DEF Adopt, TypeOK, ArtStates, Unfinished
  <2> QED
    BY <2>1, <2>2, <1>p, <1>2 DEF Adopt, IndType, TypeOK, disk
<1>3. CASE EndRender(p)
  <2>1. ProcOK
    BY <1>p, <1>3, GotoType DEF EndRender, Reattach
  <2>2. PICK c \in Contents : vol' = [vol EXCEPT ![ArtOf(p)].temp = c]
    <3>1. vol[ArtOf(p)].temp \in Contents
      BY <1>p, <1>a, <1>3 DEF EndRender, TypeOK, Names
    <3> QED
      BY <3>1, <1>3 DEF EndRender, Contents
  <2>3. vol' \in [Arts -> Names]
    BY <1>p, <2>2 DEF TypeOK, Names
  <2>4. lock' = p /\ UNCHANGED <<db, dur, mounted, faults>>
    BY <1>3 DEF EndRender, Reattach
  <2> QED
    BY <2>1, <2>3, <2>4, <1>p DEF IndType, TypeOK, db
<1>4. CASE Intent(p)
  <2>1. ProcOK
    BY <1>p, <1>4, GotoType DEF Intent
  <2>2. art' \in [Arts -> ArtStates] /\ dur' \in [Arts -> Names]
    BY <1>p, <1>a, <1>4, ArtType DEF Intent, TypeOK, ArtStates, Unfinished
  <2> QED
    BY <2>1, <2>2, <1>p, <1>4 DEF Intent, IndType, TypeOK
<1>5. CASE GiveUp(p)
  <2>1. ProcOK
    BY <1>p, <1>5, GotoType DEF GiveUp
  <2> QED
    BY <2>1, <1>p, <1>5 DEF GiveUp, Fault, IndType, TypeOK, db, disk
<1>6. CASE Publish(p)
  <2>1. ProcOK
    BY <1>p, <1>6, GotoType DEF Publish
  <2> QED
    BY <2>1, <1>p, <1>6 DEF Publish, IndType, TypeOK, db, disk
<1>7. CASE CheckTemp(p)
  <2>1. ProcOK
    BY <1>p, <1>7, GotoType DEF CheckTemp, Reattach
  <2> QED
    BY <2>1, <1>p, <1>7 DEF CheckTemp, Reattach, IndType, TypeOK, db, disk
<1>8. CASE Rename(p)
  <2>1. ProcOK
    BY <1>p, <1>8, GotoType DEF Rename
  <2>2. vol' \in [Arts -> Names]
    BY <1>p, <1>8 DEF Rename, TypeOK, Names, Contents
  <2> QED
    BY <2>1, <2>2, <1>p, <1>8 DEF Rename, IndType, TypeOK, db
<1>9. CASE Sync(p)
  <2>1. ProcOK
    BY <1>p, <1>9, GotoType DEF Sync
  <2>2. dur' \in [Arts -> Names]
    BY <1>p, <1>a, <1>9 DEF Sync, TypeOK
  <2> QED
    BY <2>1, <2>2, <1>p, <1>9 DEF Sync, IndType, TypeOK, db
<1>10. CASE CheckFinal(p)
  <2>1. ProcOK
    BY <1>p, <1>10, GotoType DEF CheckFinal, Reattach
  <2>2. dur' \in [Arts -> Names] /\ lock' = p
    BY <1>p, <1>a, <1>10 DEF CheckFinal, Reattach, TypeOK
  <2> QED
    BY <2>1, <2>2, <1>p, <1>10 DEF CheckFinal, IndType, TypeOK, db
<1>11. CASE Register(p)
  <2>0. ArtOf(p) \in Arts /\ proc[p].job \in Jobs /\ ArtOf(p)[1] \in Jobs
    BY <1>a, <1>11 DEF Register, ArtOf
  <2>1. ProcOK
    BY <1>p, <1>m, <1>11, GotoType DEF Register
  <2>2. job' \in [Jobs -> JobRows]
    BY <1>p, <2>0, <1>11, FinishType DEF Register, TypeOK, db, Phases, Terminal
  <2>3. claim' \in [Jobs -> ClaimRows]
    BY <1>p, <2>0, <1>11, LeaseType DEF Register, TypeOK, db
  <2>4. art' \in [Arts -> ArtStates] /\ registered' \in SUBSET Arts
    BY <1>p, <2>0, <1>11, ArtType DEF Register, TypeOK, db, ArtStates
  <2> QED
    BY <2>1, <2>2, <2>3, <2>4, <1>p, <1>11 DEF Register, IndType, TypeOK, disk
<1>12. CASE Fail(p)
  <2>0. ArtOf(p) \in Arts /\ proc[p].job \in Jobs /\ ArtOf(p)[1] \in Jobs
    BY <1>a, <1>12 DEF Fail, ArtOf
  <2>1. ProcOK
    BY <1>p, <1>m, <1>12, GotoType DEF Fail
  <2>2. job' \in [Jobs -> JobRows]
    BY <1>p, <2>0, <1>12, FinishType DEF Fail, TypeOK, Phases, Terminal
  <2>3. claim' \in [Jobs -> ClaimRows]
    BY <1>p, <2>0, <1>12, LeaseType DEF Fail, TypeOK
  <2>4. art' \in [Arts -> ArtStates]
    BY <1>p, <2>0, <1>12, ArtType DEF Fail, TypeOK, ArtStates
  <2> QED
    BY <2>1, <2>2, <2>3, <2>4, <1>p, <1>12 DEF Fail, IndType, TypeOK, disk
<1> QED
  BY <1>1, <1>2, <1>3, <1>4, <1>5, <1>6, <1>7, <1>8, <1>9, <1>10, <1>11, <1>12
     DEF Attempt

LEMMA RunType ==
    ASSUME IndType, NEW p \in Procs, Run(p)
    PROVE  IndType'
<1> USE DEF Pcs, Working, Detached, Sessions
<1>p. TypeOK /\ WorkOK /\ RecOK(proc[p]) /\ proc[p] \in Processes
  BY DEF IndType, TypeOK, WorkOK
<1> DEFINE ProcOK == proc' \in [Procs -> Processes] /\ WorkOK'
<1>1. CASE OpenRun(p)
  <2>1. PICK S \in SUBSET Jobs :
          proc' = [proc EXCEPT ![p] = [proc[p] EXCEPT !.pc = "run", !.queue = S]]
    BY <1>p, <1>1 DEF OpenRun, TypeOK
  <2> DEFINE r == [proc[p] EXCEPT !.pc = "run", !.queue = S]
  <2>2. r \in Processes /\ RecOK(r)
    BY <1>p DEF Processes, RecOK
  <2>3. ProcOK
    BY <1>p, <2>1, <2>2, SetProc
  <2> QED
    BY <2>3, <1>p, <1>1 DEF OpenRun, IndType, TypeOK, db, disk
<1>2. CASE CloseRun(p)
  <2>1. ProcOK
    BY <1>p, <1>2, NoWorkType, SetProc DEF CloseRun
  <2> QED
    BY <2>1, <1>p, <1>2 DEF CloseRun, IndType, TypeOK, db, disk
<1>3. ASSUME NEW j \in Jobs, Start(p, j)
      PROVE  IndType'
  <2> DEFINE n == job[j].attempts + 1
             r == [proc[p] EXCEPT !.pc = "temp", !.mode = "run", !.job = j,
                                  !.att = n, !.queue = @ \ {j}]
  <2>1. n \in Attempts /\ n \in 0 .. MaxAttempts
    BY <1>p, <1>3 DEF Start, Startable, TypeOK, JobRows, Attempts
  <2>2. r \in Processes /\ RecOK(r)
    BY <1>p, <2>1 DEF Processes, RecOK
  <2>3. /\ job' = [job EXCEPT ![j] = [state |-> "running", attempts |-> n]]
        /\ claim' = [claim EXCEPT ![j] = Claim(p, n)]
        /\ art' = [art EXCEPT ![<<j, n>>] = "planned"]
        /\ proc' = [proc EXCEPT ![p] = r]
        /\ UNCHANGED <<registered, disk, mounted, lock, faults>>
    <3>1. proc' = [proc EXCEPT ![p] = r]
      BY <1>p, <1>3 DEF Start, TypeOK
    <3> QED
      BY <3>1, <1>3 DEF Start
  <2> HIDE DEF n, r
  <2>4. ProcOK
    BY <1>p, <2>2, <2>3, SetProc
  <2>5. job' \in [Jobs -> JobRows]
    BY <1>p, <2>1, <2>3 DEF TypeOK, JobRows, Phases, Terminal
  <2>6. claim' \in [Jobs -> ClaimRows]
    BY <1>p, <2>1, <2>3, ClaimType
  <2>7. art' \in [Arts -> ArtStates]
    BY <1>p, <2>3, ArtType DEF ArtStates, Unfinished
  <2> QED
    BY <1>p, <2>3, <2>4, <2>5, <2>6, <2>7 DEF IndType, TypeOK, disk
<1>4. ASSUME NEW j \in Jobs, StartRefused(p, j)
      PROVE  IndType'
  <2> DEFINE r == [proc[p] EXCEPT !.queue = @ \ {j}]
  <2>1. r \in Processes /\ RecOK(r)
    BY <1>p DEF Processes, RecOK
  <2>2. proc' = [proc EXCEPT ![p] = r]
    BY <1>p, <1>4 DEF StartRefused, TypeOK
  <2>3. ProcOK
    BY <1>p, <2>1, <2>2, SetProc
  <2> QED
    BY <2>3, <1>p, <1>4 DEF StartRefused, IndType, TypeOK, db, disk
<1> QED
  BY <1>1, <1>2, <1>3, <1>4 DEF Run

LEMMA RecoverType ==
    ASSUME IndType, NEW p \in Procs, Recover(p)
    PROVE  IndType'
<1> USE DEF Pcs, Working, Detached, Sessions
<1>p. TypeOK /\ WorkOK /\ RecOK(proc[p]) /\ proc[p] \in Processes
  BY DEF IndType, TypeOK, WorkOK
<1> DEFINE ProcOK == proc' \in [Procs -> Processes] /\ WorkOK'
<1>1. CASE OpenRecover(p)
  <2> DEFINE r == [proc[p] EXCEPT !.pc = "recover", !.list = Pending]
  <2>1. r \in Processes /\ RecOK(r)
    BY <1>p DEF Processes, RecOK, Pending
  <2>2. proc' = [proc EXCEPT ![p] = r]
    BY <1>p, <1>1 DEF OpenRecover, TypeOK
  <2>3. ProcOK
    BY <1>p, <2>1, <2>2, SetProc
  <2> QED
    BY <2>3, <1>p, <1>1 DEF OpenRecover, IndType, TypeOK, db, disk
<1>2. CASE CloseRecover(p)
  <2>1. ProcOK
    BY <1>p, <1>2, NoWorkType, SetProc DEF CloseRecover
  <2> QED
    BY <2>1, <1>p, <1>2 DEF CloseRecover, IndType, TypeOK, db, disk
<1>3. ASSUME NEW a \in Arts, Visited(p, a)
      PROVE  ProcOK
  <2> DEFINE r == [proc[p] EXCEPT !.list = @ \ {a}]
  <2>1. r \in Processes /\ RecOK(r)
    BY <1>p DEF Processes, RecOK
  <2>2. proc' = [proc EXCEPT ![p] = r]
    BY <1>p, <1>3 DEF Visited, TypeOK
  <2> QED
    BY <1>p, <2>1, <2>2, SetProc
<1>4. ASSUME NEW a \in Arts, SkipOwned(p, a) \/ RefuseIntent(p, a)
      PROVE  IndType'
  <2>1. ProcOK
    BY <1>3, <1>4 DEF SkipOwned, RefuseIntent
  <2> QED
    BY <2>1, <1>p, <1>4 DEF SkipOwned, RefuseIntent, IndType, TypeOK, db, disk
<1>5. ASSUME NEW a \in Arts, ResumeIntent(p, a)
      PROVE  IndType'
  <2> DEFINE r == [proc[p] EXCEPT !.pc = "publish", !.mode = "recover",
                                  !.job = a[1], !.att = a[2], !.list = @ \ {a}]
  <2>1. a[1] \in Jobs /\ a[2] \in Attempts /\ a[2] \in 0 .. MaxAttempts
    BY DEF Arts, Attempts
  <2>2. r \in Processes /\ RecOK(r)
    BY <1>p, <2>1 DEF Processes, RecOK
  <2>3. proc' = [proc EXCEPT ![p] = r]
    BY <1>p, <1>5 DEF ResumeIntent, TypeOK
  <2> HIDE DEF r
  <2>4. ProcOK
    BY <1>p, <2>2, <2>3, SetProc
  <2>5. claim' \in [Jobs -> ClaimRows]
    BY <1>p, <1>5, <2>1, ClaimType DEF ResumeIntent
  <2> QED
    BY <2>4, <2>5, <1>p, <1>5 DEF ResumeIntent, IndType, TypeOK, disk
<1>6. ASSUME NEW a \in Arts, Interrupt(p, a)
      PROVE  IndType'
  <2>1. ProcOK
    BY <1>3, <1>6 DEF Interrupt
  <2>2. job' \in [Jobs -> JobRows] /\ art' \in [Arts -> ArtStates]
    BY <1>p, <1>6, FinishType, ArtType DEF Interrupt, Phases, Terminal, ArtStates
  <2> QED
    BY <2>1, <2>2, <1>p, <1>6 DEF Interrupt, IndType, TypeOK, disk
<1> QED
  BY <1>1, <1>2, <1>4, <1>5, <1>6 DEF Recover

LEMMA ApiType ==
    ASSUME IndType, NEW p \in Procs, Api(p)
    PROVE  IndType'
<1> USE DEF Pcs, Working, Detached, Sessions
<1>p. TypeOK /\ WorkOK /\ RecOK(proc[p]) /\ proc[p] \in Processes
  BY DEF IndType, TypeOK, WorkOK
<1> DEFINE ProcOK == proc' \in [Procs -> Processes] /\ WorkOK'
<1>1. ASSUME NEW j \in Jobs, ApiTick(p, j)
      PROVE  IndType'
  <2> DEFINE r == [proc[p] EXCEPT !.pc = "recover", !.list = Pending, !.resume = j]
  <2>1. r \in Processes /\ RecOK(r)
    BY <1>p DEF Processes, RecOK, Pending
  <2>2. proc' = [proc EXCEPT ![p] = r]
    BY <1>p, <1>1 DEF ApiTick, TypeOK
  <2>3. ProcOK
    BY <1>p, <2>1, <2>2, SetProc
  <2> QED
    BY <2>3, <1>p, <1>1 DEF ApiTick, IndType, TypeOK, db, disk
<1>2. CASE ResumeWork(p)
  <2>1. proc[p].resume \in Jobs
    BY <1>p, <1>2 DEF ResumeWork, Processes
  <2>2. ProcOK
    BY <1>p, <1>2, <2>1, GotoType DEF ResumeWork
  <2>3. job' \in [Jobs -> JobRows]
    BY <1>p, <1>2, <2>1 DEF ResumeWork, TypeOK, JobRows, Phases, Terminal
  <2> QED
    BY <2>2, <2>3, <1>p, <1>2 DEF ResumeWork, IndType, TypeOK, disk
<1>3. CASE ApiRun(p)
  <2> DEFINE r == [NoWork EXCEPT !.pc = "run", !.queue = {proc[p].resume}]
  <2>1. r \in Processes /\ RecOK(r)
    <3>1. proc[p].resume \in Jobs
      BY <1>p, <1>3 DEF ApiRun, RecOK
    <3>2. NoWork \in Processes
      BY NoWorkType
    <3>3. r \in Processes /\ r.pc = "run"
      BY <3>1, <3>2 DEF Processes
    <3> QED
      BY <3>3 DEF RecOK
  <2>2. proc' = [proc EXCEPT ![p] = r] \/ proc' = [proc EXCEPT ![p] = NoWork]
    BY <1>3 DEF ApiRun
  <2> HIDE DEF r
  <2>3. ProcOK
    BY <1>p, <2>1, <2>2, NoWorkType, SetProc
  <2> QED
    BY <2>3, <1>p, <1>3 DEF ApiRun, IndType, TypeOK, db, disk
<1> QED
  BY <1>1, <1>2, <1>3 DEF Api

LEMMA EnvironmentType == IndType /\ Environment => IndType'
<1> SUFFICES ASSUME IndType, Environment PROVE IndType'
  OBVIOUS
<1>p. TypeOK /\ WorkOK
  BY DEF IndType
<1>f. ASSUME Fault PROVE faults' \in 0 .. MaxFaults
  BY <1>p, <1>f DEF Fault, TypeOK
<1>1. CASE Tick
  <2>1. claim' \in [Jobs -> ClaimRows]
    <3>2. ASSUME NEW j \in Jobs PROVE claim'[j] \in ClaimRows
      <4>1. claim[j] \in ClaimRows
        BY <1>p DEF TypeOK
      <4>2. Shorter(claim[j].lease) \in 0 .. LeaseTicks
        BY <4>1 DEF ClaimRows, Shorter
      <4>3. claim'[j] = [claim[j] EXCEPT !.lease = Shorter(claim[j].lease)]
        BY <1>1 DEF Tick
      <4> QED
        BY <4>1, <4>2, <4>3 DEF ClaimRows
    <3>3. claim' = [j \in Jobs |-> claim'[j]]
      BY <1>1 DEF Tick
    <3> QED
      BY <3>2, <3>3
  <2> QED
    BY <2>1, <1>p, <1>f, <1>1 DEF Tick, IndType, TypeOK, WorkOK, disk
<1>2. CASE PowerLoss
  <2>1. vol' \in [Arts -> Names] /\ dur' \in [Arts -> Names]
    BY <1>p, <1>2 DEF PowerLoss, TypeOK
  <2>2. proc' \in [Procs -> Processes] /\ WorkOK'
    BY <1>2, NoWorkType DEF PowerLoss, WorkOK
  <2> QED
    BY <2>1, <2>2, <1>p, <1>f, <1>2 DEF PowerLoss, IndType, TypeOK, db
<1>3. CASE Unmount \/ Mount
  BY <1>p, <1>f, <1>3 DEF Unmount, Mount, IndType, TypeOK, WorkOK, db, disk
<1>4. ASSUME NEW p \in Procs, Heartbeat(p) PROVE IndType'
  <2>1. proc[p].job \in Jobs
    BY <1>p, <1>4 DEF Heartbeat, WorkOK, RecOK, Working
  <2>2. claim' \in [Jobs -> ClaimRows]
    BY <1>p, <1>4, <2>1, LeaseTicks \in 0 .. LeaseTicks, LeaseType DEF Heartbeat
  <2> QED
    BY <2>2, <1>p, <1>4 DEF Heartbeat, IndType, TypeOK, WorkOK, disk
<1>5. ASSUME NEW p \in Procs, SessionLost(p) \/ Crash(p) \/ Restart(p)
      PROVE  IndType'
  <2>1. proc' \in [Procs -> Processes] /\ WorkOK'
    BY <1>p, <1>5, NoWorkType, SetProc DEF SessionLost, Crash, Restart
  <2> QED
    BY <2>1, <1>p, <1>f, <1>5 DEF SessionLost, Crash, Restart, IndType, TypeOK, db, disk
<1>6. ASSUME NEW a \in Arts, Tamper(a) PROVE IndType'
  <2>1. vol' \in [Arts -> Names]
    BY <1>p, <1>6 DEF Tamper, TypeOK, Names, Contents
  <2> QED
    BY <2>1, <1>p, <1>f, <1>6 DEF Tamper, IndType, TypeOK, WorkOK, db
<1> QED
  BY <1>1, <1>2, <1>3, <1>4, <1>5, <1>6 DEF Environment

LEMMA TypeStep == IndType /\ [Next]_vars => IndType'
<1> SUFFICES ASSUME IndType, [Next]_vars PROVE IndType'
  OBVIOUS
<1>1. CASE UNCHANGED vars
  BY <1>1 DEF vars, IndType, TypeOK, WorkOK
<1>2. CASE Next
  BY <1>2, CommandsType, AttemptType, RunType, RecoverType, ApiType,
     EnvironmentType DEF Next
<1> QED
  BY <1>1, <1>2

(* Every row, name and process record stays in its domain, and a process    *)
(* that works on an attempt works on an existing one.                       *)
THEOREM TypeInvariant == Spec => []IndType
BY InitType, TypeStep, PTL DEF Spec

(* The type invariant the runs check, for every value of the constants.     *)
THEOREM TypeCorrect == Spec => []TypeOK
BY TypeInvariant, PTL DEF IndType

-----------------------------------------------------------------------------
(* The rows of the catalog: which steps write them, and what follows.       *)

RowStep ==
    \/ \E j \in Jobs : Enqueue(j) \/ Cancel(j) \/ Retry(j)
    \/ \E p \in Procs :
         \/ Adopt(p) \/ Intent(p) \/ Register(p) \/ Fail(p)
         \/ p \in ApiWorkers /\ ResumeWork(p)
         \/ \E j \in Jobs : Start(p, j)
         \/ \E a \in Arts : Interrupt(p, a)

LEMMA RowSteps == [Next]_vars => RowStep \/ UNCHANGED <<job, art, registered>>
<1> SUFFICES ASSUME [Next]_vars, ~RowStep
             PROVE  UNCHANGED <<job, art, registered>>
  OBVIOUS
<1>1. CASE UNCHANGED vars
  BY <1>1 DEF vars
<1>2. CASE Commands
  BY <1>2 DEF Commands, RowStep
<1>3. ASSUME NEW p \in Procs, Attempt(p) PROVE UNCHANGED <<job, art, registered>>
  BY <1>3 DEF Attempt, RowStep, CreateTemp, EndRender, GiveUp, Publish, CheckTemp,
     Rename, Sync, CheckFinal, db
<1>4. ASSUME NEW p \in Procs, Run(p) PROVE UNCHANGED <<job, art, registered>>
  BY <1>4 DEF Run, RowStep, OpenRun, CloseRun, StartRefused, db
<1>5. ASSUME NEW p \in Procs, Recover(p) PROVE UNCHANGED <<job, art, registered>>
  <2>1. CASE OpenRecover(p) \/ CloseRecover(p)
    BY <2>1 DEF OpenRecover, CloseRecover, db
  <2>2. ASSUME NEW a \in Arts, SkipOwned(p, a) \/ RefuseIntent(p, a)
        PROVE  UNCHANGED <<job, art, registered>>
    <3>1. UNCHANGED db
      BY <2>2 DEF SkipOwned, RefuseIntent
    <3> QED
      BY <3>1 DEF db
  <2>3. ASSUME NEW a \in Arts, ResumeIntent(p, a)
        PROVE  UNCHANGED <<job, art, registered>>
    BY <2>3 DEF ResumeIntent
  <2>4. ASSUME NEW a \in Arts, Interrupt(p, a)
        PROVE  UNCHANGED <<job, art, registered>>
    BY <2>4 DEF RowStep
  <2> QED
    BY <1>5, <2>1, <2>2, <2>3, <2>4 DEF Recover
<1>6. ASSUME NEW p \in Procs, Api(p) PROVE UNCHANGED <<job, art, registered>>
  BY <1>6 DEF Api, RowStep, ApiTick, ApiRun, db
<1>7. CASE Environment
  BY <1>7 DEF Environment, Tick, PowerLoss, Unmount, Mount, Heartbeat, SessionLost,
     Crash, Restart, Tamper, db
<1> QED
  BY <1>1, <1>2, <1>3, <1>4, <1>5, <1>6, <1>7 DEF Next

(* An attempt that passes the fence is the last one of a running job.       *)
LEMMA FencedJob ==
    ASSUME NEW p \in Procs, Fenced(p)
    PROVE  /\ job[proc[p].job].state = "running"
           /\ job[proc[p].job].attempts = proc[p].att
           /\ claim[proc[p].job].owner = p
           /\ claim[proc[p].job].lease > 0
BY DEF Fenced, Fence, Live

LEMMA SameRow ==
    ASSUME NEW r \in JobRows, NEW s \in JobRows,
           r.state = s.state, r.attempts = s.attempts
    PROVE  r = s
BY DEF JobRows

LEMMA FinishRow ==
    ASSUME IndType, NEW a \in Arts, NEW s \in Phases, Finish(a, s)
    PROVE  \A j \in Jobs :
             /\ job'[j].attempts = job[j].attempts
             /\ job'[j].state \in {job[j].state, s}
             /\ job'[j] # job[j] =>
                  j = a[1] /\ job[j].attempts = a[2] /\ job[j].state # "cancelled"
<1>t. job \in [Jobs -> JobRows] /\ job' \in [Jobs -> JobRows]
  BY FinishType DEF IndType, TypeOK
<1>1. \A j \in Jobs :
        /\ job'[j].attempts = job[j].attempts
        /\ job'[j].state \in {job[j].state, s}
        /\ job'[j].state # job[j].state =>
             j = a[1] /\ job[j].attempts = a[2] /\ job[j].state # "cancelled"
  <2> DEFINE t == IF job[a[1]].attempts = a[2] /\ job[a[1]].state # "cancelled"
                    THEN s ELSE job[a[1]].state
  <2>1. job' = [job EXCEPT ![a[1]].state = t]
    BY DEF Finish
  <2>2. t \in {job[a[1]].state, s} /\ (t # job[a[1]].state =>
          job[a[1]].attempts = a[2] /\ job[a[1]].state # "cancelled")
    OBVIOUS
  <2> HIDE DEF t
  <2> QED
    BY <1>t, <2>1, <2>2 DEF JobRows
<1> QED
  BY <1>t, <1>1, SameRow

(* Nothing but a retry brings a cancelled job back: late results, failures  *)
(* and recoveries of its old attempts leave it cancelled.                   *)
THEOREM CancelHolds == Spec => CancelSticks
<1> DEFINE Sticks == \A j \in Jobs : job[j].state = "cancelled" /\ job'[j] # job[j] =>
              job'[j] = [job[j] EXCEPT !.state = "queued"] /\ lock = NoProc
<1>1. IndType /\ [Next]_vars => Sticks
  <2> SUFFICES ASSUME IndType, [Next]_vars PROVE Sticks
    OBVIOUS
  <2>t. job \in [Jobs -> JobRows] /\ WorkOK
    BY DEF IndType, TypeOK
  <2>1. CASE UNCHANGED <<job, art, registered>>
    BY <2>1
  <2>2. ASSUME NEW k \in Jobs, Enqueue(k) \/ Cancel(k) \/ Retry(k) PROVE Sticks
    BY <2>2, <2>t DEF Enqueue, Cancel, Retry, CanCancel, JobRows
  <2>3. ASSUME NEW p \in Procs, Adopt(p) \/ Intent(p) PROVE Sticks
    BY <2>3 DEF Adopt, Intent
  <2>4. ASSUME NEW p \in Procs, Register(p) \/ Fail(p) PROVE Sticks
    <3>1. ArtOf(p) \in Arts
      BY <2>4, <2>t DEF Register, Fail, WorkOK, RecOK, Working, Detached, ArtOf, Arts
    <3>2. UNCHANGED job \/ \E s \in Phases : Finish(ArtOf(p), s)
      BY <2>4 DEF Register, Fail, db, Phases, Terminal
    <3> QED
      BY <3>1, <3>2, FinishRow
  <2>5. ASSUME NEW p \in Procs, ResumeWork(p) PROVE Sticks
    BY <2>5, <2>t DEF ResumeWork, JobRows
  <2>6. ASSUME NEW p \in Procs, NEW k \in Jobs, Start(p, k) PROVE Sticks
    BY <2>6, <2>t DEF Start, Startable
  <2>7. ASSUME NEW p \in Procs, NEW a \in Arts, Interrupt(p, a) PROVE Sticks
    BY <2>7, FinishRow DEF Interrupt, Phases, Terminal
  <2> QED
    BY <2>1, <2>2, <2>3, <2>4, <2>5, <2>6, <2>7, RowSteps DEF RowStep
<1> QED
  BY <1>1, TypeInvariant, PTL DEF Spec, CancelSticks

-----------------------------------------------------------------------------
(* How the row of an artifact changes.                                      *)

ArtStep(a) ==
    \/ \E p \in Procs : /\ Start(p, a[1])
                        /\ a[2] = job[a[1]].attempts + 1
                        /\ art'[a] = "planned"
    \/ \E p \in Procs : /\ Adopt(p) /\ a = ArtOf(p)
                        /\ art[a] = "planned" /\ art'[a] = "writing"
    \/ \E p \in Procs : /\ Intent(p) /\ a = ArtOf(p) /\ Fenced(p)
                        /\ art[a] = "writing" /\ art'[a] = "publishing"
    \/ \E p \in Procs : /\ Register(p) /\ a = ArtOf(p)
                        /\ art'[a] = "ready" /\ a \in registered'
    \/ \E p \in Procs : /\ Fail(p) /\ a = ArtOf(p)
                        /\ art[a] \notin {"publishing", "ready"} /\ art'[a] = "failed"
    \/ \E p \in Procs : /\ Interrupt(p, a)
                        /\ art[a] # "publishing" /\ art'[a] = "interrupted"

LEMMA ArtSteps ==
    ASSUME IndType, [Next]_vars, NEW a \in Arts, art'[a] # art[a]
    PROVE  ArtStep(a)
<1>t. art \in [Arts -> ArtStates] /\ a = <<a[1], a[2]>> /\ a[1] \in Jobs
  BY DEF IndType, TypeOK, Arts
<1>1. CASE UNCHANGED <<job, art, registered>>
  BY <1>1
<1>2. ASSUME NEW j \in Jobs, Enqueue(j) \/ Cancel(j) \/ Retry(j) PROVE FALSE
  BY <1>2 DEF Enqueue, Cancel, Retry
<1>3. ASSUME NEW p \in Procs, Adopt(p) PROVE ArtStep(a)
  BY <1>3, <1>t DEF Adopt, ArtStep
<1>4. ASSUME NEW p \in Procs, Intent(p) PROVE ArtStep(a)
  BY <1>4, <1>t DEF Intent, ArtStep
<1>5. ASSUME NEW p \in Procs, Register(p) PROVE ArtStep(a)
  BY <1>5, <1>t DEF Register, ArtStep, db
<1>6. ASSUME NEW p \in Procs, Fail(p) PROVE ArtStep(a)
  BY <1>6, <1>t DEF Fail, ArtStep
<1>7. ASSUME NEW p \in Procs, ResumeWork(p) PROVE FALSE
  BY <1>7 DEF ResumeWork
<1>8. ASSUME NEW p \in Procs, NEW j \in Jobs, Start(p, j) PROVE ArtStep(a)
  <2>1. a = <<j, job[j].attempts + 1>> /\ art'[a] = "planned"
    BY <1>8, <1>t DEF Start
  <2>2. a[1] = j /\ a[2] = job[a[1]].attempts + 1
    BY <2>1
  <2> QED
    BY <1>8, <2>1, <2>2 DEF ArtStep
<1>9. ASSUME NEW p \in Procs, NEW b \in Arts, Interrupt(p, b) PROVE ArtStep(a)
  BY <1>9, <1>t DEF Interrupt, ArtStep
<1> QED
  BY <1>1, <1>2, <1>3, <1>4, <1>5, <1>6, <1>7, <1>8, <1>9, RowSteps DEF RowStep

(* One job never has two unfinished artifacts: a new attempt starts only    *)
(* when the earlier ones are settled, with the HTTP worker's requeueing too. *)
THEOREM OneUnfinishedHolds == Spec => []OneUnfinished
<1>1. Init => OneUnfinished
  BY DEF Init, OneUnfinished, Pending, Unfinished
<1>2. IndType /\ OneUnfinished /\ [Next]_vars => OneUnfinished'
  <2> SUFFICES ASSUME IndType, OneUnfinished, [Next]_vars,
                      NEW a \in Arts, NEW b \in Arts,
                      art'[a] \in Unfinished, art'[b] \in Unfinished, a[1] = b[1]
               PROVE  a = b
    BY DEF OneUnfinished, Pending
  <2>1. ASSUME NEW x \in Arts, art'[x] \in Unfinished
        PROVE  \/ art[x] \in Unfinished
               \/ /\ \A n \in Attempts : art[<<x[1], n>>] \notin Unfinished
                  /\ x[2] = job[x[1]].attempts + 1
    <3>1. CASE art'[x] = art[x]
      BY <2>1, <3>1
    <3>2. CASE art'[x] # art[x]
      <4>1. ArtStep(x)
        BY <3>2, ArtSteps
      <4>2. ASSUME NEW p \in Procs, Start(p, x[1])
            PROVE  \A n \in Attempts : art[<<x[1], n>>] \notin Unfinished
        BY <4>2 DEF Start, Startable, Pending, Arts
      <4> QED
        BY <2>1, <4>1, <4>2 DEF ArtStep, Unfinished
    <3> QED
      BY <3>1, <3>2
  <2>2. /\ a = <<a[1], a[2]>> /\ a[2] \in Attempts
        /\ b = <<b[1], b[2]>> /\ b[2] \in Attempts
    BY DEF Arts
  <2>3. CASE art[a] \in Unfinished /\ art[b] \in Unfinished
    BY <2>3 DEF OneUnfinished, Pending
  <2> QED
    BY <2>1, <2>2, <2>3
<1> QED
  BY <1>1, <1>2, TypeInvariant, PTL DEF Spec

(* A committed publication intent pins its job, as long as no HTTP worker   *)
(* requeues jobs behind it: cancellation, retry, a late failure and a new   *)
(* attempt all leave the attempt of an intent alone.                        *)
THEOREM IntentPinsJobHolds ==
    ASSUME ApiWorkers = {}
    PROVE  Spec => []IntentPinsJob
<1>1. Init => IntentPinsJob
  BY DEF Init, IntentPinsJob
<1>2. IndType /\ IntentPinsJob /\ [Next]_vars => IntentPinsJob'
  <2> SUFFICES ASSUME IndType, IntentPinsJob, [Next]_vars,
                      NEW a \in Arts, art'[a] = "publishing"
               PROVE  job'[a[1]].state = "running" /\ job'[a[1]].attempts = a[2]
    BY DEF IntentPinsJob
  <2>t. /\ job \in [Jobs -> JobRows] /\ WorkOK /\ a[1] \in Jobs /\ a = <<a[1], a[2]>>
        /\ a[2] \in Attempts
    BY DEF IndType, TypeOK, Arts
  <2>1. CASE art[a] # "publishing"
    <3>1. PICK p \in Procs : Intent(p) /\ a = ArtOf(p) /\ Fenced(p)
      BY <2>1, ArtSteps DEF ArtStep
    <3> QED
      BY <3>1, <2>t, FencedJob DEF Intent, ArtOf
  <2>2. CASE art[a] = "publishing"
    <3>p. job[a[1]].state = "running" /\ job[a[1]].attempts = a[2]
      BY <2>2 DEF IntentPinsJob
    <3>1. CASE UNCHANGED <<job, art, registered>>
      BY <3>1, <3>p
    <3>2. ASSUME NEW j \in Jobs, Enqueue(j) \/ Cancel(j) \/ Retry(j)
          PROVE  job'[a[1]] = job[a[1]]
      <4>1. \E n \in Attempts : art[<<a[1], n>>] = "publishing"
        BY <2>2, <2>t
      <4>2. job'[a[1]] = job[a[1]] \/ j = a[1]
        BY <3>2, <2>t DEF Enqueue, Cancel, Retry
      <4>3. j # a[1]
        BY <3>2, <4>1, <3>p DEF Enqueue, Cancel, Retry, CanCancel, CanRetry
      <4> QED
        BY <4>2, <4>3
    <3>3. ASSUME NEW p \in Procs, Adopt(p) \/ Intent(p)
          PROVE  job'[a[1]] = job[a[1]]
      BY <3>3 DEF Adopt, Intent
    <3>4. ASSUME NEW p \in Procs, NEW b \in Arts, NEW s \in Phases, Finish(b, s),
                 art'[b] # "publishing"
          PROVE  job'[a[1]] = job[a[1]]
      <4>1. CASE job'[a[1]] # job[a[1]]
        <5>1. a[1] = b[1] /\ job[a[1]].attempts = b[2]
          BY <3>4, <4>1, <2>t, FinishRow
        <5>2. a = b
          <6>1. b = <<b[1], b[2]>>
            BY DEF Arts
          <6>2. a = <<a[1], a[2]>> /\ a[1] = b[1] /\ a[2] = b[2]
            BY <5>1, <3>p, <2>t
          <6> QED
            BY <6>1, <6>2
        <5> QED
          BY <5>2, <3>4
      <4> QED
        BY <4>1
    <3>5. ASSUME NEW p \in Procs, Register(p) \/ Fail(p)
          PROVE  job'[a[1]] = job[a[1]]
      <4>1. ArtOf(p) \in Arts
        BY <3>5, <2>t DEF Register, Fail, WorkOK, RecOK, Working, Detached, ArtOf, Arts
      <4>2. \/ UNCHANGED job
            \/ /\ \E s \in Phases : Finish(ArtOf(p), s)
               /\ art'[ArtOf(p)] # "publishing"
        BY <3>5, <4>1 DEF Register, Fail, db, Phases, Terminal, IndType, TypeOK
      <4> QED
        BY <4>1, <4>2, <3>4
    <3>6. ASSUME NEW p \in Procs, NEW j \in Jobs, Start(p, j)
          PROVE  job'[a[1]] = job[a[1]]
      BY <3>6, <3>p, <2>t DEF Start, Startable
    <3>7. ASSUME NEW p \in Procs, NEW b \in Arts, Interrupt(p, b)
          PROVE  job'[a[1]] = job[a[1]]
      <4>1. Finish(b, "failed") /\ art'[b] # "publishing"
        BY <3>7 DEF Interrupt, IndType, TypeOK
      <4> QED
        BY <4>1, <3>4, <3>7 DEF Phases, Terminal
    <3> QED
      BY <3>p, <3>1, <3>2, <3>3, <3>5, <3>6, <3>7, RowSteps DEF RowStep
  <2> QED
    BY <2>1, <2>2
<1> QED
  BY <1>1, <1>2, TypeInvariant, PTL DEF Spec
=============================================================================
