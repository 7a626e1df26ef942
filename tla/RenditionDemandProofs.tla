------------------------ MODULE RenditionDemandProofs ------------------------
(***************************************************************************)
(* What RenditionDemand promises for every number of callers, keys, jobs   *)
(* and slots.  The ledger invariants are nearly inductive; they need that  *)
(* a job not created yet is queued (it is created so), and                 *)
(* PendingIsReserved needs that nobody retries the job behind the ledger's *)
(* back: it speaks of the jobs outside LocalRetries.  EveryDemandAnswered  *)
(* is a property of steps, proved from the invariant AnswerInv.            *)
(***************************************************************************)
EXTENDS RenditionDemand, FiniteSetTheorems, TLAPS

(* A job that does not exist yet will be created queued and unreserved.     *)
Fresh == \A j \in Jobs : ~Exists(j) => job[j] = "queued" /\ j \notin reserved

-----------------------------------------------------------------------------
(* What the triggers write is a demand state again.                         *)
LEMMA FanType ==
    ASSUME TypeOK, NEW s \in JobStates
    PROVE  Fan(s) \in DemandStates /\ Fan(s) # "none"
  BY DEF Fan, JobStates, DemandStates, Pending, Terminal

LEMMA FannedType ==
    ASSUME TypeOK, NEW j \in Jobs, NEW s \in JobStates
    PROVE  /\ Fanned(j, s) \in [Demands -> DemandStates]
           /\ \A d \in Demands : Fanned(j, s)[d] = "none" <=> demand[d] = "none"
  <1> Fan(s) \in DemandStates /\ Fan(s) # "none"
    BY FanType
  <1> SUFFICES ASSUME NEW d \in Demands
               PROVE  /\ Fanned(j, s)[d] \in DemandStates
                      /\ Fanned(j, s)[d] = "none" <=> demand[d] = "none"
    BY DEF Fanned
  <1> CASE of[d] = j
    BY DEF Fanned, TypeOK, Jobs, NoJob
  <1> CASE of[d] # j
    BY DEF Fanned, TypeOK
  <1> QED OBVIOUS

(* An enqueue yields a job that exists afterwards.                          *)
LEMMA EnqueuedType ==
    ASSUME TypeOK, Fresh, NEW j \in Jobs, NEW usable \in BOOLEAN, Enqueued(j, usable)
    PROVE  /\ created' \in 0 .. MaxJobs
           /\ created <= created'
           /\ j <= created'
           /\ j > created => job[j] = "queued"
  BY DemandAssumption DEF TypeOK, Fresh, Exists, Enqueued, Jobs, NoJob

-----------------------------------------------------------------------------
(* Every row stays in its domain and every demand has the job it was given. *)
LEMMA JobMovesType ==
    ASSUME TypeOK, Fresh, NEW j \in Jobs, NEW s \in JobStates, Exists(j), JobMoves(j, s)
    PROVE  TypeOK' /\ Fresh'
  <1>1. /\ demand' \in [Demands -> DemandStates]
        /\ \A d \in Demands : demand'[d] = "none" <=> demand[d] = "none"
    BY FannedType DEF JobMoves
  <1>2. TypeOK'
    BY <1>1 DEF TypeOK, JobMoves, Released, policy
  <1>3. Fresh'
    BY DEF TypeOK, Fresh, Exists, JobMoves, Released
  <1> QED BY <1>2, <1>3

LEMMA ReserveType ==
    ASSUME TypeOK, NEW j \in Jobs, Reserve(j)
    PROVE  reserved' \in {reserved, reserved \cup {j}}
  BY DEF Reserve

LEMMA AdmitType ==
    ASSUME TypeOK, Fresh, NEW d \in Demands, Admit(d)
    PROVE  TypeOK' /\ Fresh'
  <1>1. PICK j \in Jobs, usable \in BOOLEAN :
          /\ Enqueued(j, usable)
          /\ Reserve(j)
          /\ of' = [of EXCEPT ![d] = j]
          /\ demand' = [demand EXCEPT ![d] = Fan(job[j])]
    BY DEF Admit
  <1>2. /\ created' \in 0 .. MaxJobs /\ created <= created' /\ j <= created'
    BY <1>1, EnqueuedType
  <1>3. reserved' \in {reserved, reserved \cup {j}}
    BY <1>1, ReserveType
  <1>4. Fan(job[j]) \in DemandStates /\ Fan(job[j]) # "none"
    BY FanType DEF TypeOK
  <1>5. \A e \in Demands : of'[e] <= created' /\ (of'[e] = NoJob <=> demand'[e] = "none")
    <2> TAKE e \in Demands
    <2>1. CASE e = d
      BY <1>1, <1>2, <1>4, <2>1 DEF TypeOK, Jobs, NoJob
    <2>2. CASE e # d
      <3>1. of'[e] = of[e] /\ demand'[e] = demand[e]
        BY <1>1, <2>2 DEF TypeOK
      <3> QED BY <3>1, <1>2 DEF TypeOK, Jobs, NoJob
    <2> QED BY <2>1, <2>2
  <1>6. TypeOK'
    <2>1. of' \in [Demands -> Jobs \cup {NoJob}] /\ demand' \in [Demands -> DemandStates]
      BY <1>1, <1>4 DEF TypeOK
    <2> QED BY <2>1, <1>2, <1>3, <1>5 DEF TypeOK, Admit, policy
  <1>7. Fresh'
    BY <1>2, <1>3, DemandAssumption DEF TypeOK, Fresh, Exists, Admit, Jobs
  <1> QED BY <1>6, <1>7

LEMMA RetryType ==
    ASSUME TypeOK, Fresh, NEW d \in Demands, Retry(d)
    PROVE  TypeOK' /\ Fresh' /\ of[d] \in Jobs /\ Exists(of[d])
  <1> DEFINE j == of[d]
             requeue == job[j] \in {"failed", "cancelled"}
             base == IF requeue THEN Fanned(j, "queued") ELSE demand
  <1>1. j \in Jobs /\ Exists(j)
    BY DEF Retry, TypeOK, Exists
  <1>2. reserved' \in {reserved, reserved \cup {j}}
    BY <1>1, ReserveType DEF Retry
  <1>3. /\ base \in [Demands -> DemandStates]
        /\ \A e \in Demands : base[e] = "none" <=> demand[e] = "none"
    BY <1>1, FannedType DEF TypeOK, JobStates, Pending
  <1>4. demand' = [base EXCEPT ![d] = IF job[j] = "complete" THEN "ready" ELSE "queued"]
    BY DEF Retry
  <1> HIDE DEF base
  <1>5. /\ demand' \in [Demands -> DemandStates]
        /\ \A e \in Demands : demand'[e] = "none" <=> demand[e] = "none"
    BY <1>3, <1>4 DEF DemandStates, Pending, Retry
  <1>6. job' \in [Jobs -> JobStates] /\ \A i \in Jobs : i # j => job'[i] = job[i]
    BY DEF Retry, TypeOK, JobStates, Pending
  <1>7. TypeOK'
    BY <1>1, <1>2, <1>5, <1>6 DEF TypeOK, Retry, policy
  <1>8. Fresh'
    BY <1>1, <1>2, <1>6 DEF TypeOK, Fresh, Exists, Retry
  <1> QED BY <1>1, <1>7, <1>8

LEMMA InitType == Init => TypeOK /\ Fresh
  BY DemandAssumption
  DEF Init, TypeOK, Fresh, Exists, Jobs, NoJob, JobStates, DemandStates, Pending

LEMMA NextType ==
    ASSUME TypeOK, Fresh, [Next]_vars
    PROVE  TypeOK' /\ Fresh'
  <1>1. CASE \E j \in Jobs : \/ Start(j) \/ Finish(j) \/ Resume(j)
                             \/ LocalCancel(j) \/ LocalRetry(j)
    <2>1. PICK j \in Jobs, s \in JobStates : Exists(j) /\ JobMoves(j, s)
      BY <1>1 DEF Start, Finish, Resume, LocalCancel, LocalRetry, JobStates, Pending, Terminal
    <2> QED BY <2>1, JobMovesType
  <1>2. CASE \E j \in Jobs : LocalEnqueue(j)
    <2>1. PICK j \in Jobs, usable \in BOOLEAN : Enqueued(j, usable)
      BY <1>2 DEF LocalEnqueue
    <2>2. UNCHANGED <<job, demand, of, reserved, granted, approved, current>>
      BY <1>2 DEF LocalEnqueue, policy
    <2>3. created' \in 0 .. MaxJobs /\ created <= created'
      BY <2>1, EnqueuedType
    <2>4. TypeOK'
      BY <2>2, <2>3 DEF TypeOK, Jobs, NoJob
    <2>5. Fresh'
      BY <2>2, <2>3 DEF TypeOK, Fresh, Exists, Jobs
    <2> QED BY <2>4, <2>5
  <1>3. CASE \E d \in Demands : Admit(d)
    BY <1>3, AdmitType
  <1>4. CASE \E d \in Demands : Cancel(d)
    BY <1>4 DEF Cancel, TypeOK, Fresh, Exists, DemandStates, policy
  <1>5. CASE \E d \in Demands : Retry(d)
    BY <1>5, RetryType
  <1>6. CASE \E d \in Demands : Block(d)
    <2>1. PICK d \in Demands : Block(d)
      BY <1>6
    <2>2. demand[d] # "none"
      BY <2>1 DEF Block, Selectable, Pending
    <2> QED BY <2>1, <2>2 DEF Block, TypeOK, Fresh, Exists, DemandStates, policy
  <1>7. CASE \E d \in Demands : ChangeQueuedJob(d)
    <2>1. PICK d \in Demands : ChangeQueuedJob(d)
      BY <1>7
    <2>2. of[d] \in Jobs /\ Exists(of[d]) /\ JobMoves(of[d], "changed")
      BY <2>1 DEF ChangeQueuedJob, Selectable, Unfinished
    <2> QED BY <2>2, JobMovesType DEF JobStates, Terminal
  <1>8. CASE Grants \/ Operation \/ Source \/ UNCHANGED vars
    BY <1>8 DEF Grants, Operation, Source, vars, TypeOK, Fresh, Exists
  <1> QED BY <1>1, <1>2, <1>3, <1>4, <1>5, <1>6, <1>7, <1>8 DEF Next

(* Every demand is in one of its states, has a job if and only if it was    *)
(* admitted, and no reservation is for a job that never was.                *)
THEOREM LedgerTypes == Spec => [](TypeOK /\ Fresh)
  <1>1. TypeOK /\ Fresh /\ [Next]_vars => (TypeOK /\ Fresh)'
    BY NextType
  <1> QED BY InitType, <1>1, PTL DEF Spec

-----------------------------------------------------------------------------
(* How a step can touch the job of a demand: by JobMoves, by Retry, or not. *)
LEMMA StepKinds ==
    ASSUME TypeOK, Fresh, [Next]_vars
    PROVE  \/ \E j \in Jobs, s \in JobStates :
                /\ Exists(j) /\ JobMoves(j, s)
                /\ job[j] \in Pending \/ j \in LocalRetries
           \/ \E d \in Demands : Retry(d)
           \/ \E d \in Demands : Admit(d)
           \/ \E d \in Demands : Cancel(d)
           \/ \E d \in Demands : Block(d)
           \/ UNCHANGED <<job, demand, of, reserved>> /\ created <= created'
  <1>1. CASE \E j \in Jobs : \/ Start(j) \/ Finish(j) \/ Resume(j)
                             \/ LocalCancel(j) \/ LocalRetry(j)
    BY <1>1 DEF Start, Finish, Resume, LocalCancel, LocalRetry, JobStates, Pending, Terminal
  <1>2. CASE \E j \in Jobs : LocalEnqueue(j)
    BY <1>2, EnqueuedType DEF LocalEnqueue
  <1>3. CASE \E d \in Demands : ChangeQueuedJob(d)
    <2>1. PICK d \in Demands : ChangeQueuedJob(d)
      BY <1>3
    <2>2. /\ of[d] \in Jobs /\ Exists(of[d]) /\ JobMoves(of[d], "changed")
          /\ job[of[d]] \in Pending
      BY <2>1 DEF ChangeQueuedJob, Selectable, Unfinished, Pending
    <2> QED BY <2>2 DEF JobStates, Terminal
  <1>4. CASE Grants \/ Operation \/ Source \/ UNCHANGED vars
    BY <1>4 DEF Grants, Operation, Source, vars, TypeOK
  <1> QED BY <1>1, <1>2, <1>3, <1>4 DEF Next

-----------------------------------------------------------------------------
(* No answer is lost, except by a late retry.                               *)

(* What is true of every demand on a job that has ended.                    *)
AnswerInv == \A d \in Demands : of[d] \in Ended => Answered(d) \/ RetriedLate(d)

(* What a step may do to demand e, if its job has ended after the step.     *)
AnsweredStep(e) ==
    \/ Answered(e)'
    \/ RetriedLate(e)' /\ (RetriedLate(e) \/ (demand[e] = "cancelled" /\ Admissible(e)))

(* A step that touches neither the demand nor its job.                      *)
LEMMA AnswerKept ==
    ASSUME AnswerInv, NEW e \in Demands, of'[e] \in Ended',
           demand'[e] = demand[e], of'[e] = of[e], job'[of[e]] = job[of[e]]
    PROVE  AnsweredStep(e)
  BY DEF AnswerInv, AnsweredStep, Answered, RetriedLate, Ended

LEMMA RetryAnswers ==
    ASSUME TypeOK, Fresh, AnswerInv, NEW d \in Demands, Retry(d),
           NEW e \in Demands, of'[e] \in Ended'
    PROVE  AnsweredStep(e)
  <1>1. of[d] \in Jobs /\ of' = of
    BY RetryType DEF Retry
  <1>2. CASE job[of[d]] \in {"failed", "cancelled"}
    <2>1. of'[e] # of[d]
      BY <1>1, <1>2 DEF Retry, TypeOK, Ended, Terminal
    <2>2. demand'[e] = demand[e] /\ job'[of[e]] = job[of[e]]
      BY <1>1, <1>2, <2>1 DEF Retry, TypeOK, Fanned
    <2> QED BY <1>1, <2>2, AnswerKept
  <1>3. CASE job[of[d]] \notin {"failed", "cancelled"}
    <2>1. job' = job
      BY <1>3 DEF Retry
    <2>2. demand' = [demand EXCEPT ![d] = IF job[of[d]] = "complete" THEN "ready" ELSE "queued"]
      BY <1>3 DEF Retry
    <2>3. CASE e # d
      BY <1>1, <2>1, <2>2, <2>3, AnswerKept DEF TypeOK
    <2>4. CASE e = d
      <3>1. job[of[d]] \in {"complete", "changed"}
        BY <1>1, <1>3, <2>1, <2>4 DEF Ended, Terminal
      <3>2. CASE job[of[d]] = "complete"
        BY <1>1, <2>1, <2>2, <2>4, <3>2 DEF TypeOK, AnsweredStep, Answered, Fan
      <3>3. CASE job[of[d]] = "changed"
        <4>1. of[d] \in Ended
          BY <1>1, <3>3 DEF Ended, Terminal
        <4>2. demand[d] = "cancelled" /\ Admissible(d)
          BY <3>3, <4>1 DEF AnswerInv, Answered, RetriedLate, Fan, Retry
        <4>3. RetriedLate(d)'
          BY <1>1, <2>1, <2>2, <3>3 DEF TypeOK, RetriedLate
        <4> QED BY <2>4, <4>2, <4>3 DEF AnsweredStep
      <3> QED BY <3>1, <3>2, <3>3
    <2> QED BY <2>3, <2>4
  <1> QED BY <1>2, <1>3

LEMMA StepAnswers ==
    ASSUME TypeOK, Fresh, AnswerInv, [Next]_vars,
           NEW e \in Demands, of'[e] \in Ended'
    PROVE  AnsweredStep(e)
  <1>1. ASSUME NEW j \in Jobs, NEW s \in JobStates, JobMoves(j, s)
        PROVE  AnsweredStep(e)
    <2>1. CASE of[e] = j
      BY <1>1, <2>1 DEF JobMoves, Fanned, TypeOK, AnsweredStep, Answered
    <2>2. CASE of[e] # j
      BY <1>1, <2>2, AnswerKept DEF JobMoves, Fanned, TypeOK
    <2> QED BY <2>1, <2>2
  <1>2. ASSUME NEW d \in Demands, Retry(d)
        PROVE  AnsweredStep(e)
    BY <1>2, RetryAnswers
  <1>3. ASSUME NEW d \in Demands, Admit(d)
        PROVE  AnsweredStep(e)
    <2>1. PICK j \in Jobs : /\ of' = [of EXCEPT ![d] = j]
                            /\ demand' = [demand EXCEPT ![d] = Fan(job[j])]
      BY <1>3 DEF Admit
    <2>2. job' = job
      BY <1>3 DEF Admit
    <2>3. CASE e = d
      BY <2>1, <2>2, <2>3 DEF TypeOK, AnsweredStep, Answered
    <2>4. CASE e # d
      BY <2>1, <2>2, <2>4, AnswerKept DEF TypeOK
    <2> QED BY <2>3, <2>4
  <1>4. ASSUME NEW d \in Demands, Cancel(d)
        PROVE  AnsweredStep(e)
    <2>1. CASE e = d
      BY <1>4, <2>1 DEF Cancel, TypeOK, AnsweredStep, Answered
    <2>2. CASE e # d
      BY <1>4, <2>2, AnswerKept DEF Cancel, TypeOK
    <2> QED BY <2>1, <2>2
  <1>5. ASSUME NEW d \in Demands, Block(d)
        PROVE  AnsweredStep(e)
    <2>1. e # d
      BY <1>5 DEF Block, Selectable, Unfinished, Ended, Pending, Terminal
    <2> QED BY <1>5, <2>1, AnswerKept DEF Block, TypeOK
  <1>6. CASE UNCHANGED <<job, demand, of, reserved>>
    BY <1>6, AnswerKept
  <1> QED BY <1>1, <1>2, <1>3, <1>4, <1>5, <1>6, StepKinds

(* While a job is ended, in whatever state, every demand on it is answered  *)
(* or cancelled, or its own caller has retried it, cancelled as it was,     *)
(* although the job was "changed"; no other step withholds or undoes an     *)
(* answer.                                                                  *)
THEOREM EveryDemandAnsweredHolds == Spec => EveryDemandAnswered
  <1>1. Init => AnswerInv
    BY DEF Init, AnswerInv, Ended, NoJob, Jobs
  <1>2. ASSUME TypeOK, Fresh, AnswerInv, [Next]_vars
        PROVE  /\ AnswerInv'
               /\ \A d \in Demands : (of[d] \in Ended)' => AnsweredStep(d)
    <2>1. \A d \in Demands : (of[d] \in Ended)' => AnsweredStep(d)
      BY <1>2, StepAnswers
    <2>2. AnswerInv'
      BY <2>1 DEF AnswerInv, AnsweredStep
    <2> QED BY <2>1, <2>2
  <1>3. TypeOK /\ Fresh /\ AnswerInv /\ [Next]_vars =>
          AnswerInv' /\
          [\A d \in Demands : (of[d] \in Ended)' =>
              \/ Answered(d)'
              \/ /\ RetriedLate(d)'
                 /\ RetriedLate(d) \/ (demand[d] = "cancelled" /\ Admissible(d))]_vars
    BY <1>2 DEF AnsweredStep
  <1> QED BY <1>1, <1>3, LedgerTypes, PTL DEF Spec, EveryDemandAnswered

-----------------------------------------------------------------------------
(* A job that callers wait for has its disk space.                          *)

LEMMA ReserveCovers ==
    ASSUME TypeOK, NEW j \in Jobs, Reserve(j)
    PROVE  reserved \subseteq reserved' /\ (job[j] # "complete" => j \in reserved')
  BY DEF Reserve, Needs

LEMMA ReservedStep ==
    ASSUME TypeOK, Fresh, PendingIsReserved, [Next]_vars
    PROVE  PendingIsReserved'
  <1> SUFFICES ASSUME NEW e \in Demands, of'[e] \in Unfinished' \ LocalRetries
               PROVE  of'[e] \in reserved'
    BY DEF PendingIsReserved
  <1> USE DEF Unfinished, Exists
  <1>1. ASSUME NEW j \in Jobs, NEW s \in JobStates, JobMoves(j, s),
               job[j] \in Pending \/ j \in LocalRetries
        PROVE  of'[e] \in reserved'
    <2>1. of' = of /\ created' = created /\ job' = [job EXCEPT ![j] = s]
      BY <1>1 DEF JobMoves
    <2>2. of[e] \in Unfinished \ LocalRetries
      BY <1>1, <2>1 DEF TypeOK
    <2>3. of[e] \in reserved
      BY <2>2 DEF PendingIsReserved
    <2>4. CASE s \in Terminal
      <3>1. of[e] # j
        BY <2>1, <2>4 DEF TypeOK, Terminal, Pending
      <3> QED BY <2>1, <2>3, <3>1, <1>1 DEF JobMoves, Released
    <2>5. CASE s \notin Terminal
      BY <2>1, <2>3, <2>5, <1>1 DEF JobMoves, Released
    <2> QED BY <2>4, <2>5
  <1>2. ASSUME NEW d \in Demands, Retry(d)
        PROVE  of'[e] \in reserved'
    <2>1. of[d] \in Jobs
      BY <1>2, RetryType
    <2>2. reserved \subseteq reserved' /\ (job[of[d]] # "complete" => of[d] \in reserved')
      BY <1>2, <2>1, ReserveCovers DEF Retry
    <2>3. of' = of /\ created' = created
      BY <1>2 DEF Retry
    <2>4. CASE of[e] = of[d]
      <3>1. job[of[d]] # "complete"
        BY <1>2, <2>1, <2>3, <2>4 DEF Retry, TypeOK, Pending
      <3> QED BY <2>2, <2>3, <2>4, <3>1
    <2>5. CASE of[e] # of[d]
      <3>1. job'[of[e]] = job[of[e]]
        BY <1>2, <2>5 DEF Retry, TypeOK
      <3> QED BY <2>2, <2>3, <3>1 DEF PendingIsReserved
    <2> QED BY <2>4, <2>5
  <1>3. ASSUME NEW d \in Demands, Admit(d)
        PROVE  of'[e] \in reserved'
    <2>1. PICK j \in Jobs, usable \in BOOLEAN :
            Enqueued(j, usable) /\ Reserve(j) /\ of' = [of EXCEPT ![d] = j]
      BY <1>3 DEF Admit
    <2>2. reserved \subseteq reserved' /\ (job[j] # "complete" => j \in reserved')
      BY <2>1, ReserveCovers
    <2>3. job' = job
      BY <1>3 DEF Admit
    <2>4. CASE e = d
      BY <2>1, <2>2, <2>3, <2>4 DEF TypeOK, Pending
    <2>5. CASE e # d
      <3>1. of'[e] = of[e] /\ of[e] <= created
        BY <2>1, <2>5 DEF TypeOK
      <3> QED BY <2>2, <2>3, <3>1 DEF PendingIsReserved
    <2> QED BY <2>4, <2>5
  <1>4. ASSUME NEW d \in Demands, Cancel(d) \/ Block(d)
        PROVE  of'[e] \in reserved'
    BY <1>4 DEF Cancel, Block, PendingIsReserved
  <1>5. CASE UNCHANGED <<job, demand, of, reserved>>
    BY <1>5 DEF PendingIsReserved, TypeOK
  <1> QED BY <1>1, <1>2, <1>3, <1>4, <1>5, StepKinds

(* Every unfinished job that a caller asked for holds a reservation, unless *)
(* the operator retries that very job.                                      *)
THEOREM PendingIsReservedHolds == Spec => []PendingIsReserved
  <1>1. Init => PendingIsReserved
    BY DEF Init, PendingIsReserved, Unfinished, NoJob, Jobs
  <1>2. TypeOK /\ Fresh /\ PendingIsReserved /\ [Next]_vars => PendingIsReserved'
    BY ReservedStep
  <1> QED BY <1>1, <1>2, LedgerTypes, PTL DEF Spec

-----------------------------------------------------------------------------
(* The device is never promised twice.                                      *)

LEMMA JobsFinite == IsFiniteSet(Jobs)
  BY FS_Interval, DemandAssumption DEF Jobs

LEMMA ReserveFits ==
    ASSUME TypeOK, NoOvercommit, NEW j \in Jobs, Reserve(j)
    PROVE  NoOvercommit'
  <1>1. IsFiniteSet(reserved) /\ Cardinality(reserved) \in Nat
    BY JobsFinite, FS_Subset, FS_CardinalityType DEF TypeOK
  <1>2. CASE Needs(j)
    <2>1. Cardinality(reserved) < Slots /\ reserved' = reserved \cup {j} /\ j \notin reserved
      BY <1>2 DEF Reserve, Needs
    <2>2. Cardinality(reserved') = Cardinality(reserved) + 1
      BY <1>1, <2>1, FS_AddElement
    <2> QED BY <1>1, <2>1, <2>2, DemandAssumption DEF NoOvercommit
  <1>3. CASE ~Needs(j)
    BY <1>3 DEF Reserve, NoOvercommit
  <1> QED BY <1>2, <1>3

LEMMA OvercommitStep ==
    ASSUME TypeOK, Fresh, NoOvercommit, [Next]_vars
    PROVE  NoOvercommit'
  <1>1. ASSUME NEW j \in Jobs, NEW s \in JobStates, JobMoves(j, s)
        PROVE  NoOvercommit'
    <2>1. reserved' \subseteq reserved
      BY <1>1 DEF JobMoves, Released
    <2>2. IsFiniteSet(reserved) /\ Cardinality(reserved) \in Nat
      BY JobsFinite, FS_Subset, FS_CardinalityType DEF TypeOK
    <2>3. Cardinality(reserved') <= Cardinality(reserved) /\ Cardinality(reserved') \in Nat
      BY <2>1, <2>2, FS_Subset, FS_CardinalityType
    <2> QED BY <2>2, <2>3, DemandAssumption DEF NoOvercommit
  <1>2. ASSUME NEW d \in Demands, Retry(d)
        PROVE  NoOvercommit'
    BY <1>2, RetryType, ReserveFits DEF Retry
  <1>3. ASSUME NEW d \in Demands, Admit(d)
        PROVE  NoOvercommit'
    BY <1>3, ReserveFits DEF Admit
  <1>4. ASSUME NEW d \in Demands, Cancel(d) \/ Block(d)
        PROVE  NoOvercommit'
    BY <1>4 DEF Cancel, Block, NoOvercommit
  <1>5. CASE UNCHANGED <<job, demand, of, reserved>>
    BY <1>5 DEF NoOvercommit
  <1> QED BY <1>1, <1>2, <1>3, <1>4, <1>5, StepKinds

(* Reservations never exceed the device, also with retries on the command   *)
(* line.                                                                    *)
THEOREM NoOvercommitHolds == Spec => []NoOvercommit
  <1>1. Init => NoOvercommit
    BY FS_EmptySet, DemandAssumption DEF Init, NoOvercommit
  <1>2. TypeOK /\ Fresh /\ NoOvercommit /\ [Next]_vars => NoOvercommit'
    BY OvercommitStep
  <1> QED BY <1>1, <1>2, LedgerTypes, PTL DEF Spec

-----------------------------------------------------------------------------
(* Cancelling is final for everybody but the caller.                        *)

LEMMA RevivedStep ==
    ASSUME TypeOK, Fresh, [Next]_vars, NEW e \in Revived
    PROVE  e[1] \in granted /\ Revived = {e}
  <1>0. e \in Demands /\ demand[e] = "cancelled" /\ demand'[e] # "cancelled"
    BY DEF Revived
  <1>1. ASSUME NEW j \in Jobs, NEW s \in JobStates, JobMoves(j, s)
        PROVE  FALSE
    BY <1>0, <1>1 DEF JobMoves, Fanned
  <1>2. ASSUME NEW d \in Demands, Retry(d)
        PROVE  e[1] \in granted /\ Revived = {e}
    <2>1. \A c \in Demands \ {d} : demand[c] = "cancelled" => demand'[c] = "cancelled"
      <3> DEFINE base == IF job[of[d]] \in {"failed", "cancelled"}
                           THEN Fanned(of[d], "queued") ELSE demand
      <3>1. DOMAIN base = Demands /\ \A c \in Demands : demand[c] = "cancelled" => base[c] = "cancelled"
        BY DEF Fanned, TypeOK
      <3>2. demand' = [base EXCEPT ![d] = IF job[of[d]] = "complete" THEN "ready" ELSE "queued"]
        BY <1>2 DEF Retry
      <3> HIDE DEF base
      <3> QED BY <3>1, <3>2
    <2>2. e = d
      BY <1>0, <2>1
    <2> QED BY <1>0, <1>2, <2>1, <2>2 DEF Revived, Retry, Admissible
  <1>3. ASSUME NEW d \in Demands, Admit(d)
        PROVE  FALSE
    BY <1>0, <1>3 DEF Admit, TypeOK
  <1>4. ASSUME NEW d \in Demands, Cancel(d) \/ Block(d)
        PROVE  FALSE
    BY <1>0, <1>4 DEF Cancel, Block, TypeOK
  <1>5. CASE UNCHANGED <<job, demand, of, reserved>>
    BY <1>0, <1>5
  <1> QED BY <1>1, <1>2, <1>3, <1>4, <1>5, StepKinds

(* A step revives at most one cancelled demand, and only for a caller that  *)
(* still has its grant.                                                     *)
THEOREM CancelledStaysHolds == Spec => CancelledStays
  <1>1. TypeOK /\ Fresh /\ [Next]_vars =>
          [\A d \in Revived : d[1] \in granted /\ Revived = {d}]_vars
    BY RevivedStep
  <1> QED BY <1>1, LedgerTypes, PTL DEF Spec, CancelledStays
=============================================================================
