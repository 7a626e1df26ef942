------------------------- MODULE NotificationsProofs -------------------------
(***************************************************************************)
(* Proofs about Notifications, for every number of drainers, events and    *)
(* destinations.  The inductive invariant adds to the checked ones what a  *)
(* held lease knows about its row (LeaseKnows) and that a success is only  *)
(* reported after the destination accepted (AnswerKnows).                  *)
(***************************************************************************)
EXTENDS Notifications, TLAPS

(* A lease whose token is still in its row counted its own attempt, and     *)
(* only such rows carry a token at all.                                     *)
LeaseKnows ==
    \A p \in Drainers : LET x == drain[p].on IN
        drain[p].pc # "idle" /\ row[x].owner = p => row[x].attempts = drain[p].previous + 1

AnswerKnows ==
    \A p \in Drainers :
        drain[p].pc = "answered" /\ drain[p].outcome = "complete" => drain[p].on \in accepted

(* Only leased rows carry a token.                                          *)
TokenLeased ==
    \A x \in Deliveries : row[x].owner \in Drainers => row[x].state = "leased"

WorkOK == \A p \in Drainers : drain[p].pc # "idle" => drain[p].on \in Deliveries

IInv ==
    /\ TypeOK /\ WorkOK /\ TokenLeased
    /\ GivesUpLate /\ EditRevokes /\ CompleteWasAccepted
    /\ LeaseKnows /\ AnswerKnows

USE NotificationAssumption

-----------------------------------------------------------------------------
(* The types.                                                               *)

(* The initial rows, destinations and leases are well typed.                *)
LEMMA InitType == Init => TypeOK
BY SMT DEF Init, TypeOK, Rows, States, Open, Leases, Outcomes, NoRow, NoLease

(* The verdict on an attempt is a state of a row.                           *)
LEMMA DecideType ==
    ASSUME NEW o \in Outcomes, NEW n \in Nat PROVE Decide(o, n) \in States
BY DEF Decide, Outcomes, States, Open

(* A sweep keeps the types and touches spent rows only.                     *)
LEMMA SweptType ==
    ASSUME row \in [Deliveries -> Rows]
    PROVE  /\ Swept \in [Deliveries -> Rows]
           /\ \A x \in Deliveries : ~Spent(row[x]) => Swept[x] = row[x]
<1>1. ASSUME NEW x \in Deliveries
      PROVE  [row[x] EXCEPT !.state = "exhausted", !.owner = NoDrainer] \in Rows
  BY DEF Rows, States
<1> QED BY <1>1 DEF Swept

(* A due delivery has an attempt left.                                      *)
LEMMA DueType ==
    ASSUME TypeOK, NEW x \in Deliveries, Due(x)
    PROVE  /\ row[x].attempts + 1 \in 1 .. MaxTries
           /\ row[x].attempts \in 0 .. MaxTries
           /\ revision[x[2]] \in Nat
           /\ Swept[x] = row[x]
<1>1. row[x] \in Rows /\ x[2] \in Dests
  BY DEF TypeOK, Deliveries
<1>2. row[x].attempts \in 0 .. MaxTries /\ row[x].attempts < MaxTries
  BY <1>1 DEF Rows, Due, Spent
<1>3. revision[x[2]] \in Nat
  BY <1>1 DEF TypeOK
<1> QED BY <1>2, <1>3, SweptType DEF TypeOK, Due

(* A claim as a reader sees it: a leased row, and a sweep of the others.    *)
Claimed(p, x) ==
    /\ row' \in [Deliveries -> Rows]
    /\ drain' \in [Drainers -> Leases]
    /\ row'[x] = [row[x] EXCEPT !.state = "leased", !.attempts = @ + 1,
                                !.owner = p, !.lease = LeaseTicks]
    /\ \A y \in Deliveries : y # x => row'[y] = Swept[y]
    /\ drain'[p] = LeaseOn(x)
    /\ \A q \in Drainers : q # p => drain'[q] = drain[q]

LEMMA ClaimCases ==
    ASSUME TypeOK, NEW p \in Drainers, Claim(p)
    PROVE  \/ \E x \in Deliveries : Due(x) /\ Claimed(p, x)
           \/ row' = Swept /\ drain' = drain
<1>1. CASE row' = Swept /\ drain' = drain
  BY <1>1
<1>2. ASSUME NEW x \in Deliveries, Due(x),
             row' = [Swept EXCEPT ![x] = [row[x] EXCEPT !.state = "leased",
                            !.attempts = @ + 1, !.owner = p, !.lease = LeaseTicks]],
             drain' = [drain EXCEPT ![p] = LeaseOn(x)]
      PROVE  Claimed(p, x)
  <2> DEFINE r == [row[x] EXCEPT !.state = "leased", !.attempts = @ + 1,
                                 !.owner = p, !.lease = LeaseTicks]
  <2>1. /\ row[x].attempts + 1 \in 1 .. MaxTries
        /\ row[x].attempts \in 0 .. MaxTries
        /\ revision[x[2]] \in Nat
    BY <1>2, DueType
  <2>2. Swept \in [Deliveries -> Rows] /\ row[x] \in Rows
    BY SweptType DEF TypeOK
  <2>3. r \in Rows
    <3> DEFINE n == row[x].attempts + 1
    <3>1. n \in 0 .. MaxTries /\ "leased" \in States /\ LeaseTicks \in 0 .. LeaseTicks
      BY <2>1 DEF States, Open
    <3>2. r = [row[x] EXCEPT !.state = "leased", !.attempts = n,
                             !.owner = p, !.lease = LeaseTicks]
      OBVIOUS
    <3> HIDE DEF n
    <3> QED BY <2>2, <3>1, <3>2 DEF Rows
  <2>4. LeaseOn(x) \in Leases
    BY <2>1 DEF LeaseOn, Leases, Outcomes
  <2> HIDE DEF r
  <2>5. row' \in [Deliveries -> Rows] /\ row'[x] = r
        /\ \A y \in Deliveries : y # x => row'[y] = Swept[y]
    BY <1>2, <2>2, <2>3 DEF r
  <2>6. drain' \in [Drainers -> Leases] /\ drain'[p] = LeaseOn(x)
        /\ \A q \in Drainers : q # p => drain'[q] = drain[q]
    BY <1>2, <2>4 DEF TypeOK
  <2> QED BY <2>5, <2>6 DEF Claimed, r
<1> QED BY <1>1, <1>2 DEF Claim

IndType == TypeOK /\ WorkOK

(* Every step keeps the types and leases deliveries to working drainers.    *)
LEMMA StepType == IndType /\ [Next]_vars => IndType'
<1> SUFFICES ASSUME TypeOK, WorkOK, [Next]_vars PROVE TypeOK' /\ WorkOK'
  BY DEF IndType
<1>1. ASSUME NEW e \in Events, Emit(e) PROVE TypeOK' /\ WorkOK'
  <2>1. \A x \in Deliveries : [row[x] EXCEPT !.state = "pending"] \in Rows
    BY DEF TypeOK, Rows, States, Open
  <2> QED BY <1>1, <2>1 DEF Emit, TypeOK, WorkOK, dest
<1>2. ASSUME NEW d \in Dests, CancelAll(d) PROVE row' \in [Deliveries -> Rows]
  <2>1. ASSUME NEW x \in Deliveries
        PROVE [row[x] EXCEPT !.state = "cancelled", !.owner = NoDrainer, !.lease = 0] \in Rows
    <3>1. row[x] \in Rows
      BY DEF TypeOK
    <3>2. "cancelled" \in States /\ 0 \in 0 .. LeaseTicks
      BY DEF States
    <3> QED BY <3>1, <3>2 DEF Rows
  <2> QED BY <1>2, <2>1 DEF CancelAll, TypeOK
<1>3. ASSUME NEW d \in Dests, Configure(d) \/ Disable(d) PROVE TypeOK' /\ WorkOK'
  <2>1. /\ revision' \in [Dests -> Nat] /\ enabled' \in SUBSET Dests
        /\ commands' \in 0 .. MaxCommands
    BY <1>3 DEF TypeOK, Configure, Disable, Command
  <2>2. CancelAll(d) /\ UNCHANGED <<drain, accepted>>
    BY <1>3 DEF Configure, Disable
  <2>3. row' \in [Deliveries -> Rows]
    BY <1>2, <2>2
  <2> QED BY <2>1, <2>2, <2>3 DEF TypeOK, WorkOK
<1>4. ASSUME NEW d \in Dests, Retry(d) PROVE TypeOK' /\ WorkOK'
  <2>1. [NoRow EXCEPT !.state = "pending"] \in Rows
    BY DEF NoRow, Rows, States, Open
  <2>2. row' \in [Deliveries -> Rows]
    BY <1>4, <2>1 DEF Retry, TypeOK
  <2> QED BY <1>4, <2>2 DEF Retry, Command, TypeOK, WorkOK, dest
<1>5. ASSUME NEW p \in Drainers, Claim(p) PROVE TypeOK' /\ WorkOK'
  <2>1. UNCHANGED <<enabled, revision, accepted, commands>>
    BY <1>5 DEF Claim, dest
  <2>2. CASE row' = Swept /\ drain' = drain
    BY <2>1, <2>2, SweptType DEF TypeOK, WorkOK
  <2>3. ASSUME NEW x \in Deliveries, Claimed(p, x) PROVE TypeOK' /\ WorkOK'
    BY <2>1, <2>3 DEF Claimed, LeaseOn, TypeOK, WorkOK
  <2> QED BY <1>5, <2>2, <2>3, ClaimCases
<1>6. NoLease \in Leases /\ NoLease.pc = "idle"
  BY DEF Leases, NoLease, Outcomes
<1>7. ASSUME NEW p \in Drainers, Check(p) PROVE TypeOK' /\ WorkOK'
  <2>1. /\ [drain[p] EXCEPT !.pc = "sending"] \in Leases
        /\ [drain[p] EXCEPT !.pc = "sending"].on = drain[p].on
        /\ drain[p].on \in Deliveries
    BY <1>7 DEF Leases, TypeOK, WorkOK, Check
  <2> QED BY <1>6, <1>7, <2>1 DEF Check, TypeOK, WorkOK, dest
<1>8. ASSUME NEW p \in Drainers, Send(p) PROVE TypeOK' /\ WorkOK'
  <2>1. drain[p] \in Leases /\ drain[p].on \in Deliveries
    BY <1>8 DEF Send, TypeOK, WorkOK
  <2>2. \A o \in Outcomes :
          /\ [drain[p] EXCEPT !.pc = "answered", !.outcome = o] \in Leases
          /\ [drain[p] EXCEPT !.pc = "answered", !.outcome = o].on = drain[p].on
    BY <2>1 DEF Leases
  <2> QED BY <1>8, <2>1, <2>2 DEF Send, TypeOK, WorkOK, dest
<1>9. ASSUME NEW p \in Drainers, Acknowledge(p) PROVE TypeOK' /\ WorkOK'
  <2>1. drain[p] \in Leases /\ drain[p].on \in Deliveries
    BY <1>9 DEF Acknowledge, TypeOK, WorkOK
  <2>2. row[drain[p].on] \in Rows /\ Decide(drain[p].outcome, drain[p].previous) \in States
    BY <2>1, DecideType DEF TypeOK, Leases
  <2>3. [row[drain[p].on] EXCEPT
            !.state = Decide(drain[p].outcome, drain[p].previous),
            !.owner = NoDrainer, !.lease = 0, !.wait = 1] \in Rows
    <3>1. ASSUME NEW r \in Rows, NEW s \in States
          PROVE  [r EXCEPT !.state = s, !.owner = NoDrainer, !.lease = 0, !.wait = 1] \in Rows
      <4>1. 0 \in 0 .. LeaseTicks /\ 1 \in 0 .. 1
        OBVIOUS
      <4> QED BY <4>1 DEF Rows
    <3> QED BY <2>2, <3>1
  <2> QED BY <1>6, <1>9, <2>3 DEF Acknowledge, TypeOK, WorkOK, dest
<1>10. ASSUME NEW p \in Drainers, Abandon(p) PROVE TypeOK' /\ WorkOK'
  BY <1>6, <1>10 DEF Abandon, TypeOK, WorkOK, dest
<1>11. CASE Tick
  <2>1. ASSUME NEW x \in Deliveries, row[x].lease > 0
        PROVE [row[x] EXCEPT !.lease = @ - 1] \in Rows
    <3>1. row[x] \in Rows /\ row[x].lease - 1 \in 0 .. LeaseTicks
      BY <2>1 DEF TypeOK, Rows
    <3> QED BY <3>1 DEF Rows
  <2> QED BY <1>11, <2>1 DEF Tick, TypeOK, WorkOK, dest
<1>12. ASSUME NEW x \in Deliveries, BackoffEnds(x) PROVE TypeOK' /\ WorkOK'
  BY <1>12 DEF BackoffEnds, TypeOK, Rows, WorkOK, dest
<1>13. CASE UNCHANGED vars
  BY <1>13 DEF vars, TypeOK, WorkOK
<1> QED BY <1>1, <1>3, <1>4, <1>5, <1>7, <1>8, <1>9, <1>10, <1>11, <1>12, <1>13 DEF Next

(* TypeOK holds in every behaviour: in particular no delivery is tried more *)
(* than MaxTries times between two retries of the operator                  *)
(* (notifications.rs claim).                                                *)
THEOREM NotificationTypes == Spec => []TypeOK
<1>1. Init => IndType
  BY InitType DEF IndType, Init, WorkOK, NoLease
<1>2. IndType => TypeOK
  BY DEF IndType
<1> QED BY <1>1, <1>2, StepType, PTL DEF Spec

-----------------------------------------------------------------------------
(* What an action does to the row, the lease and the policy of others.      *)

(* An edit of the policy leaves no token in the rows of its destination.    *)
LEMMA CancelAllClears ==
    ASSUME TypeOK, NEW d \in Dests, CancelAll(d), NEW x \in Deliveries
    PROVE  /\ x[2] # d => row'[x] = row[x]
           /\ row[x].state \in {"none", "complete"} => row'[x] = row[x]
           /\ row'[x].attempts = row[x].attempts
           /\ row'[x] = row[x] \/ (row'[x].state = "cancelled" /\ row'[x].owner = NoDrainer)
           /\ x[2] = d => row'[x].state \notin Open
<1>1. row[x] \in Rows
  BY DEF TypeOK
<1>2. row'[x] = IF x[2] = d /\ row[x].state \notin {"none", "complete"}
                  THEN [row[x] EXCEPT !.state = "cancelled", !.owner = NoDrainer, !.lease = 0]
                  ELSE row[x]
  BY DEF CancelAll
<1>3. CASE x[2] = d /\ row[x].state \notin {"none", "complete"}
  BY <1>1, <1>2, <1>3 DEF Rows, Open
<1>4. CASE ~(x[2] = d /\ row[x].state \notin {"none", "complete"})
  <2>1. row'[x] = row[x]
    BY <1>2, <1>4
  <2>2. CASE x[2] # d
    BY <2>1, <2>2
  <2>3. CASE row[x].state \in {"none", "complete"}
    BY <2>1, <2>3 DEF Open
  <2> QED BY <1>4, <2>2, <2>3
<1> QED BY <1>3, <1>4

(* A row keeps its token, or loses it; as long as it is there, the attempt  *)
(* and the policy are what they were.                                       *)
TokenKept(x) ==
    row'[x].owner \in Drainers =>
        /\ row'[x].owner = row[x].owner
        /\ row'[x].state = row[x].state
        /\ row'[x].attempts = row[x].attempts
        /\ x[2] \in enabled => x[2] \in enabled'
        /\ revision'[x[2]] = revision[x[2]]

(* A drainer keeps its lease or drops it.                                   *)
LeaseKept(p) ==
    \/ drain'[p].pc = "idle"
    \/ /\ drain[p].pc # "idle"
       /\ drain'[p].on = drain[p].on
       /\ drain'[p].previous = drain[p].previous
       /\ drain'[p].revision = drain[p].revision

LEMMA LeasesKept ==
    ASSUME IInv, \A x \in Deliveries : TokenKept(x), NEW p \in Drainers, LeaseKept(p)
    PROVE  LET x == drain'[p].on IN drain'[p].pc # "idle" /\ row'[x].owner = p =>
               /\ row'[x].state = "leased"
               /\ x[2] \in enabled'
               /\ revision'[x[2]] = drain'[p].revision
               /\ row'[x].attempts = drain'[p].previous + 1
<1> DEFINE x == drain'[p].on
<1> SUFFICES ASSUME drain'[p].pc # "idle", row'[x].owner = p
             PROVE  /\ row'[x].state = "leased"
                    /\ x[2] \in enabled'
                    /\ revision'[x[2]] = drain'[p].revision
                    /\ row'[x].attempts = drain'[p].previous + 1
  OBVIOUS
<1>1. /\ drain[p].pc # "idle" /\ x = drain[p].on
      /\ drain'[p].previous = drain[p].previous
      /\ drain'[p].revision = drain[p].revision
  BY DEF LeaseKept
<1>2. x \in Deliveries
  BY <1>1 DEF IInv, WorkOK
<1>3. /\ row[x].owner = p
      /\ row'[x].state = row[x].state
      /\ row'[x].attempts = row[x].attempts
      /\ x[2] \in enabled => x[2] \in enabled'
      /\ revision'[x[2]] = revision[x[2]]
  BY <1>2 DEF TokenKept
<1>4. /\ row[x].state = "leased" /\ x[2] \in enabled
      /\ revision[x[2]] = drain[p].revision
      /\ row[x].attempts = drain[p].previous + 1
  BY <1>1, <1>3 DEF IInv, EditRevokes, LeaseKnows
<1> QED BY <1>1, <1>3, <1>4

(* Then what the leases know stays true.                                    *)
LEMMA KeptKnows ==
    ASSUME IInv, \A x \in Deliveries : TokenKept(x), \A p \in Drainers : LeaseKept(p)
    PROVE  EditRevokes' /\ LeaseKnows'
<1>1. \A p \in Drainers : LET x == drain'[p].on IN
        drain'[p].pc # "idle" /\ row'[x].owner = p =>
               /\ row'[x].state = "leased"
               /\ x[2] \in enabled'
               /\ revision'[x[2]] = drain'[p].revision
               /\ row'[x].attempts = drain'[p].previous + 1
  BY LeasesKept
<1> QED BY <1>1 DEF EditRevokes, LeaseKnows

(* What the other two invariants say of one row.                            *)
RowJust(r, x, acc) ==
    /\ r.state = "exhausted" => r.attempts = MaxTries
    /\ r.state = "complete" => x \in acc
    /\ r.owner \in Drainers => r.state = "leased"

LEMMA JustRows ==
    /\ GivesUpLate /\ CompleteWasAccepted /\ TokenLeased
         <=> \A x \in Deliveries : RowJust(row[x], x, accepted)
    /\ (GivesUpLate /\ CompleteWasAccepted /\ TokenLeased)'
         <=> \A x \in Deliveries : RowJust(row'[x], x, accepted')
BY DEF GivesUpLate, CompleteWasAccepted, TokenLeased, RowJust

(* A sweep exhausts only what has used up its attempts.                     *)
LEMMA SweptKnows ==
    ASSUME IInv, NEW x \in Deliveries
    PROVE  /\ RowJust(Swept[x], x, accepted)
           /\ Swept[x] = row[x] \/ Swept[x].owner = NoDrainer
<1>1. row[x] \in Rows /\ RowJust(row[x], x, accepted)
  BY JustRows DEF IInv, TypeOK
<1>2. CASE Spent(row[x])
  <2>1. Swept[x] = [row[x] EXCEPT !.state = "exhausted", !.owner = NoDrainer]
    BY <1>2 DEF Swept
  <2>2. row[x].attempts = MaxTries
    BY <1>1, <1>2 DEF Spent, Rows
  <2> QED BY <1>1, <2>1, <2>2 DEF Rows, RowJust
<1>3. CASE ~Spent(row[x])
  BY <1>1, <1>3 DEF Swept
<1> QED BY <1>2, <1>3

LEMMA StepInv == IInv /\ [Next]_vars => IInv'
<1> SUFFICES ASSUME IInv, [Next]_vars PROVE IInv'
  OBVIOUS
<1> USE DEF dest
<1>1. TypeOK' /\ WorkOK' /\ TypeOK /\ WorkOK
  BY StepType DEF IInv, IndType
<1>2. \A x \in Deliveries : RowJust(row[x], x, accepted)
  BY JustRows DEF IInv
<1>3. \A x \in Deliveries : row[x] \in Rows
  BY <1>1 DEF TypeOK
<1> SUFFICES /\ \A x \in Deliveries : RowJust(row'[x], x, accepted')
             /\ EditRevokes' /\ LeaseKnows' /\ AnswerKnows'
  BY <1>1, JustRows DEF IInv
<1> DEFINE Goal == /\ \A x \in Deliveries : RowJust(row'[x], x, accepted')
                   /\ EditRevokes' /\ LeaseKnows' /\ AnswerKnows'
<1>4. ASSUME UNCHANGED <<drain, accepted>>
      PROVE  AnswerKnows' /\ \A p \in Drainers : LeaseKept(p)
  BY <1>4 DEF AnswerKnows, LeaseKept, IInv
<1>5. ASSUME NEW e \in Events, Emit(e) PROVE Goal
  <2>1. ASSUME NEW x \in Deliveries
        PROVE  RowJust(row'[x], x, accepted') /\ TokenKept(x)
    <3>1. CASE row'[x] = row[x]
      BY <1>2, <1>5, <3>1 DEF Emit, TokenKept
    <3>2. CASE row'[x] = [row[x] EXCEPT !.state = "pending"] /\ row[x].state = "none"
      BY <1>2, <1>3, <1>5, <3>2 DEF RowJust, Rows, TokenKept, Emit
    <3>3. x[1] = e => row[x].state = "none"
      BY <1>5 DEF Emit, Deliveries
    <3>4. row'[x] = row[x] \/ (x[1] = e /\ row'[x] = [row[x] EXCEPT !.state = "pending"])
      BY <1>5 DEF Emit
    <3> QED BY <3>1, <3>2, <3>3, <3>4
  <2> QED BY <1>4, <1>5, <2>1, KeptKnows DEF Emit
<1>6. ASSUME NEW d \in Dests, Configure(d) \/ Disable(d) PROVE Goal
  <2>1. /\ CancelAll(d)
        /\ UNCHANGED <<drain, accepted>>
        /\ \A c \in Dests : c # d => revision'[c] = revision[c] /\ (c \in enabled <=> c \in enabled')
    BY <1>1, <1>6 DEF Configure, Disable, TypeOK
  <2>2. ASSUME NEW x \in Deliveries
        PROVE  RowJust(row'[x], x, accepted') /\ TokenKept(x)
    <3>1. CASE x[2] # d
      <4>1. row'[x] = row[x] /\ x[2] \in Dests
        BY <1>1, <2>1, <3>1, CancelAllClears DEF Deliveries
      <4> QED BY <1>2, <2>1, <3>1, <4>1 DEF TokenKept
    <3>2. CASE x[2] = d
      <4>1. \/ row'[x] = row[x] /\ row'[x].state \notin Open
            \/ row'[x].state = "cancelled" /\ row'[x].owner = NoDrainer
        BY <1>1, <2>1, <3>2, CancelAllClears
      <4>2. ~(row'[x].owner \in Drainers)
        BY <1>2, <4>1 DEF RowJust, Open
      <4> QED BY <1>2, <2>1, <4>1, <4>2 DEF RowJust, TokenKept
    <3> QED BY <3>1, <3>2
  <2> QED BY <1>4, <2>1, <2>2, KeptKnows
<1>7. ASSUME NEW d \in Dests, Retry(d) PROVE Goal
  <2>1. ASSUME NEW x \in Deliveries
        PROVE  RowJust(row'[x], x, accepted') /\ TokenKept(x)
    <3>1. row'[x] = row[x] \/ row'[x] = [NoRow EXCEPT !.state = "pending"]
      BY <1>7 DEF Retry
    <3>2. CASE row'[x] = row[x]
      BY <1>2, <1>7, <3>2 DEF Retry, TokenKept
    <3>3. CASE row'[x] = [NoRow EXCEPT !.state = "pending"]
      BY <3>3 DEF NoRow, RowJust, TokenKept
    <3> QED BY <3>1, <3>2, <3>3
  <2> QED BY <1>4, <1>7, <2>1, KeptKnows DEF Retry
<1>8. ASSUME NEW p \in Drainers, Claim(p) PROVE Goal
  <2>1. UNCHANGED <<enabled, revision, accepted, commands>>
    BY <1>8 DEF Claim
  <2>2. CASE row' = Swept /\ drain' = drain
    <3>1. \A x \in Deliveries : RowJust(row'[x], x, accepted') /\ TokenKept(x)
      BY <2>1, <2>2, SweptKnows DEF TokenKept
    <3> QED BY <1>4, <2>1, <2>2, <3>1, KeptKnows
  <2>3. ASSUME NEW y \in Deliveries, Due(y), Claimed(p, y) PROVE Goal
    <3>1. /\ row'[y].state = "leased" /\ row'[y].owner = p
          /\ row'[y].attempts = row[y].attempts + 1
      BY <1>3, <2>3 DEF Claimed, Rows
    <3>2. ASSUME NEW x \in Deliveries, x # y
          PROVE  RowJust(row'[x], x, accepted') /\ TokenKept(x)
      BY <2>1, <2>3, <3>2, SweptKnows DEF Claimed, TokenKept
    <3>3. RowJust(row'[y], y, accepted')
      BY <3>1 DEF RowJust
    <3>4. /\ drain'[p].pc = "claimed" /\ drain'[p].on = y
          /\ drain'[p].previous = row[y].attempts
          /\ drain'[p].revision = revision[y[2]]
          /\ y[2] \in enabled
      BY <2>3 DEF Claimed, LeaseOn, Due
    <3>5. ASSUME NEW q \in Drainers, q # p, drain'[q].pc # "idle",
                 row'[drain'[q].on].owner = q
          PROVE  LET x == drain'[q].on IN
                   /\ row'[x].state = "leased" /\ x[2] \in enabled'
                   /\ revision'[x[2]] = drain'[q].revision
                   /\ row'[x].attempts = drain'[q].previous + 1
      <4> DEFINE x == drain[q].on
      <4>1. drain'[q] = drain[q] /\ x \in Deliveries
        BY <1>1, <2>3, <3>5 DEF Claimed, WorkOK
      <4>2. x # y
        BY <3>1, <3>5, <4>1
      <4>3. TokenKept(x) /\ row'[x].owner = q
        BY <3>2, <3>5, <4>1, <4>2
      <4>4. /\ row[x].owner = q /\ row'[x].state = row[x].state
            /\ row'[x].attempts = row[x].attempts
        BY <4>3 DEF TokenKept
      <4> QED BY <2>1, <3>5, <4>1, <4>4 DEF IInv, EditRevokes, LeaseKnows
    <3>6. EditRevokes' /\ LeaseKnows'
      BY <2>1, <3>1, <3>4, <3>5 DEF EditRevokes, LeaseKnows
    <3>7. AnswerKnows'
      BY <2>1, <2>3, <3>4 DEF AnswerKnows, IInv, Claimed
    <3> QED BY <3>2, <3>3, <3>6, <3>7
  <2> QED BY <1>1, <1>8, <2>2, <2>3, ClaimCases
<1>9. ASSUME NEW p \in Drainers, Check(p) \/ Abandon(p) PROVE Goal
  <2>1. UNCHANGED <<row, enabled, revision, accepted, commands>>
    BY <1>9 DEF Check, Abandon
  <2>2. drain[p].pc # "idle"
    BY <1>9 DEF Check, Abandon
  <2>3. drain'[p] = NoLease \/ drain'[p] = [drain[p] EXCEPT !.pc = "sending"]
    BY <1>1, <1>9 DEF Check, Abandon, TypeOK
  <2>4. drain[p] \in Leases
    BY <1>1 DEF TypeOK
  <2>5. LeaseKept(p) /\ drain'[p].pc # "answered"
    BY <2>2, <2>3, <2>4 DEF LeaseKept, NoLease, Leases
  <2>6. \A q \in Drainers : q # p => drain'[q] = drain[q]
    BY <1>1, <1>9 DEF Check, Abandon, TypeOK
  <2>7. \A q \in Drainers : LeaseKept(q)
    BY <2>5, <2>6 DEF LeaseKept
  <2>8. \A x \in Deliveries : TokenKept(x)
    BY <2>1 DEF TokenKept
  <2>9. AnswerKnows'
    BY <2>1, <2>5, <2>6 DEF AnswerKnows, IInv
  <2> QED BY <1>2, <2>1, <2>7, <2>8, <2>9, KeptKnows
<1>10. ASSUME NEW p \in Drainers, Send(p) PROVE Goal
  <2>1. UNCHANGED <<row, enabled, revision, commands>> /\ accepted \subseteq accepted'
    BY <1>10 DEF Send
  <2>2. drain[p] \in Leases /\ drain[p].pc = "sending"
    BY <1>1, <1>10 DEF TypeOK, Send
  <2>3. PICK o \in Outcomes : /\ drain' = [drain EXCEPT ![p] =
                                    [drain[p] EXCEPT !.pc = "answered", !.outcome = o]]
                              /\ o = "complete" => drain[p].on \in accepted'
    <3>1. PICK o \in Outcomes, seen \in BOOLEAN :
            /\ o = "complete" => seen
            /\ accepted' = IF seen THEN accepted \cup {drain[p].on} ELSE accepted
            /\ drain' = [drain EXCEPT ![p].pc = "answered", ![p].outcome = o]
      BY <1>10 DEF Send
    <3> QED BY <1>1, <3>1 DEF TypeOK
  <2>4. /\ drain'[p].on = drain[p].on /\ drain'[p].previous = drain[p].previous
        /\ drain'[p].revision = drain[p].revision /\ drain'[p].outcome = o
    BY <1>1, <2>2, <2>3 DEF TypeOK, Leases
  <2>5. \A q \in Drainers : q # p => drain'[q] = drain[q]
    BY <1>1, <2>3 DEF TypeOK
  <2>6. \A q \in Drainers : LeaseKept(q)
    BY <2>2, <2>4, <2>5 DEF LeaseKept
  <2>7. \A x \in Deliveries : RowJust(row'[x], x, accepted') /\ TokenKept(x)
    BY <1>2, <2>1 DEF TokenKept, RowJust
  <2>8. AnswerKnows'
    BY <2>1, <2>3, <2>4, <2>5 DEF AnswerKnows, IInv
  <2> QED BY <2>6, <2>7, <2>8, KeptKnows
<1>11. ASSUME NEW p \in Drainers, Acknowledge(p) PROVE Goal
  <2> DEFINE x == drain[p].on
  <2>1. UNCHANGED <<enabled, revision, accepted, commands>> /\ drain[p].pc = "answered"
    BY <1>11 DEF Acknowledge
  <2>2. x \in Deliveries /\ drain[p] \in Leases
    BY <1>1, <2>1 DEF WorkOK, TypeOK
  <2>3. /\ drain'[p].pc = "idle"
        /\ \A q \in Drainers : q # p => drain'[q] = drain[q]
    BY <1>1, <1>11 DEF Acknowledge, NoLease, TypeOK
  <2>4. \A q \in Drainers : LeaseKept(q)
    BY <2>3 DEF LeaseKept
  <2>5. AnswerKnows'
    BY <2>1, <2>3 DEF AnswerKnows, IInv
  <2>6. ASSUME NEW y \in Deliveries, row'[y] = row[y]
        PROVE  RowJust(row'[y], y, accepted') /\ TokenKept(y)
    BY <1>2, <2>1, <2>6 DEF TokenKept
  <2>7. CASE Current(p)
    <3>1. row[x].owner = p /\ row[x].attempts = drain[p].previous + 1 /\ row[x] \in Rows
      BY <1>3, <2>1, <2>2, <2>7 DEF Current, IInv, LeaseKnows
    <3>2. /\ row'[x] = [row[x] EXCEPT !.state = Decide(drain[p].outcome, drain[p].previous),
                                      !.owner = NoDrainer, !.lease = 0, !.wait = 1]
          /\ \A y \in Deliveries : y # x => row'[y] = row[y]
      BY <1>1, <1>11, <2>2, <2>7 DEF Acknowledge, TypeOK
    <3>3. /\ row'[x].state = Decide(drain[p].outcome, drain[p].previous)
          /\ row'[x].owner = NoDrainer /\ row'[x].attempts = row[x].attempts
      BY <3>1, <3>2 DEF Rows
    <3>4. Decide(drain[p].outcome, drain[p].previous) = "exhausted"
            => row[x].attempts = MaxTries
      <4>1. drain[p].previous \in Nat /\ row[x].attempts <= MaxTries /\ drain[p].outcome \in Outcomes
        BY <2>2, <3>1 DEF Leases, Rows
      <4> QED BY <3>1, <4>1 DEF Decide, Outcomes
    <3>5. Decide(drain[p].outcome, drain[p].previous) = "complete" => x \in accepted
      BY <2>1 DEF Decide, IInv, AnswerKnows
    <3>6. RowJust(row'[x], x, accepted') /\ TokenKept(x)
      BY <2>1, <3>3, <3>4, <3>5 DEF RowJust, TokenKept
    <3> QED BY <2>4, <2>5, <2>6, <3>2, <3>6, KeptKnows
  <2>8. CASE ~Current(p)
    <3>1. \A y \in Deliveries : row'[y] = row[y]
      BY <1>11, <2>8 DEF Acknowledge
    <3> QED BY <2>4, <2>5, <2>6, <3>1, KeptKnows
  <2> QED BY <2>7, <2>8
<1>12. CASE Tick
  <2>1. ASSUME NEW x \in Deliveries
        PROVE  RowJust(row'[x], x, accepted') /\ TokenKept(x)
    <3>1. /\ row'[x].state = row[x].state /\ row'[x].owner = row[x].owner
          /\ row'[x].attempts = row[x].attempts
      BY <1>3, <1>12 DEF Tick, Rows
    <3> QED BY <1>2, <1>12, <3>1 DEF Tick, RowJust, TokenKept
  <2> QED BY <1>4, <1>12, <2>1, KeptKnows DEF Tick
<1>13. ASSUME NEW y \in Deliveries, BackoffEnds(y) PROVE Goal
  <2>1. ASSUME NEW x \in Deliveries
        PROVE  RowJust(row'[x], x, accepted') /\ TokenKept(x)
    <3>1. /\ row'[x].state = row[x].state /\ row'[x].owner = row[x].owner
          /\ row'[x].attempts = row[x].attempts
      BY <1>1, <1>3, <1>13 DEF BackoffEnds, TypeOK, Rows
    <3> QED BY <1>2, <1>13, <3>1 DEF BackoffEnds, RowJust, TokenKept
  <2> QED BY <1>4, <1>13, <2>1, KeptKnows DEF BackoffEnds
<1>14. CASE UNCHANGED vars
  BY <1>2, <1>14 DEF vars, IInv, EditRevokes, LeaseKnows, AnswerKnows
<1> QED
  BY <1>5, <1>6, <1>7, <1>8, <1>9, <1>10, <1>11, <1>12, <1>13, <1>14 DEF Next

LEMMA InitInv == Init => IInv
<1> SUFFICES ASSUME Init PROVE IInv
  OBVIOUS
<1>1. TypeOK
  BY InitType
<1>2. \A p \in Drainers : drain[p].pc = "idle"
  BY DEF Init, NoLease
<1>3. \A x \in Deliveries : row[x].state = "none" /\ row[x].owner = NoDrainer
  BY DEF Init, NoRow
<1> QED
  BY <1>1, <1>2, <1>3 DEF IInv, WorkOK, TokenLeased, GivesUpLate, EditRevokes,
     CompleteWasAccepted, LeaseKnows, AnswerKnows

THEOREM InvHolds == Spec => []IInv
BY InitInv, StepInv, PTL DEF Spec

-----------------------------------------------------------------------------
(* The properties.                                                          *)

(* A delivery is exhausted only after MaxTries attempts, whether the sweep  *)
(* of claim or the verdict of acknowledge exhausts it.                      *)
THEOREM GivesUpLateHolds == Spec => []GivesUpLate
<1>1. IInv => GivesUpLate
  BY DEF IInv
<1> QED BY <1>1, InvHolds, PTL

(* A token in a row belongs to the present policy of its destination:       *)
(* configure and control take all others away.                              *)
THEOREM EditRevokesHolds == Spec => []EditRevokes
<1>1. IInv => EditRevokes
  BY DEF IInv
<1> QED BY <1>1, InvHolds, PTL

(* Only what the destination accepted is recorded complete (acknowledge).   *)
THEOREM CompleteWasAcceptedHolds == Spec => []CompleteWasAccepted
<1>1. IInv => CompleteWasAccepted
  BY DEF IInv
<1> QED BY <1>1, InvHolds, PTL

(* The acknowledgement of a lease that was taken away writes nothing.       *)
THEOREM StaleAckHolds == Spec => StaleAckIsPowerless
<1>1. IInv /\ [Next]_vars =>
        [\A p \in Drainers :
           (drain[p].pc = "answered" /\ row[drain[p].on].owner # p /\ drain'[p] # drain[p])
             => UNCHANGED row]_vars
  <2> SUFFICES ASSUME IInv, Next, NEW p \in Drainers, drain[p].pc = "answered",
                      row[drain[p].on].owner # p, drain'[p] # drain[p]
               PROVE  row' = row
    OBVIOUS
  <2> USE DEF dest
  <2>1. TypeOK
    BY DEF IInv
  <2>2. CASE \/ \E e \in Events : Emit(e)
             \/ \E d \in Dests : Configure(d) \/ Disable(d) \/ Retry(d)
             \/ Tick
             \/ \E x \in Deliveries : BackoffEnds(x)
    BY <2>2 DEF Emit, Configure, Disable, Retry, Tick, BackoffEnds
  <2>3. ASSUME NEW q \in Drainers, Claim(q) PROVE row' = row
    BY <2>1, <2>3 DEF Claim, TypeOK
  <2>4. ASSUME NEW q \in Drainers, Check(q) \/ Send(q) \/ Abandon(q) PROVE row' = row
    <3>1. CASE q = p
      BY <2>4, <3>1 DEF Check, Send, Abandon
    <3>2. CASE q # p
      BY <2>1, <2>4, <3>2 DEF Check, Send, Abandon, TypeOK
    <3> QED BY <3>1, <3>2
  <2>5. ASSUME NEW q \in Drainers, Acknowledge(q) PROVE row' = row
    <3>1. CASE q = p
      BY <2>5, <3>1 DEF Acknowledge, Current
    <3>2. CASE q # p
      BY <2>1, <2>5, <3>2 DEF Acknowledge, TypeOK
    <3> QED BY <3>1, <3>2
  <2> QED BY <2>2, <2>3, <2>4, <2>5 DEF Next
<1> QED BY <1>1, InvHolds, PTL DEF Spec, StaleAckIsPowerless

(* Complete and cancelled deliveries are never reopened by a late answer, a *)
(* retry, a sweep or a new policy.                                          *)
THEOREM SettledHolds == Spec => SettledStays
<1>1. IInv /\ [Next]_vars =>
        [\A x \in Deliveries : row[x].state \in {"complete", "cancelled"} =>
           row'[x].state = row[x].state]_vars
  <2> SUFFICES ASSUME IInv, Next, NEW x \in Deliveries,
                      row[x].state \in {"complete", "cancelled"}
               PROVE  row'[x].state = row[x].state
    OBVIOUS
  <2> USE DEF dest
  <2>1. TypeOK /\ row[x] \in Rows /\ row[x].state \notin Open /\ ~(row[x].owner \in Drainers)
    BY DEF IInv, TypeOK, TokenLeased, Open
  <2>2. ASSUME NEW e \in Events, Emit(e) PROVE row'[x].state = row[x].state
    <3>1. x[1] = e => row[x].state = "none"
      BY <2>2 DEF Emit, Deliveries
    <3>2. row'[x] = row[x] \/ x[1] = e
      BY <2>2 DEF Emit
    <3> QED BY <3>1, <3>2
  <2>3. ASSUME NEW d \in Dests, Configure(d) \/ Disable(d) PROVE row'[x].state = row[x].state
    <3>1. CancelAll(d)
      BY <2>3 DEF Configure, Disable
    <3> QED BY <2>1, <3>1, CancelAllClears
  <2>4. ASSUME NEW d \in Dests, Retry(d) PROVE row'[x].state = row[x].state
    BY <2>4 DEF Retry
  <2>5. ASSUME NEW p \in Drainers, Claim(p) PROVE row'[x].state = row[x].state
    <3>1. Swept[x] = row[x]
      BY <2>1, SweptType DEF Spent, TypeOK
    <3>2. ASSUME NEW y \in Deliveries, Due(y), Claimed(p, y)
          PROVE  row'[x].state = row[x].state
      BY <2>1, <3>1, <3>2 DEF Due, Claimed
    <3> QED BY <2>1, <2>5, <3>1, <3>2, ClaimCases
  <2>6. ASSUME NEW p \in Drainers, Acknowledge(p) PROVE row'[x].state = row[x].state
    <3>1. Current(p) => drain[p].on # x
      BY <2>1 DEF Current
    <3> QED BY <2>1, <2>6, <3>1 DEF Acknowledge, TypeOK
  <2>7. ASSUME NEW p \in Drainers, Check(p) \/ Send(p) \/ Abandon(p)
        PROVE  row'[x].state = row[x].state
    BY <2>7 DEF Check, Send, Abandon
  <2>8. ASSUME Tick PROVE row'[x].state = row[x].state
    BY <2>1, <2>8 DEF Tick, Rows
  <2>9. ASSUME NEW y \in Deliveries, BackoffEnds(y) PROVE row'[x].state = row[x].state
    BY <2>1, <2>9 DEF BackoffEnds, TypeOK, Rows
  <2> QED BY <2>2, <2>3, <2>4, <2>5, <2>6, <2>7, <2>8, <2>9 DEF Next
<1> QED BY <1>1, InvHolds, PTL DEF Spec, SettledStays
=============================================================================
