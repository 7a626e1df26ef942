--------------------------- MODULE WatchersProofs --------------------------
(***************************************************************************)
(* Theorems about Watchers, for every number of processes, definitions and *)
(* values and for all bounds.                                              *)
(***************************************************************************)
EXTENDS Watchers, SequenceTheorems, TLAPS

USE WatcherAssumption

-----------------------------------------------------------------------------
(* Types.                                                                   *)

LEMMA RunFacts ==
    ASSUME runs \in Seq(Runs)
    PROVE  /\ Len(runs) \in Nat /\ DOMAIN runs = 1 .. Len(runs)
           /\ \A i \in 1 .. Len(runs) : runs[i] \in Runs
BY LenProperties, ElementOfSeq

\* A run is marked as over.
LEMMA OverFacts ==
    ASSUME runs \in Seq(Runs), NEW i \in 1 .. Len(runs)
    PROVE  LET over == [runs EXCEPT ![i].state = "over"] IN
           /\ over \in Seq(Runs) /\ Len(over) = Len(runs) /\ DOMAIN over = 1 .. Len(runs)
           /\ \A j \in 1 .. Len(runs) : over[j] = IF j = i THEN [runs[j] EXCEPT !.state = "over"] ELSE runs[j]
           /\ \A j \in 1 .. Len(runs) :
                 /\ over[j].changed = runs[j].changed /\ over[j].retry = runs[j].retry
                 /\ over[j].val = runs[j].val /\ over[j].gen = runs[j].gen
                 /\ over[j].def = runs[j].def
<1> DEFINE e == [runs[i] EXCEPT !.state = "over"]
<1>1. runs[i] \in Runs /\ Len(runs) \in Nat /\ \A j \in 1 .. Len(runs) : runs[j] \in Runs
  BY RunFacts
<1>2. e \in Runs /\ e.changed = runs[i].changed /\ e.retry = runs[i].retry /\ e.val = runs[i].val
      /\ e.gen = runs[i].gen /\ e.def = runs[i].def
  BY <1>1 DEF Runs
<1>3. [runs EXCEPT ![i].state = "over"] = [runs EXCEPT ![i] = e]
  OBVIOUS
<1> HIDE DEF e
<1>4. /\ [runs EXCEPT ![i] = e] \in Seq(Runs) /\ Len([runs EXCEPT ![i] = e]) = Len(runs)
      /\ \A j \in 1 .. Len(runs) : [runs EXCEPT ![i] = e][j] = IF j = i THEN e ELSE runs[j]
  BY <1>2, ExceptSeq
<1>5. DOMAIN [runs EXCEPT ![i] = e] = 1 .. Len(runs)
  BY <1>1, RunFacts
<1> QED BY <1>2, <1>3, <1>4, <1>5 DEF e

LEMMA InitTypeOK == Init => TypeOK
<1> SUFFICES ASSUME Init PROVE TypeOK
  OBVIOUS
<1>1. runs \in Seq(Runs) /\ DOMAIN runs = {} /\ Len(runs) = 0
  BY EmptySeq DEF Init
<1>2. row \in Rows /\ proc \in [Procs -> Processes]
  BY DEF Init, Rows, Processes, Idle
<1> QED BY <1>1, <1>2 DEF Init, TypeOK, Idle

\* The commands, the due date and the changes of the catalog touch the row only.
LEMMA RowTypeOK ==
    ASSUME TypeOK, row' \in Rows, row'.completed <= row'.pending, row'.requested <= row'.pending,
           row.pending <= row'.pending,
           {row'.active, row'.reaction} \subseteq 0 .. Len(runs), row'.timed => row'.def.timed,
           native' = native, content' \in Values, version' \in 0 .. steps', version <= version',
           since' \in 0 .. version', steps' \in 0 .. MaxSteps, commands' \in 0 .. MaxCommands,
           UNCHANGED <<asked, runs, proc, notices, done>>
    PROVE  TypeOK'
<1>1. /\ version \in Nat /\ version' \in Nat /\ done \in 0 .. version'
      /\ \A p \in Procs : proc[p].ver <= version'
  BY DEF TypeOK, Processes
<1>2. \A i \in DOMAIN runs : runs[i].retry < i /\ runs[i].gen <= row'.pending
  <2>1. \A i \in DOMAIN runs : runs[i].retry < i /\ runs[i].gen <= row.pending /\ runs[i].gen \in Nat
    BY RunFacts DEF TypeOK, Runs
  <2>2. row.pending \in Nat /\ row'.pending \in Nat
    BY DEF TypeOK, Rows
  <2> QED BY <2>1, <2>2
<1>3. row' \in Rows /\ runs' = runs
  OBVIOUS
<1> QED BY <1>1, <1>2, <1>3 DEF TypeOK, notices

LEMMA StepFacts ==
    ASSUME TypeOK
    PROVE  /\ Command => steps' \in 0 .. MaxSteps /\ commands' \in 0 .. MaxCommands /\ steps' = steps + 1
           /\ Fault => steps' \in 0 .. MaxSteps /\ commands' = commands /\ steps' = steps + 1
BY DEF TypeOK, Command, Fault, Step

LEMMA CommandTypeOK == TypeOK /\ (Commands \/ ComesDue) => TypeOK'
<1> SUFFICES ASSUME TypeOK, Commands \/ ComesDue PROVE TypeOK'
  OBVIOUS
<1>1. /\ row \in Rows /\ row.pending \in Nat /\ row.completed \in Nat /\ row.requested \in Nat
      /\ row.completed <= row.pending /\ row.requested <= row.pending
      /\ row.active \in 0 .. Len(runs) /\ row.reaction \in 0 .. Len(runs)
      /\ (row.timed => row.def.timed) /\ Len(runs) \in Nat
      /\ version \in 0 .. steps /\ since \in 0 .. version /\ content \in Values /\ steps \in Nat
  BY RunFacts DEF TypeOK, Rows
<1>2. CASE Admit
  <2> PICK n \in Nat : n = row.pending + 1
    BY <1>1
  <2>1. row' = [row EXCEPT !.pending = n, !.requested = n, !.retry = FALSE]
    BY <1>2 DEF Admit
  <2>2. row' \in Rows
    BY <1>1, <2>1 DEF Rows
  <2>3. /\ row'.pending = n /\ row'.requested = n /\ row'.completed = row.completed
        /\ row'.active = row.active /\ row'.reaction = row.reaction
        /\ row'.timed = row.timed /\ row'.def = row.def
    BY <1>1, <2>1 DEF Rows
  <2> QED BY <1>1, <1>2, <2>2, <2>3, RowTypeOK, StepFacts DEF Admit, catalog, history
<1>3. CASE Enable
  <2>1. row' = [row EXCEPT !.enabled = TRUE, !.timed = FALSE]
    BY <1>3 DEF Enable
  <2>2. row' \in Rows
    BY <1>1, <2>1 DEF Rows
  <2>3. /\ row'.pending = row.pending /\ row'.requested = row.requested
        /\ row'.completed = row.completed /\ row'.active = row.active
        /\ row'.reaction = row.reaction /\ row'.timed = FALSE
    BY <1>1, <2>1 DEF Rows
  <2>4. since' \in 0 .. version
    BY <1>1, <1>3 DEF Enable
  <2> QED BY <1>1, <1>3, <2>2, <2>3, <2>4, RowTypeOK, StepFacts DEF Enable, catalog
<1>4. CASE Disable
  <2> PICK n \in Nat : n = row.completed
    BY <1>1
  <2>1. row' = [row EXCEPT !.enabled = FALSE, !.retry = FALSE, !.timed = FALSE, !.requested = n]
    BY <1>4 DEF Disable
  <2>2. row' \in Rows
    BY <1>1, <2>1 DEF Rows
  <2>3. /\ row'.pending = row.pending /\ row'.requested = n
        /\ row'.completed = row.completed /\ row'.active = row.active
        /\ row'.reaction = row.reaction /\ row'.timed = FALSE
    BY <1>1, <2>1 DEF Rows
  <2> QED BY <1>1, <1>4, <2>2, <2>3, RowTypeOK, StepFacts DEF Disable, catalog, history
<1>5. ASSUME NEW d \in Defs, Put(d) PROVE TypeOK'
  <2> PICK n \in Nat : n = row.completed
    BY <1>1
  <2>1. row' = [row EXCEPT !.def = d, !.baseline = NoValue, !.reaction = 0, !.retry = FALSE,
                           !.timed = FALSE, !.requested = n]
    BY <1>5 DEF Put
  <2>2. row' \in Rows
    BY <1>1, <2>1 DEF Rows
  <2>3. /\ row'.pending = row.pending /\ row'.requested = n
        /\ row'.completed = row.completed /\ row'.active = row.active
        /\ row'.reaction = 0 /\ row'.timed = FALSE
    BY <1>1, <2>1 DEF Rows
  <2> QED BY <1>1, <1>5, <2>2, <2>3, RowTypeOK, StepFacts DEF Put, catalog, history
<1>6. CASE ComesDue
  <2>1. row' = [row EXCEPT !.timed = TRUE] /\ row.def.timed
    BY <1>6 DEF ComesDue
  <2>2. row' \in Rows
    BY <1>1, <2>1 DEF Rows
  <2>3. /\ row'.pending = row.pending /\ row'.requested = row.requested
        /\ row'.completed = row.completed /\ row'.active = row.active
        /\ row'.reaction = row.reaction /\ row'.def = row.def
    BY <1>1, <2>1 DEF Rows
  <2> QED BY <1>1, <1>6, <2>1, <2>2, <2>3, RowTypeOK, StepFacts DEF ComesDue, catalog, history
<1> QED BY <1>2, <1>3, <1>4, <1>5, <1>6 DEF Commands

LEMMA ChangesTypeOK ==
    ASSUME TypeOK, NEW r, Changes(r)
    PROVE  TypeOK'
<1>1. /\ row \in Rows /\ row.pending \in Nat /\ row.completed \in Nat /\ row.requested \in Nat
      /\ row.completed <= row.pending /\ row.requested <= row.pending
      /\ row.active \in 0 .. Len(runs) /\ row.reaction \in 0 .. Len(runs)
      /\ (row.timed => row.def.timed) /\ Len(runs) \in Nat
      /\ version \in 0 .. steps /\ since \in 0 .. version /\ steps \in Nat
      /\ steps' \in 0 .. MaxSteps /\ steps' = steps + 1 /\ commands' \in 0 .. MaxCommands
  BY RunFacts DEF TypeOK, Rows, Changes, Step
<1>2. /\ row' \in Rows /\ row'.completed <= row'.pending /\ row'.requested <= row'.pending
      /\ row.pending <= row'.pending /\ row'.active = row.active /\ row'.reaction = row.reaction
      /\ (row'.timed => row'.def.timed)
  <2>1. CASE Heard(r)
    <3> PICK n \in Nat : n = row.pending + 1
      BY <1>1
    <3>1. row' = [row EXCEPT !.pending = n, !.event = TRUE]
      BY <2>1 DEF Changes
    <3>2. row' \in Rows
      BY <1>1, <3>1 DEF Rows
    <3>3. /\ row'.pending = n /\ row'.completed = row.completed
          /\ row'.requested = row.requested /\ row'.active = row.active
          /\ row'.reaction = row.reaction /\ row'.timed = row.timed /\ row'.def = row.def
      BY <1>1, <3>1 DEF Rows
    <3> QED BY <1>1, <3>2, <3>3
  <2>2. CASE ~ Heard(r)
    BY <1>1, <2>2 DEF Changes
  <2> QED BY <2>1, <2>2
<1> QED BY <1>1, <1>2, RowTypeOK DEF Changes, history

LEMMA SupersededFacts ==
    ASSUME TypeOK
    PROVE  /\ Superseded \in Seq(Runs) /\ Len(Superseded) = Len(runs)
           /\ DOMAIN Superseded = 1 .. Len(runs)
           /\ \A j \in 1 .. Len(runs) :
                 /\ Superseded[j].changed = runs[j].changed /\ Superseded[j].retry = runs[j].retry
                 /\ Superseded[j].val = runs[j].val /\ Superseded[j].gen = runs[j].gen
                 /\ Superseded[j].def = runs[j].def
                 /\ j # row.active => Superseded[j] = runs[j]
<1>1. runs \in Seq(Runs) /\ row.active \in 0 .. Len(runs) /\ Len(runs) \in Nat
      /\ DOMAIN runs = 1 .. Len(runs)
  BY RunFacts DEF TypeOK
<1>2. CASE row.active = 0
  BY <1>1, <1>2 DEF Superseded
<1>3. CASE row.active # 0
  BY <1>1, <1>3, OverFacts DEF Superseded
<1> QED BY <1>2, <1>3

\* What a step of a process may do to the types.
LEMMA ProcTypeOK ==
    ASSUME TypeOK, UNCHANGED catalog, asked' \in {NoRequest} \cup [def : Defs, gen : Nat],
           row' \in Rows, row'.completed <= row'.pending, row'.requested <= row'.pending,
           {row'.active, row'.reaction} \subseteq 0 .. Len(runs'), row'.timed => row'.def.timed,
           runs' \in Seq(Runs),
           \A i \in 1 .. Len(runs') : runs'[i].retry < i /\ runs'[i].gen <= row'.pending,
           Len(runs) <= Len(runs'),
           proc' \in [Procs -> Processes],
           \A p \in Procs : proc'[p] = proc[p] \/
               /\ proc'[p].ver <= version /\ proc'[p].run <= Len(runs')
               /\ proc'[p].pc # "idle" => proc'[p].retry < proc'[p].run,
           told' \subseteq told \cup [run : 1 .. Len(runs'), native : BOOLEAN],
           announced' \in Values \cup {NoValue},
           done' \in 0 .. version, since' = since,
           steps <= steps', steps' \in 0 .. MaxSteps, commands' \in 0 .. MaxCommands
    PROVE  TypeOK'
<1>1. /\ Len(runs) \in Nat /\ Len(runs') \in Nat /\ DOMAIN runs = 1 .. Len(runs)
      /\ DOMAIN runs' = 1 .. Len(runs')
  BY LenProperties DEF TypeOK
<1>2. version' \in 0 .. steps'
  BY DEF TypeOK, catalog
<1>3. told' \subseteq [run : DOMAIN runs', native : BOOLEAN]
  BY <1>1 DEF TypeOK
<1>4. \A p \in Procs : /\ proc'[p].ver <= version /\ proc'[p].run <= Len(runs')
                       /\ proc'[p].pc # "idle" => proc'[p].retry < proc'[p].run
  <2> SUFFICES ASSUME NEW p \in Procs
               PROVE  /\ proc'[p].ver <= version /\ proc'[p].run <= Len(runs')
                      /\ proc'[p].pc # "idle" => proc'[p].retry < proc'[p].run
    OBVIOUS
  <2>1. proc[p].ver <= version /\ proc[p].run <= Len(runs) /\ proc[p].run \in Nat
        /\ (proc[p].pc # "idle" => proc[p].retry < proc[p].run)
    BY DEF TypeOK, Processes
  <2> QED BY <1>1, <2>1
<1> QED BY <1>1, <1>2, <1>3, <1>4 DEF TypeOK, catalog

LEMMA ProcFacts ==
    ASSUME TypeOK, NEW p \in Procs
    PROVE  /\ proc \in [Procs -> Processes] /\ proc[p] \in Processes
           /\ proc[p].run \in 0 .. Len(runs) /\ proc[p].ver \in 0 .. version
           /\ proc[p].retry \in Nat
           /\ proc[p].pc # "idle" => proc[p].run \in 1 .. Len(runs) /\ proc[p].retry < proc[p].run
           /\ Idle \in Processes /\ Idle.run = 0 /\ Idle.ver = 0 /\ Idle.pc = "idle"
           /\ Len(runs) \in Nat /\ version \in Nat
BY RunFacts DEF TypeOK, Processes, Idle

LEMMA RowFacts ==
    ASSUME TypeOK
    PROVE  /\ row \in Rows /\ row.pending \in Nat /\ row.completed \in Nat /\ row.requested \in Nat
           /\ row.completed <= row.pending /\ row.requested <= row.pending
           /\ row.active \in 0 .. Len(runs) /\ row.reaction \in 0 .. Len(runs)
           /\ row.baseline \in Values \cup {NoValue} /\ row.def \in Defs
           /\ (row.timed => row.def.timed) /\ Len(runs) \in Nat
           /\ runs \in Seq(Runs) /\ DOMAIN runs = 1 .. Len(runs)
           /\ \A i \in 1 .. Len(runs) : /\ runs[i] \in Runs /\ runs[i].retry < i
                                       /\ runs[i].gen \in Nat /\ runs[i].gen <= row.pending
           /\ version \in Nat /\ version \in 0 .. steps /\ since \in 0 .. version /\ done \in 0 .. version
           /\ content \in Values /\ steps \in 0 .. MaxSteps /\ commands \in 0 .. MaxCommands
           /\ announced \in Values \cup {NoValue}
<1>1. \A i \in 1 .. Len(runs) : /\ runs[i] \in Runs /\ runs[i].retry < i
                                /\ runs[i].gen \in Nat /\ runs[i].gen <= row.pending
  <2>1. \A i \in 1 .. Len(runs) : runs[i] \in Runs /\ runs[i].retry < i /\ runs[i].gen <= row.pending
    BY RunFacts DEF TypeOK
  <2> QED BY <2>1 DEF Runs
<1> QED BY <1>1, RunFacts DEF TypeOK, Rows

LEMMA ClaimFacts ==
    ASSUME TypeOK, NEW p \in Procs, NEW manual \in BOOLEAN, Claim(p, manual)
    PROVE  \E n \in Nat, m \in Nat :
             /\ n >= row.pending /\ n > row.completed /\ m <= n
             /\ m >= row.requested /\ (manual => m >= n)
             /\ runs' \in Seq(Runs) /\ Len(runs') = Len(runs) + 1
             /\ \A j \in 1 .. Len(runs) :
                   /\ runs'[j].changed = runs[j].changed /\ runs'[j].retry = runs[j].retry
                   /\ runs'[j].val = runs[j].val /\ runs'[j].gen = runs[j].gen
                   /\ runs'[j].def = runs[j].def
                   /\ j # row.active => runs'[j] = runs[j]
             /\ runs'[Len(runs) + 1] = [def |-> row.def, gen |-> n, state |-> "observing",
                                        changed |-> FALSE, retry |-> 0, val |-> NoValue]
             /\ row' \in Rows
             /\ row'.active = Len(runs) + 1 /\ row'.pending = n /\ row'.requested = m
             /\ row'.completed = row.completed /\ row'.reaction = row.reaction
             /\ row'.timed = row.timed /\ row'.def = row.def /\ row'.retry = row.retry
             /\ row'.event = row.event /\ row'.enabled = row.enabled
             /\ row'.baseline = row.baseline
             /\ proc' = [proc EXCEPT ![p] = [pc |-> "observe", run |-> Len(runs) + 1,
                           base |-> row.baseline, retry |-> row.reaction, ver |-> 0]]
<1>1. row \in Rows /\ row.pending \in Nat /\ row.completed \in Nat /\ row.requested \in Nat
      /\ row.requested <= row.pending /\ row.def \in Defs /\ Len(runs) \in Nat
  BY RowFacts
<1>2. PICK n \in Nat : n = Later(row.completed + 1, row.pending)
  BY <1>1 DEF Later
<1>3. n >= row.pending /\ n > row.completed
  BY <1>1, <1>2 DEF Later
<1>4. PICK m \in Nat : m = IF manual THEN Later(row.requested, n) ELSE row.requested
  BY <1>1 DEF Later
<1>5. m <= n /\ m >= row.requested /\ (manual => m >= n)
  BY <1>1, <1>3, <1>4 DEF Later
<1> DEFINE e == [def |-> row.def, gen |-> n, state |-> "observing",
                 changed |-> FALSE, retry |-> 0, val |-> NoValue]
<1>6. e \in Runs
  BY <1>1 DEF Runs
<1>7. runs' = Append(Superseded, e)
  BY <1>2 DEF Claim
<1> HIDE DEF e
<1>8. /\ runs' \in Seq(Runs) /\ Len(runs') = Len(runs) + 1 /\ runs'[Len(runs) + 1] = e
      /\ \A j \in 1 .. Len(runs) : runs'[j] = Superseded[j]
  BY <1>6, <1>7, SupersededFacts, AppendProperties
<1>9. PICK id \in Nat : id = Len(runs) + 1
  BY <1>1
<1>10. row' = [row EXCEPT !.active = id, !.live = TRUE, !.pid = "alive", !.pending = n, !.requested = m]
  BY <1>2, <1>4, <1>9 DEF Claim
<1>11. row' \in Rows
  BY <1>1, <1>10 DEF Rows
<1>12. /\ row'.active = id /\ row'.pending = n /\ row'.requested = m
       /\ row'.completed = row.completed /\ row'.reaction = row.reaction
       /\ row'.timed = row.timed /\ row'.def = row.def /\ row'.retry = row.retry
       /\ row'.event = row.event /\ row'.enabled = row.enabled
       /\ row'.baseline = row.baseline
  BY <1>1, <1>10 DEF Rows
<1>13. proc' = [proc EXCEPT ![p] = [pc |-> "observe", run |-> Len(runs) + 1, base |-> row.baseline,
                                    retry |-> row.reaction, ver |-> 0]]
  BY DEF Claim
<1>14. \A j \in 1 .. Len(runs) :
          /\ runs'[j].changed = runs[j].changed /\ runs'[j].retry = runs[j].retry
          /\ runs'[j].val = runs[j].val /\ runs'[j].gen = runs[j].gen
          /\ runs'[j].def = runs[j].def
          /\ j # row.active => runs'[j] = runs[j]
  BY <1>8, SupersededFacts
<1> WITNESS n \in Nat, m \in Nat
<1>15. runs'[Len(runs) + 1] = [def |-> row.def, gen |-> n, state |-> "observing",
                               changed |-> FALSE, retry |-> 0, val |-> NoValue]
  BY <1>8 DEF e
<1> QED
  BY <1>3, <1>5, <1>8, <1>9, <1>11, <1>12, <1>13, <1>14, <1>15

LEMMA ClaimTypeOK ==
    ASSUME TypeOK, NEW p \in Procs, NEW manual \in BOOLEAN, Claim(p, manual)
    PROVE  TypeOK'
<1>1. PICK n \in Nat, m \in Nat :
             /\ n >= row.pending /\ n > row.completed /\ m <= n
             /\ m >= row.requested
             /\ runs' \in Seq(Runs) /\ Len(runs') = Len(runs) + 1
             /\ \A j \in 1 .. Len(runs) : runs'[j].retry = runs[j].retry /\ runs'[j].gen = runs[j].gen
             /\ runs'[Len(runs) + 1] = [def |-> row.def, gen |-> n, state |-> "observing",
                                        changed |-> FALSE, retry |-> 0, val |-> NoValue]
             /\ row' \in Rows
             /\ row'.active = Len(runs) + 1 /\ row'.pending = n /\ row'.requested = m
             /\ row'.completed = row.completed /\ row'.reaction = row.reaction
             /\ row'.timed = row.timed /\ row'.def = row.def
             /\ proc' = [proc EXCEPT ![p] = [pc |-> "observe", run |-> Len(runs) + 1,
                           base |-> row.baseline, retry |-> row.reaction, ver |-> 0]]
  BY ClaimFacts
<1>2. row'.completed <= row'.pending /\ row'.requested <= row'.pending
      /\ {row'.active, row'.reaction} \subseteq 0 .. Len(runs')
      /\ (row'.timed => row'.def.timed)
  BY <1>1, RowFacts
<1>3. \A i \in 1 .. Len(runs') : runs'[i].retry < i /\ runs'[i].gen <= row'.pending
  <2> SUFFICES ASSUME NEW i \in 1 .. Len(runs')
               PROVE  runs'[i].retry < i /\ runs'[i].gen <= row'.pending
    OBVIOUS
  <2>1. CASE i = Len(runs) + 1
    BY <1>1, <2>1, RowFacts
  <2>2. CASE i # Len(runs) + 1
    <3>1. i \in 1 .. Len(runs)
      BY <1>1, <2>2, RowFacts
    <3>2. runs'[i].retry = runs[i].retry /\ runs'[i].gen = runs[i].gen /\ row'.pending >= row.pending
      BY <1>1, <3>1
    <3>3. row.pending \in Nat /\ row'.pending \in Nat /\ runs[i].gen \in Nat
          /\ runs[i].gen <= row.pending /\ runs[i].retry < i
      BY <1>1, <3>1, RowFacts
    <3> QED BY <3>2, <3>3
  <2> QED BY <2>1, <2>2
<1> DEFINE q == [pc |-> "observe", run |-> Len(runs) + 1, base |-> row.baseline,
                 retry |-> row.reaction, ver |-> 0]
<1>4. q \in Processes /\ q.ver <= version /\ q.run <= Len(runs') /\ q.retry < q.run
  BY <1>1, RowFacts DEF Processes
<1>5. proc' = [proc EXCEPT ![p] = q]
  BY <1>1
<1> HIDE DEF q
<1>6. proc' \in [Procs -> Processes] /\ proc'[p] = q /\ \A r \in Procs \ {p} : proc'[r] = proc[r]
  BY <1>4, <1>5, ProcFacts
<1>7. asked' \in {NoRequest} \cup [def : Defs, gen : Nat]
  <2>1. Request(row.def, Later(row.completed + 1, row.pending)) \in [def : Defs, gen : Nat]
    BY RowFacts DEF Request, Later
  <2> QED BY <2>1 DEF Claim, TypeOK
<1>8. steps <= steps' /\ steps' \in 0 .. MaxSteps /\ commands' \in 0 .. MaxCommands
  BY StepFacts, RowFacts DEF Claim, bounds
<1>9. UNCHANGED <<catalog, told, announced, done, since>>
  BY DEF Claim, notices, history
<1>10. \A r \in Procs : proc'[r] = proc[r] \/
               /\ proc'[r].ver <= version /\ proc'[r].run <= Len(runs')
               /\ proc'[r].pc # "idle" => proc'[r].retry < proc'[r].run
  BY <1>4, <1>6
<1>11. done' \in 0 .. version /\ announced' \in Values \cup {NoValue} /\ Len(runs) <= Len(runs')
  BY <1>1, <1>9, RowFacts
<1> QED
  BY <1>1, <1>2, <1>3, <1>6, <1>7, <1>8, <1>9, <1>10, <1>11, ProcTypeOK

LEMMA PlanFacts ==
    ASSUME TypeOK, NEW p \in Procs, Plan(p)
    PROVE  LET k == proc[p].run IN
           /\ k \in 1 .. Len(runs) /\ row.active = k /\ row.live
           /\ runs' \in Seq(Runs) /\ Len(runs') = Len(runs)
           /\ \A j \in 1 .. Len(runs) : j # k => runs'[j] = runs[j]
           /\ runs'[k].state = "reacting" /\ runs'[k].changed = (proc[p].base # content)
           /\ runs'[k].retry = proc[p].retry /\ runs'[k].val = content
           /\ runs'[k].gen = runs[k].gen /\ runs'[k].def = runs[k].def
           /\ row' \in Rows
           /\ row'.baseline = content /\ row'.reaction = k
           /\ row'.active = row.active /\ row'.pending = row.pending
           /\ row'.requested = row.requested /\ row'.completed = row.completed
           /\ row'.timed = row.timed /\ row'.def = row.def /\ row'.retry = row.retry
           /\ row'.event = row.event /\ row'.enabled = row.enabled
           /\ proc' \in [Procs -> Processes]
           /\ proc'[p].pc = "planned" /\ proc'[p].run = k /\ proc'[p].ver = version
           /\ proc'[p].retry = proc[p].retry /\ proc'[p].base = proc[p].base
           /\ \A q \in Procs \ {p} : proc'[q] = proc[q]
<1> DEFINE k == proc[p].run
           e == [runs[k] EXCEPT !.state = "reacting", !.changed = (proc[p].base # content),
                                !.retry = proc[p].retry, !.val = content]
           f == [proc[p] EXCEPT !.pc = "planned", !.ver = version]
<1>1. k \in 1 .. Len(runs) /\ row.active = k /\ row.live /\ proc[p] \in Processes
      /\ proc[p].pc = "observe" /\ proc \in [Procs -> Processes] /\ version \in Nat
  BY ProcFacts DEF Plan, Fenced
<1>2. runs[k] \in Runs /\ row \in Rows /\ content \in Values /\ runs \in Seq(Runs)
  BY <1>1, RowFacts
<1>3. proc[p].retry \in Nat /\ (proc[p].base # content) \in BOOLEAN
  BY <1>1 DEF Processes
<1>4. e \in Runs /\ e.state = "reacting" /\ e.changed = (proc[p].base # content)
      /\ e.retry = proc[p].retry /\ e.val = content /\ e.gen = runs[k].gen /\ e.def = runs[k].def
  BY <1>2, <1>3 DEF Runs
<1>5. f \in Processes /\ f.pc = "planned" /\ f.run = k /\ f.ver = version /\ f.retry = proc[p].retry
      /\ f.base = proc[p].base
  BY <1>1 DEF Processes
<1>6. runs' = [runs EXCEPT ![k] = e] /\ row' = [row EXCEPT !.baseline = content, !.reaction = k]
      /\ proc' = [proc EXCEPT ![p] = f]
  BY DEF Plan
<1> HIDE DEF e, f
<1>7. /\ runs' \in Seq(Runs) /\ Len(runs') = Len(runs)
      /\ \A j \in 1 .. Len(runs) : runs'[j] = IF j = k THEN e ELSE runs[j]
  BY <1>1, <1>2, <1>4, <1>6, ExceptSeq
<1>8. k \in Nat
  BY <1>1, RowFacts
<1> HIDE DEF k
<1>9. /\ row' \in Rows /\ row'.baseline = content /\ row'.reaction = k
      /\ row'.active = row.active /\ row'.pending = row.pending
      /\ row'.requested = row.requested /\ row'.completed = row.completed
      /\ row'.timed = row.timed /\ row'.def = row.def /\ row'.retry = row.retry
      /\ row'.event = row.event /\ row'.enabled = row.enabled
  BY <1>2, <1>6, <1>8 DEF Rows
<1>10. proc' \in [Procs -> Processes] /\ proc'[p] = f /\ \A q \in Procs \ {p} : proc'[q] = proc[q]
  BY <1>1, <1>5, <1>6
<1> QED BY <1>1, <1>4, <1>5, <1>7, <1>9, <1>10 DEF k

LEMMA PlanTypeOK ==
    ASSUME TypeOK, NEW p \in Procs, Plan(p)
    PROVE  TypeOK'
<1> DEFINE k == proc[p].run
<1>1. /\ k \in 1 .. Len(runs) /\ row.active = k
      /\ runs' \in Seq(Runs) /\ Len(runs') = Len(runs)
      /\ \A j \in 1 .. Len(runs) : j # k => runs'[j] = runs[j]
      /\ runs'[k].retry = proc[p].retry /\ runs'[k].gen = runs[k].gen
      /\ row' \in Rows /\ row'.reaction = k
      /\ row'.active = row.active /\ row'.pending = row.pending
      /\ row'.requested = row.requested /\ row'.completed = row.completed
      /\ row'.timed = row.timed /\ row'.def = row.def
      /\ proc' \in [Procs -> Processes]
      /\ proc'[p].run = k /\ proc'[p].ver = version /\ proc'[p].retry = proc[p].retry
      /\ \A q \in Procs \ {p} : proc'[q] = proc[q]
  BY PlanFacts
<1>2. proc[p].retry < k /\ Len(runs) \in Nat /\ version \in Nat
  BY ProcFacts DEF Plan
<1>3. \A i \in 1 .. Len(runs') : runs'[i].retry < i /\ runs'[i].gen <= row'.pending
  BY <1>1, <1>2, RowFacts
<1>4. UNCHANGED <<native, content, version, asked, told, announced, done, since, steps, commands>>
  BY DEF Plan, catalog, notices, history, bounds
<1>5. /\ row'.completed <= row'.pending /\ row'.requested <= row'.pending
      /\ {row'.active, row'.reaction} \subseteq 0 .. Len(runs') /\ (row'.timed => row'.def.timed)
  BY <1>1, RowFacts
<1>6. \A q \in Procs : proc'[q] = proc[q] \/
               /\ proc'[q].ver <= version /\ proc'[q].run <= Len(runs')
               /\ proc'[q].pc # "idle" => proc'[q].retry < proc'[q].run
  BY <1>1, <1>2
<1>7. /\ done' \in 0 .. version /\ announced' \in Values \cup {NoValue} /\ Len(runs) <= Len(runs')
      /\ steps <= steps' /\ steps' \in 0 .. MaxSteps /\ commands' \in 0 .. MaxCommands
      /\ asked' \in {NoRequest} \cup [def : Defs, gen : Nat]
  BY <1>1, <1>2, <1>4, RowFacts DEF TypeOK
<1>8. UNCHANGED catalog
  BY <1>4 DEF catalog
<1> HIDE DEF k
<1> QED
  BY <1>1, <1>3, <1>4, <1>5, <1>6, <1>7, <1>8, ProcTypeOK

LEMMA RootFacts ==
    ASSUME NEW i, Chain(i) # {}
    PROVE  /\ Chain(i) = Retries(i) /\ Root(i) \in Retries(i) /\ Root(i) \in DOMAIN runs
           /\ runs[Root(i)].changed
<1>1. Chain(i) = Retries(i) /\ \E j \in Chain(i) : runs[j].changed
  BY DEF Chain
<1>2. Root(i) \in Chain(i) /\ runs[Root(i)].changed
  BY <1>1 DEF Root
<1> QED BY <1>1, <1>2 DEF Retries

\* A process reacts; nothing but the notices and its own place changes.
LEMMA EmitTypeOK ==
    ASSUME TypeOK, NEW p \in Procs, AdmitJobs(p) \/ LegacyEmit(p)
    PROVE  TypeOK'
<1>1. /\ UNCHANGED <<catalog, asked, row, runs, history, bounds>>
      /\ proc' = [proc EXCEPT ![p].pc = "told"] /\ proc[p].pc = "planned"
  BY DEF AdmitJobs, LegacyEmit
<1>2. /\ proc' \in [Procs -> Processes]
      /\ \A q \in Procs : q # p => proc'[q] = proc[q]
      /\ proc'[p].ver = proc[p].ver /\ proc'[p].run = proc[p].run /\ proc'[p].retry = proc[p].retry
  BY <1>1, ProcFacts DEF Processes
<1>3. \A q \in Procs : proc'[q] = proc[q] \/
               /\ proc'[q].ver <= version /\ proc'[q].run <= Len(runs')
               /\ proc'[q].pc # "idle" => proc'[q].retry < proc'[q].run
  <2>1. proc[p].ver <= version /\ proc[p].run <= Len(runs) /\ proc[p].retry < proc[p].run
    BY <1>1, ProcFacts
  <2> QED BY <1>1, <1>2, <2>1
<1>4. proc[p].run \in 1 .. Len(runs) /\ runs[proc[p].run] \in Runs
  BY <1>1, ProcFacts, RowFacts
<1>5. /\ told' \subseteq told \cup [run : 1 .. Len(runs), native : BOOLEAN]
      /\ announced' \in Values \cup {NoValue}
  <2>1. CASE AdmitJobs(p)
    BY <1>4, <2>1 DEF AdmitJobs, Runs
  <2>2. CASE LegacyEmit(p)
    <3>1. [run |-> proc[p].run, native |-> FALSE] \in [run : 1 .. Len(runs), native : BOOLEAN]
          /\ runs[proc[p].run].val \in Values \cup {NoValue}
      BY <1>4 DEF Runs
    <3>2. \/ /\ told' = told \cup {[run |-> proc[p].run, native |-> FALSE]}
             /\ announced' = runs[proc[p].run].val
          \/ told' = told /\ announced' = announced
      BY <2>2 DEF LegacyEmit, notices
    <3> QED BY <3>1, <3>2, RowFacts
  <2> QED BY <2>1, <2>2
<1>6. /\ runs' = runs /\ row' = row /\ asked' = asked /\ UNCHANGED catalog /\ done' = done /\ since' = since
      /\ steps' = steps /\ commands' = commands
  BY <1>1 DEF history, bounds
<1>7. /\ runs \in Seq(Runs) /\ Len(runs) \in Nat /\ row \in Rows
      /\ row.completed <= row.pending /\ row.requested <= row.pending
      /\ {row.active, row.reaction} \subseteq 0 .. Len(runs) /\ (row.timed => row.def.timed)
      /\ \A i \in 1 .. Len(runs) : runs[i].retry < i /\ runs[i].gen <= row.pending
      /\ done \in 0 .. version /\ steps \in 0 .. MaxSteps /\ commands \in 0 .. MaxCommands
      /\ asked \in {NoRequest} \cup [def : Defs, gen : Nat] /\ steps <= steps /\ Len(runs) <= Len(runs)
  <2>1. steps \in Nat /\ Len(runs) \in Nat
    BY RowFacts
  <2> QED BY <2>1, RowFacts DEF TypeOK
<1> QED BY <1>2, <1>3, <1>5, <1>6, <1>7, ProcTypeOK

\* A claim is given up: by its run, for a dead one, or by a completion.
LEMMA GiveUpTypeOK ==
    ASSUME TypeOK, UNCHANGED <<catalog, asked, since>>,
           row' \in Rows, row'.pending = row.pending, row'.completed <= row'.pending, row'.requested <= row'.pending,
           {row'.active, row'.reaction} \subseteq 0 .. Len(runs), row'.timed => row'.def.timed,
           \/ runs' = runs \/ runs' = Superseded
           \/ \E k \in 1 .. Len(runs) : runs' = [runs EXCEPT ![k].state = "over"],
           \/ proc' = proc \/ \E p \in Procs : proc' = [proc EXCEPT ![p] = Idle],
           told' \subseteq told \cup [run : 1 .. Len(runs), native : BOOLEAN],
           announced' \in Values \cup {NoValue}, done' \in 0 .. version,
           steps <= steps', steps' \in 0 .. MaxSteps, commands' \in 0 .. MaxCommands
    PROVE  TypeOK'
<1>1. /\ runs' \in Seq(Runs) /\ Len(runs') = Len(runs) /\ Len(runs) \in Nat
      /\ \A j \in 1 .. Len(runs) : runs'[j].retry = runs[j].retry /\ runs'[j].gen = runs[j].gen
  <2>1. runs \in Seq(Runs) /\ Len(runs) \in Nat
    BY RowFacts
  <2>2. CASE runs' = runs
    BY <2>1, <2>2
  <2>3. CASE runs' = Superseded
    BY <2>1, <2>3, SupersededFacts
  <2>4. ASSUME NEW k \in 1 .. Len(runs), runs' = [runs EXCEPT ![k].state = "over"]
        PROVE  /\ runs' \in Seq(Runs) /\ Len(runs') = Len(runs)
               /\ \A j \in 1 .. Len(runs) : runs'[j].retry = runs[j].retry /\ runs'[j].gen = runs[j].gen
    BY <2>1, <2>4, OverFacts
  <2> QED BY <2>1, <2>2, <2>3, <2>4
<1>2. \A i \in 1 .. Len(runs') : runs'[i].retry < i /\ runs'[i].gen <= row'.pending
  BY <1>1, RowFacts
<1>3. /\ proc' \in [Procs -> Processes]
      /\ \A q \in Procs : proc'[q] = proc[q] \/ proc'[q] = Idle
  BY ProcFacts DEF TypeOK
<1>4. \A q \in Procs : proc'[q] = proc[q] \/
               /\ proc'[q].ver <= version /\ proc'[q].run <= Len(runs')
               /\ proc'[q].pc # "idle" => proc'[q].retry < proc'[q].run
  <2>1. Idle.ver <= version /\ Idle.run <= Len(runs') /\ Idle.pc = "idle"
    BY <1>1, RowFacts DEF Idle
  <2> QED BY <1>3, <2>1
<1>5. asked' \in {NoRequest} \cup [def : Defs, gen : Nat] /\ Len(runs) <= Len(runs') /\ UNCHANGED catalog
  BY <1>1 DEF TypeOK
<1> QED BY <1>1, <1>2, <1>3, <1>4, <1>5, ProcTypeOK

\* What a completion writes.
LEMMA FinishFacts ==
    ASSUME TypeOK, NEW p \in Procs, Finish(p)
    PROVE  LET k == proc[p].run IN
           /\ k \in 1 .. Len(runs) /\ row.active = k /\ proc[p].pc \in {"planned", "told"}
           /\ row' \in Rows /\ row'.active = 0 /\ row'.reaction = 0
           /\ row'.completed = runs[k].gen /\ row'.pending = row.pending
           /\ row'.requested = row.requested /\ row'.timed = FALSE /\ row'.retry = FALSE
           /\ row'.enabled = row.enabled /\ row'.def = row.def /\ row'.baseline = row.baseline
           /\ row'.event = (row.event /\ ~ row.pending <= runs[k].gen)
           /\ runs[k].gen \in Nat
           /\ runs' = [runs EXCEPT ![k].state = "over"]
           /\ proc' = [proc EXCEPT ![p] = Idle] /\ done' = proc[p].ver
<1> DEFINE k == proc[p].run
<1>1. k \in 1 .. Len(runs) /\ row.active = k /\ proc[p].pc \in {"planned", "told"}
  BY ProcFacts DEF Finish
<1>2. runs[k].gen \in Nat /\ row \in Rows
  BY <1>1, RowFacts DEF Runs
<1>3. PICK n \in Nat : n = runs[k].gen
  BY <1>2
<1>4. PICK b \in BOOLEAN : b = (row.event /\ ~ row.pending <= n)
  OBVIOUS
<1>5. row' = [row EXCEPT !.completed = n, !.active = 0, !.live = FALSE, !.reaction = 0,
                         !.retry = FALSE, !.timed = FALSE, !.event = b]
  BY <1>3, <1>4 DEF Finish, ClearsEvents
<1>6. /\ row' \in Rows /\ row'.active = 0 /\ row'.reaction = 0
      /\ row'.completed = n /\ row'.pending = row.pending
      /\ row'.requested = row.requested /\ row'.timed = FALSE /\ row'.retry = FALSE
      /\ row'.enabled = row.enabled /\ row'.def = row.def /\ row'.baseline = row.baseline
      /\ row'.event = b
  BY <1>2, <1>5 DEF Rows
<1>7. runs' = [runs EXCEPT ![k].state = "over"] /\ proc' = [proc EXCEPT ![p] = Idle] /\ done' = proc[p].ver
  BY DEF Finish
<1> QED BY <1>1, <1>2, <1>3, <1>4, <1>6, <1>7

\* A failure gives up the claim of its own run, and no other.
LEMMA FailFacts ==
    ASSUME TypeOK, NEW p \in Procs, Fail(p)
    PROVE  LET k == proc[p].run IN
           /\ k \in 1 .. Len(runs)
           /\ row' \in Rows /\ row'.reaction = row.reaction
           /\ row'.completed = row.completed /\ row'.pending = row.pending
           /\ row'.requested = row.requested /\ row'.timed = row.timed /\ row'.event = row.event
           /\ row'.enabled = row.enabled /\ row'.def = row.def /\ row'.baseline = row.baseline
           /\ row.active = k => row'.active = 0 /\ row'.retry = TRUE
           /\ row.active # k => row' = row
           /\ runs' = [runs EXCEPT ![k].state = "over"]
           /\ proc' = [proc EXCEPT ![p] = Idle]
<1> DEFINE k == proc[p].run
<1>1. k \in 1 .. Len(runs) /\ row \in Rows
  BY ProcFacts, RowFacts DEF Fail
<1>2. runs' = [runs EXCEPT ![k].state = "over"] /\ proc' = [proc EXCEPT ![p] = Idle]
  BY DEF Fail
<1>3. CASE row.active = k
  <2>1. row' = [row EXCEPT !.active = 0, !.live = FALSE, !.retry = TRUE]
    BY <1>3 DEF Fail
  <2>2. /\ row' \in Rows /\ row'.reaction = row.reaction
        /\ row'.completed = row.completed /\ row'.pending = row.pending
        /\ row'.requested = row.requested /\ row'.timed = row.timed /\ row'.event = row.event
        /\ row'.enabled = row.enabled /\ row'.def = row.def /\ row'.baseline = row.baseline
        /\ row'.active = 0 /\ row'.retry = TRUE
    BY <1>1, <2>1 DEF Rows
  <2> QED BY <1>1, <1>2, <1>3, <2>2
<1>4. CASE row.active # k
  <2>1. row' = row
    BY <1>4 DEF Fail
  <2> QED BY <1>1, <1>2, <1>4, <2>1
<1> QED BY <1>3, <1>4

\* A dead claim is given up, or its process dies, or its lease ends: the row
\* keeps everything but the claim.
LEMMA LossFacts ==
    ASSUME TypeOK
    PROVE  /\ \A p \in Procs : Crash(p) => row' \in Rows /\ row'.active = row.active /\ row'.retry = row.retry
           /\ Lapse => row' \in Rows /\ row'.active = row.active /\ row'.retry = row.retry
           /\ Recover => row' \in Rows /\ row'.active = 0 /\ row'.retry = TRUE
           /\ Lapse \/ Recover \/ (\E p \in Procs : Crash(p)) =>
                /\ row'.reaction = row.reaction
                /\ row'.completed = row.completed /\ row'.pending = row.pending
                /\ row'.requested = row.requested /\ row'.timed = row.timed /\ row'.event = row.event
                /\ row'.enabled = row.enabled /\ row'.def = row.def /\ row'.baseline = row.baseline
<1> DEFINE Kept == /\ row'.reaction = row.reaction
                   /\ row'.completed = row.completed /\ row'.pending = row.pending
                   /\ row'.requested = row.requested /\ row'.timed = row.timed /\ row'.event = row.event
                   /\ row'.enabled = row.enabled /\ row'.def = row.def /\ row'.baseline = row.baseline
<1>1. row \in Rows
  BY DEF TypeOK
<1>2. ASSUME NEW p \in Procs, Crash(p)
      PROVE  row' \in Rows /\ row'.active = row.active /\ row'.retry = row.retry /\ Kept
  <2>1. \/ row' = row
        \/ \E pid \in {"alive", "dead"} : row' = [row EXCEPT !.pid = pid]
    BY <1>2 DEF Crash
  <2> QED BY <1>1, <2>1 DEF Rows
<1>3. ASSUME Lapse
      PROVE  row' \in Rows /\ row'.active = row.active /\ row'.retry = row.retry /\ Kept
  <2>1. row' = [row EXCEPT !.live = FALSE]
    BY <1>3 DEF Lapse
  <2> QED BY <1>1, <2>1 DEF Rows
<1>4. ASSUME Recover
      PROVE  row' \in Rows /\ row'.active = 0 /\ row'.retry = TRUE /\ Kept
  <2>1. row' = [row EXCEPT !.active = 0, !.live = FALSE, !.retry = TRUE]
    BY <1>4 DEF Recover
  <2> QED BY <1>1, <2>1 DEF Rows
<1> QED BY <1>2, <1>3, <1>4

LEMMA FinishTypeOK ==
    ASSUME TypeOK, NEW p \in Procs, Finish(p)
    PROVE  TypeOK'
<1> DEFINE k == proc[p].run
<1>1. /\ k \in 1 .. Len(runs)
      /\ row' \in Rows /\ row'.active = 0 /\ row'.reaction = 0
      /\ row'.completed = runs[k].gen /\ row'.pending = row.pending
      /\ row'.requested = row.requested /\ row'.timed = FALSE
      /\ runs' = [runs EXCEPT ![k].state = "over"]
      /\ proc' = [proc EXCEPT ![p] = Idle] /\ done' = proc[p].ver
  BY FinishFacts
<1>2. /\ row'.completed <= row'.pending /\ row'.requested <= row'.pending
      /\ {row'.active, row'.reaction} \subseteq 0 .. Len(runs) /\ (row'.timed => row'.def.timed)
  BY <1>1, RowFacts
<1>3. UNCHANGED <<catalog, asked, since>> /\ steps' = steps /\ commands' = commands /\ Notify(p)
  BY DEF Finish, bounds
<1>4. told' \subseteq told \cup [run : 1 .. Len(runs), native : BOOLEAN] /\ announced' \in Values \cup {NoValue}
  <2>1. CASE ~ Notifies(p) \/ Admitted(k)
    BY <1>3, <2>1, RowFacts DEF Notify, notices
  <2>2. CASE ~ (~ Notifies(p) \/ Admitted(k))
    <3>1. Chain(k) # {}
      BY <2>2 DEF Admitted
    <3>2. PICK r \in 1 .. Len(runs) : r = Root(k)
      BY <3>1, RootFacts, RowFacts
    <3>3. told' = told \cup {[run |-> r, native |-> TRUE]} /\ announced' = runs[r].val
      BY <1>3, <2>2, <3>2 DEF Notify
    <3>4. [run |-> r, native |-> TRUE] \in [run : 1 .. Len(runs), native : BOOLEAN]
          /\ runs[r].val \in Values \cup {NoValue}
      BY RowFacts DEF Runs
    <3> QED BY <3>3, <3>4
  <2> QED BY <2>1, <2>2
<1>5. /\ done' \in 0 .. version /\ steps <= steps' /\ steps' \in 0 .. MaxSteps
      /\ commands' \in 0 .. MaxCommands
  BY <1>1, <1>3, ProcFacts, RowFacts
<1> HIDE DEF k
<1> QED BY <1>1, <1>2, <1>3, <1>4, <1>5, GiveUpTypeOK

LEMMA FailTypeOK ==
    ASSUME TypeOK, NEW p \in Procs, Fail(p)
    PROVE  TypeOK'
<1> DEFINE k == proc[p].run
<1>1. /\ k \in 1 .. Len(runs)
      /\ row' \in Rows /\ row'.reaction = row.reaction
      /\ row'.completed = row.completed /\ row'.pending = row.pending
      /\ row'.requested = row.requested /\ row'.timed = row.timed /\ row'.def = row.def
      /\ row'.active \in {0, row.active}
      /\ runs' = [runs EXCEPT ![k].state = "over"]
      /\ proc' = [proc EXCEPT ![p] = Idle]
  BY FailFacts
<1>2. /\ row'.completed <= row'.pending /\ row'.requested <= row'.pending
      /\ {row'.active, row'.reaction} \subseteq 0 .. Len(runs) /\ (row'.timed => row'.def.timed)
  BY <1>1, RowFacts
<1>3. UNCHANGED <<catalog, asked, since, done, told, announced>>
      /\ (Fault \/ (steps' = steps /\ commands' = commands))
  BY DEF Fail, bounds, notices, history
<1>4. /\ done' \in 0 .. version /\ steps <= steps' /\ steps' \in 0 .. MaxSteps
      /\ commands' \in 0 .. MaxCommands /\ announced' \in Values \cup {NoValue}
  BY <1>3, StepFacts, RowFacts
<1> HIDE DEF k
<1> QED BY <1>1, <1>2, <1>3, <1>4, GiveUpTypeOK

LEMMA LossTypeOK ==
    ASSUME TypeOK, Lapse \/ Recover \/ \E p \in Procs : Crash(p)
    PROVE  TypeOK'
<1>1. /\ row' \in Rows /\ row'.reaction = row.reaction
      /\ row'.completed = row.completed /\ row'.pending = row.pending
      /\ row'.requested = row.requested /\ row'.timed = row.timed /\ row'.def = row.def
      /\ row'.active \in {0, row.active}
  BY LossFacts
<1>2. /\ row'.completed <= row'.pending /\ row'.requested <= row'.pending
      /\ {row'.active, row'.reaction} \subseteq 0 .. Len(runs) /\ (row'.timed => row'.def.timed)
  BY <1>1, RowFacts
<1>3. /\ UNCHANGED <<catalog, asked, since, done, told, announced>>
      /\ (Fault \/ (steps' = steps /\ commands' = commands))
      /\ runs' = runs \/ runs' = Superseded
      /\ proc' = proc \/ \E p \in Procs : proc' = [proc EXCEPT ![p] = Idle]
  BY DEF Lapse, Recover, Crash, bounds, notices, history
<1>4. /\ done' \in 0 .. version /\ steps <= steps' /\ steps' \in 0 .. MaxSteps
      /\ commands' \in 0 .. MaxCommands /\ announced' \in Values \cup {NoValue}
  BY <1>3, StepFacts, RowFacts
<1> QED BY <1>1, <1>2, <1>3, <1>4, GiveUpTypeOK

LEMMA NextTypeOK == TypeOK /\ [Next]_vars => TypeOK'
<1> SUFFICES ASSUME TypeOK, [Next]_vars PROVE TypeOK'
  OBVIOUS
<1>1. CASE Commands \/ ComesDue
  BY <1>1, CommandTypeOK
<1>2. CASE Catalog
  BY <1>2, ChangesTypeOK DEF Catalog, Change, Flush
<1>3. ASSUME NEW p \in Procs, Run(p) PROVE TypeOK'
  BY <1>3, ClaimTypeOK, PlanTypeOK, EmitTypeOK, FinishTypeOK DEF Run
<1>4. CASE Faults \/ Recover
  BY <1>4, FailTypeOK, LossTypeOK DEF Faults
<1>5. CASE UNCHANGED vars
  BY <1>5 DEF vars, TypeOK
<1> QED BY <1>1, <1>2, <1>3, <1>4, <1>5 DEF Next

\* Every variable of the catalog, the row, the runs, the processes and the
\* notices keeps its type; with it, that a retry points to an older run, and
\* that no generation is ahead of the pending one.
THEOREM TypeCorrect == Spec => []TypeOK
BY InitTypeOK, NextTypeOK, PTL DEF Spec

-----------------------------------------------------------------------------
(* The fence.                                                               *)

\* What the property says of one step.
Powerless(p) ==
    /\ UNCHANGED notices /\ row'.baseline = row.baseline
    /\ row'.reaction = row.reaction /\ row'.completed = row.completed

LEMMA StaleStep ==
    ASSUME TypeOK, [Next]_vars, NEW p \in Procs \ Legacy,
           proc'[p] # proc[p], proc[p].pc # "idle", row.active # proc[p].run \/ ~ row.live
    PROVE  Powerless(p)
<1>1. proc \in [Procs -> Processes] /\ ~ Fenced(p)
  BY DEF TypeOK, Fenced
<1>2. ~ (Commands \/ ComesDue \/ Catalog \/ Recover \/ Lapse \/ UNCHANGED vars)
  BY DEF Commands, Admit, Enable, Disable, Put, ComesDue, Catalog, Change, Flush, Changes, Recover, Lapse, vars
<1>3. PICK q \in Procs : Run(q) \/ Fail(q) \/ Crash(q)
  BY <1>2 DEF Next, Faults
<1>4. \E x \in {q} : proc' = [proc EXCEPT ![x] = proc'[x]]
  <2>1. CASE \E manual \in BOOLEAN : Claim(q, manual)
    BY <1>1, <2>1 DEF Claim
  <2>2. CASE Plan(q)
    BY <1>1, <2>2, PlanFacts DEF TypeOK
  <2>3. CASE AdmitJobs(q) \/ LegacyEmit(q)
    BY <1>1, <2>3 DEF AdmitJobs, LegacyEmit
  <2>4. CASE Finish(q) \/ Fail(q) \/ Crash(q)
    BY <1>1, <2>4 DEF Finish, Fail, Crash
  <2> QED BY <1>3, <2>1, <2>2, <2>3, <2>4 DEF Run
<1>5. q = p
  BY <1>1, <1>4
<1>6. Fail(p) \/ Crash(p)
  BY <1>1, <1>3, <1>5 DEF Run, Claim, Plan, AdmitJobs, LegacyEmit, Finish
<1>7. CASE Fail(p)
  <2>1. row'.reaction = row.reaction /\ row'.completed = row.completed /\ row'.baseline = row.baseline
    BY <1>7, FailFacts
  <2> QED BY <1>7, <2>1 DEF Fail, Powerless
<1>8. CASE Crash(p)
  <2>1. row'.reaction = row.reaction /\ row'.completed = row.completed /\ row'.baseline = row.baseline
    BY <1>8, LossFacts
  <2> QED BY <1>8, <2>1 DEF Crash, Powerless
<1> QED BY <1>6, <1>7, <1>8

\* A native run that has lost its claim, or its lease, changes neither the
\* baseline nor the pending reaction nor the completed generation, and tells
\* nobody anything: whatever it tries ends in the fence.
THEOREM StaleRunIsPowerlessHolds == Spec => StaleRunIsPowerless
<1>1. TypeOK /\ [Next]_vars =>
        [\A p \in Procs \ Legacy :
           /\ proc'[p] # proc[p] /\ proc[p].pc # "idle"
           /\ row.active # proc[p].run \/ ~ row.live
           =>
              /\ UNCHANGED notices /\ row'.baseline = row.baseline
              /\ row'.reaction = row.reaction /\ row'.completed = row.completed]_vars
  BY StaleStep DEF Powerless
<1> QED BY <1>1, TypeCorrect, PTL DEF Spec, StaleRunIsPowerless

-----------------------------------------------------------------------------
(* No event is lost.                                                        *)

\* The process has planned the active run and not yet finished it.
Planned(p) == proc[p].pc \in {"planned", "told"} /\ proc[p].run = row.active

\* Until it finishes, its reaction is pending.
Reacts == \A p \in Procs : Planned(p) =>
    row.reaction = proc[p].run /\ runs[proc[p].run].state = "reacting"

\* A claim leaves what made the run due in the row.
ActiveIsOwed == row.active # 0 => Owed(row) \/ row.def.timed

\* Changes since the evaluation have reached a later generation, and the
\* completion of the run will leave them there.
NotLate == \A p \in Procs :
    /\ Planned(p) /\ row.enabled /\ row.def.events /\ version > Later(proc[p].ver, since)
    => row.event /\ row.pending > runs[proc[p].run].gen

\* Without a run, whatever the last one did not see is owed.
IdleIsOwed ==
    /\ row.active = 0 /\ row.enabled /\ row.def.events /\ version > Later(done, since)
    => Requested(row) \/ row.reaction # 0 \/ row.retry \/ EventWaits(row)

IInv == TypeOK /\ Reacts /\ ActiveIsOwed /\ NotLate /\ IdleIsOwed

LEMMA IInvImplies == IInv => NothingMissed
<1> SUFFICES ASSUME IInv, Behind,
                    ~ \E p \in Procs : proc[p].run = row.active /\ proc[p].pc = "observe"
             PROVE  Owed(row)
  BY DEF NothingMissed
<1>1. CASE row.active = 0
  BY <1>1 DEF IInv, IdleIsOwed, Behind, Owed
<1>2. CASE row.active # 0 /\ ~ row.def.timed
  BY <1>2 DEF IInv, ActiveIsOwed
<1>3. CASE row.active # 0 /\ row.def.timed
  <2>1. PICK p \in Procs : proc[p].pc # "idle" /\ proc[p].run = row.active
    BY <1>3 DEF Behind, Working
  <2>2. proc[p].pc \in {"planned", "told"}
    BY <2>1, ProcFacts DEF IInv, Processes
  <2>3. row.reaction = row.active
    BY <2>1, <2>2 DEF IInv, Reacts, Planned
  <2> QED BY <1>3, <2>3 DEF Owed
<1> QED BY <1>1, <1>2, <1>3

LEMMA InitIInv == Init => IInv
<1> SUFFICES ASSUME Init PROVE IInv
  OBVIOUS
<1>1. row.active = 0 /\ version = 0 /\ done = 0 /\ since = 0 /\ \A p \in Procs : proc[p].pc = "idle"
  BY DEF Init, Idle
<1>2. Reacts /\ ActiveIsOwed /\ NotLate /\ IdleIsOwed
  BY <1>1 DEF Reacts, ActiveIsOwed, NotLate, IdleIsOwed, Planned, Later
<1> QED BY <1>2, InitTypeOK DEF IInv

\* Steps that keep the runs and the processes, and let what is owed grow.
LEMMA GrowingIInv ==
    ASSUME IInv, TypeOK', UNCHANGED <<runs, proc, version, done>>,
           row'.active = row.active, row'.reaction = row.reaction,
           row'.completed = row.completed, row'.def = row.def,
           row'.pending >= row.pending, row'.requested >= row.requested,
           row.event => row'.event,
           row.retry => row'.retry \/ row'.requested > row'.completed,
           row.timed => row'.timed \/ row.def.timed,
           \/ row'.enabled = row.enabled /\ since' = since
           \/ row'.enabled /\ since' = version
    PROVE  IInv'
<1>1. /\ row.pending \in Nat /\ row.completed \in Nat /\ row.requested \in Nat
      /\ row'.pending \in Nat /\ row'.completed \in Nat /\ row'.requested \in Nat
      /\ version \in Nat /\ since \in Nat /\ done \in Nat /\ done <= version
      /\ \A i \in 1 .. Len(runs) : runs[i].gen \in Nat
      /\ \A p \in Procs : proc[p].ver \in 0 .. version
      /\ \A p \in Procs : Planned(p) => proc[p].run \in 1 .. Len(runs)
  <2>1. version \in Nat /\ since \in 0 .. version /\ done \in 0 .. version
    BY RowFacts DEF IInv
  <2>2. row'.pending \in Nat /\ row'.completed \in Nat /\ row'.requested \in Nat
    BY DEF TypeOK, Rows
  <2>3. \A p \in Procs : Planned(p) => proc[p].pc # "idle"
    BY DEF Planned
  <2> QED BY <2>1, <2>2, <2>3, RowFacts, ProcFacts DEF IInv
<1>2. \A p \in Procs : Planned(p)' <=> Planned(p)
  BY DEF Planned
<1>3. Reacts'
  BY <1>2 DEF IInv, Reacts
<1>4. /\ Requested(row) => Requested(row')
      /\ EventWaits(row) => EventWaits(row')
      /\ row.retry => row'.retry \/ Requested(row')
  BY <1>1 DEF Requested, EventWaits
<1>5. ActiveIsOwed'
  BY <1>4 DEF IInv, ActiveIsOwed, Owed
<1>6. \A n \in 0 .. version : row'.enabled /\ version > Later(n, since')
                                => row.enabled /\ version > Later(n, since)
  <2> SUFFICES ASSUME NEW n \in 0 .. version, row'.enabled, version > Later(n, since')
               PROVE  row.enabled /\ version > Later(n, since)
    OBVIOUS
  <2>1. ~ (version > Later(n, version))
    BY <1>1 DEF Later
  <2>2. since' # version
    BY <2>1
  <2> QED BY <2>2
<1>7. NotLate'
  <2> SUFFICES ASSUME NEW p \in Procs, Planned(p)', row'.enabled, row'.def.events,
                      version > Later(proc[p].ver, since')
               PROVE  row'.event /\ row'.pending > runs[proc[p].run].gen
    BY DEF NotLate
  <2>1. row.enabled /\ version > Later(proc[p].ver, since)
    BY <1>1, <1>6
  <2>2. row.event /\ row.pending > runs[proc[p].run].gen
    BY <1>2, <2>1 DEF IInv, NotLate
  <2>3. runs[proc[p].run].gen \in Nat
    BY <1>1, <1>2
  <2> QED BY <1>1, <2>2, <2>3
<1>8. IdleIsOwed'
  <2>1. row'.enabled /\ version > Later(done, since') => row.enabled /\ version > Later(done, since)
    BY <1>1, <1>6
  <2> QED BY <1>4, <2>1 DEF IInv, IdleIsOwed
<1> QED BY <1>3, <1>5, <1>7, <1>8 DEF IInv

LEMMA CommandIInv == IInv /\ (Commands \/ ComesDue) => IInv'
<1> SUFFICES ASSUME IInv, Commands \/ ComesDue PROVE IInv'
  OBVIOUS
<1>1. TypeOK /\ TypeOK' /\ row \in Rows /\ row.pending \in Nat /\ row.requested \in Nat
      /\ row.completed \in Nat /\ row.requested <= row.pending /\ row.completed <= row.pending
      /\ (row.timed => row.def.timed)
  BY CommandTypeOK, RowFacts DEF IInv
<1>2. UNCHANGED <<runs, proc, version, done>>
  BY DEF Commands, ComesDue, Admit, Enable, Disable, Put, catalog, history
<1>3. CASE Admit
  <2> PICK n \in Nat : n = row.pending + 1
    BY <1>1
  <2>1. row' = [row EXCEPT !.pending = n, !.requested = n, !.retry = FALSE]
    BY <1>3 DEF Admit
  <2>2. /\ row'.pending = n /\ row'.requested = n /\ row'.completed = row.completed
        /\ row'.active = row.active /\ row'.reaction = row.reaction
        /\ row'.timed = row.timed /\ row'.def = row.def /\ row'.event = row.event
        /\ row'.enabled = row.enabled
    BY <1>1, <2>1 DEF Rows
  <2>3. since' = since
    BY <1>3 DEF Admit, history
  <2> QED BY <1>1, <1>2, <2>2, <2>3, GrowingIInv
<1>4. CASE Enable
  <2>1. row' = [row EXCEPT !.enabled = TRUE, !.timed = FALSE]
    BY <1>4 DEF Enable
  <2>2. /\ row'.pending = row.pending /\ row'.requested = row.requested
        /\ row'.completed = row.completed /\ row'.active = row.active
        /\ row'.reaction = row.reaction /\ row'.event = row.event /\ row'.retry = row.retry
        /\ row'.def = row.def /\ row'.enabled = TRUE
    BY <1>1, <2>1 DEF Rows
  <2>3. \/ row'.enabled = row.enabled /\ since' = since
        \/ row'.enabled /\ since' = version
    BY <1>1, <1>4, <2>2 DEF Enable, Rows
  <2> QED BY <1>1, <1>2, <2>2, <2>3, GrowingIInv
<1>5. CASE Disable \/ \E d \in Defs : Put(d)
  <2>1. row.active = 0 /\ row'.active = 0 /\ ~ row'.enabled
    BY <1>1, <1>5 DEF Disable, Put, Rows
  <2>2. \A p \in Procs : ~ Planned(p)'
    BY <1>2, <2>1, ProcFacts DEF Planned, IInv
  <2> QED BY <1>1, <2>1, <2>2 DEF IInv, Reacts, ActiveIsOwed, NotLate, IdleIsOwed
<1>6. CASE ComesDue
  <2>1. row' = [row EXCEPT !.timed = TRUE] /\ since' = since
    BY <1>6 DEF ComesDue, history
  <2>2. /\ row'.pending = row.pending /\ row'.requested = row.requested
        /\ row'.completed = row.completed /\ row'.active = row.active
        /\ row'.reaction = row.reaction /\ row'.def = row.def /\ row'.event = row.event
        /\ row'.retry = row.retry /\ row'.timed = TRUE /\ row'.enabled = row.enabled
    BY <1>1, <2>1 DEF Rows
  <2> QED BY <1>1, <1>2, <2>1, <2>2, GrowingIInv
<1> QED BY <1>3, <1>4, <1>5, <1>6 DEF Commands

\* A change is heard by every watcher that listens, unless the active run is
\* yet to evaluate.
LEMMA ChangesIInv ==
    ASSUME IInv, NEW r, Changes(r)
    PROVE  IInv'
<1>1. /\ TypeOK /\ TypeOK' /\ row \in Rows /\ row.pending \in Nat /\ row.completed \in Nat
      /\ row.completed <= row.pending
      /\ \A i \in 1 .. Len(runs) : runs[i].gen \in Nat /\ runs[i].gen <= row.pending
  BY ChangesTypeOK, RowFacts DEF IInv
<1>2. UNCHANGED <<runs, proc, done, since>>
  BY DEF Changes, history
<1>3. /\ row'.active = row.active /\ row'.reaction = row.reaction /\ row'.retry = row.retry
      /\ row'.completed = row.completed /\ row'.requested = row.requested
      /\ row'.timed = row.timed /\ row'.def = row.def /\ row'.enabled = row.enabled
      /\ row.event => row'.event
      /\ Heard(r) => row'.event /\ row'.pending = row.pending + 1
      /\ ~ Heard(r) => row' = row
  <2>1. CASE Heard(r)
    <3> PICK n \in Nat : n = row.pending + 1
      BY <1>1
    <3>1. row' = [row EXCEPT !.pending = n, !.event = TRUE]
      BY <2>1 DEF Changes
    <3> QED BY <1>1, <2>1, <3>1 DEF Rows
  <2>2. CASE ~ Heard(r)
    BY <1>1, <2>2 DEF Changes
  <2> QED BY <2>1, <2>2
<1>4. \A p \in Procs : Planned(p)' <=> Planned(p)
  BY <1>2, <1>3 DEF Planned
<1>5. Reacts'
  BY <1>2, <1>3, <1>4 DEF IInv, Reacts
<1>6. row'.pending >= row.pending /\ row'.pending \in Nat
  BY <1>1, <1>3
<1>7. Owed(row) => Owed(row')
  BY <1>1, <1>3, <1>6 DEF Owed, Requested, EventWaits
<1>8. ActiveIsOwed'
  BY <1>3, <1>7 DEF IInv, ActiveIsOwed
<1>9. NotLate'
  <2> SUFFICES ASSUME NEW p \in Procs, Planned(p), row.enabled, row.def.events
               PROVE  row'.event /\ row'.pending > runs[proc[p].run].gen
    BY <1>2, <1>3, <1>4 DEF NotLate
  <2>1. row.active = 0 \/ runs[row.active].state = "reacting"
    BY DEF IInv, Reacts, Planned
  <2>2. Heard(r)
    BY <2>1 DEF Heard
  <2>3. proc[p].run \in 1 .. Len(runs)
    BY <1>1, ProcFacts DEF Planned
  <2> QED BY <1>1, <1>3, <2>2, <2>3
<1>10. IdleIsOwed'
  <2> SUFFICES ASSUME row.active = 0, row.enabled, row.def.events PROVE EventWaits(row')
    BY <1>3 DEF IdleIsOwed
  <2>1. Heard(r)
    BY DEF Heard
  <2> QED BY <1>1, <1>3, <2>1 DEF EventWaits
<1> QED BY <1>1, <1>5, <1>8, <1>9, <1>10 DEF IInv

\* A new run takes the row; what made it due stays.
LEMMA ClaimIInv ==
    ASSUME IInv, NEW p \in Procs, NEW manual \in BOOLEAN, Claim(p, manual)
    PROVE  IInv'
<1>1. TypeOK /\ TypeOK'
  BY ClaimTypeOK DEF IInv
<1>2. PICK n \in Nat, m \in Nat :
             /\ n >= row.pending /\ n > row.completed
             /\ m >= row.requested /\ (manual => m >= n)
             /\ row'.active = Len(runs) + 1 /\ row'.pending = n /\ row'.requested = m
             /\ row'.completed = row.completed /\ row'.reaction = row.reaction
             /\ row'.timed = row.timed /\ row'.def = row.def /\ row'.retry = row.retry
             /\ row'.event = row.event
             /\ proc' = [proc EXCEPT ![p] = [pc |-> "observe", run |-> Len(runs) + 1,
                           base |-> row.baseline, retry |-> row.reaction, ver |-> 0]]
  BY <1>1, ClaimFacts
<1>3. \A q \in Procs : ~ Planned(q)'
  <2> SUFFICES ASSUME NEW q \in Procs PROVE ~ Planned(q)'
    OBVIOUS
  <2>1. proc \in [Procs -> Processes] /\ proc[q].run \in 0 .. Len(runs) /\ Len(runs) \in Nat
    BY <1>1, ProcFacts
  <2>2. CASE q = p
    BY <1>2, <2>1, <2>2 DEF Planned
  <2>3. CASE q # p
    BY <1>2, <2>1, <2>3 DEF Planned
  <2> QED BY <2>2, <2>3
<1>4. Owed(row')
  <2>1. row.pending \in Nat /\ row.completed \in Nat /\ row.requested \in Nat
    BY <1>1, RowFacts
  <2>2. CASE manual
    BY <1>2, <2>1, <2>2 DEF Owed, Requested
  <2>3. CASE ~ manual
    <3>1. Owed(row)
      BY <2>3 DEF Claim, Due
    <3> QED BY <1>2, <2>1, <3>1 DEF Owed, Requested, EventWaits
  <2> QED BY <2>2, <2>3
<1>5. row'.active # 0
  BY <1>1, <1>2, RowFacts
<1> QED BY <1>1, <1>3, <1>4, <1>5 DEF IInv, Reacts, ActiveIsOwed, NotLate, IdleIsOwed

\* The plan evaluates everything there is.
LEMMA PlanIInv ==
    ASSUME IInv, NEW p \in Procs, Plan(p)
    PROVE  IInv'
<1> DEFINE k == proc[p].run
<1>1. TypeOK /\ TypeOK'
  BY PlanTypeOK DEF IInv
<1>2. /\ k \in 1 .. Len(runs) /\ row.active = k
      /\ \A j \in 1 .. Len(runs) : j # k => runs'[j] = runs[j]
      /\ runs'[k].state = "reacting" /\ runs'[k].gen = runs[k].gen
      /\ row'.reaction = k /\ row'.active = row.active /\ row'.pending = row.pending
      /\ row'.event = row.event /\ row'.enabled = row.enabled /\ row'.def = row.def
      /\ proc'[p].run = k /\ proc'[p].ver = version
      /\ \A q \in Procs \ {p} : proc'[q] = proc[q]
  BY <1>1, PlanFacts
<1>3. version' = version /\ since' = since /\ version \in Nat /\ since \in 0 .. version
  BY <1>1, RowFacts DEF Plan, catalog, history
<1>4. Reacts'
  BY <1>2 DEF Reacts, Planned
<1>5. ActiveIsOwed' /\ IdleIsOwed'
  <2>1. row'.active # 0 /\ row'.reaction # 0
    BY <1>1, <1>2, RowFacts
  <2> QED BY <2>1 DEF ActiveIsOwed, IdleIsOwed, Owed
<1>6. NotLate'
  <2> SUFFICES ASSUME NEW q \in Procs, Planned(q)', row'.enabled, row'.def.events,
                      version' > Later(proc'[q].ver, since')
               PROVE  row'.event /\ row'.pending > runs'[proc'[q].run].gen
    BY DEF NotLate
  <2>1. q # p
    BY <1>2, <1>3 DEF Later
  <2>2. Planned(q) /\ proc'[q] = proc[q] /\ proc[q].run = k
    BY <1>2, <2>1 DEF Planned
  <2>3. row.event /\ row.pending > runs[k].gen
    BY <1>2, <1>3, <2>2 DEF IInv, NotLate
  <2> QED BY <1>2, <2>2, <2>3
<1> QED BY <1>1, <1>4, <1>5, <1>6 DEF IInv

LEMMA EmitIInv ==
    ASSUME IInv, NEW p \in Procs, AdmitJobs(p) \/ LegacyEmit(p)
    PROVE  IInv'
<1>1. TypeOK /\ TypeOK'
  BY EmitTypeOK DEF IInv
<1>2. /\ UNCHANGED <<row, runs, version, done, since>>
      /\ proc' = [proc EXCEPT ![p].pc = "told"] /\ proc[p].pc = "planned"
  BY DEF AdmitJobs, LegacyEmit, catalog, history
<1>3. \A q \in Procs : /\ proc'[q].run = proc[q].run /\ proc'[q].ver = proc[q].ver
                       /\ Planned(q)' <=> Planned(q)
  BY <1>1, <1>2, ProcFacts DEF Planned, Processes
<1>4. Reacts' /\ ActiveIsOwed' /\ IdleIsOwed'
  BY <1>2, <1>3 DEF IInv, Reacts, ActiveIsOwed, IdleIsOwed
<1>5. NotLate'
  BY <1>2, <1>3 DEF IInv, NotLate
<1> QED BY <1>1, <1>4, <1>5 DEF IInv

\* Without an active run nothing is planned.
LEMMA NonePlanned ==
    ASSUME TypeOK', row'.active = 0
    PROVE  Reacts' /\ ActiveIsOwed' /\ NotLate'
<1>1. \A q \in Procs : ~ Planned(q)'
  <2> SUFFICES ASSUME NEW q \in Procs, proc'[q].pc # "idle" PROVE proc'[q].run # 0
    BY DEF Planned
  <2>1. proc'[q].retry < proc'[q].run /\ proc'[q].retry \in Nat
    BY DEF TypeOK, Processes
  <2> QED BY <2>1
<1> QED BY <1>1 DEF Reacts, ActiveIsOwed, NotLate

\* A completion acknowledges its own generation and leaves later events alone.
LEMMA FinishIInv ==
    ASSUME IInv, NEW p \in Procs, Finish(p)
    PROVE  IInv'
<1> DEFINE k == proc[p].run
<1>1. TypeOK /\ TypeOK'
  BY FinishTypeOK DEF IInv
<1>2. /\ k \in 1 .. Len(runs) /\ row.active = k /\ proc[p].pc \in {"planned", "told"}
      /\ row'.active = 0 /\ row'.completed = runs[k].gen /\ row'.pending = row.pending
      /\ row'.enabled = row.enabled /\ row'.def = row.def
      /\ row'.event = (row.event /\ ~ row.pending <= runs[k].gen)
      /\ runs[k].gen \in Nat /\ done' = proc[p].ver
  BY <1>1, FinishFacts
<1>3. version' = version /\ since' = since
  BY DEF Finish, catalog
<1>4. IdleIsOwed'
  <2> SUFFICES ASSUME row.enabled, row.def.events, version > Later(proc[p].ver, since)
               PROVE  EventWaits(row')
    BY <1>2, <1>3 DEF IdleIsOwed
  <2>1. row.event /\ row.pending > runs[k].gen
    BY <1>2 DEF IInv, NotLate, Planned
  <2>2. row'.event /\ row'.pending > row'.completed /\ row'.def.events
    BY <1>1, <1>2, <2>1, RowFacts
  <2> QED BY <2>2 DEF EventWaits
<1> QED BY <1>1, <1>2, <1>4, NonePlanned DEF IInv

\* Whoever gives a claim up leaves a retry.
LEMMA GiveUpIInv ==
    ASSUME IInv, Lapse \/ Recover \/ \E p \in Procs : Fail(p) \/ Crash(p)
    PROVE  IInv'
<1> DEFINE Kept == \/ Lapse
                   \/ \E p \in Procs : Crash(p) \/ (Fail(p) /\ row.active # proc[p].run)
<1>1. TypeOK /\ TypeOK'
  BY FailTypeOK, LossTypeOK DEF IInv
<1>2. /\ row'.reaction = row.reaction /\ row'.completed = row.completed
      /\ row'.pending = row.pending /\ row'.requested = row.requested
      /\ row'.timed = row.timed /\ row'.event = row.event
      /\ row'.enabled = row.enabled /\ row'.def = row.def
      /\ \/ row'.active = 0 /\ row'.retry = TRUE
         \/ row'.active = row.active /\ row'.retry = row.retry /\ Kept
  BY <1>1, FailFacts, LossFacts
<1>3. UNCHANGED <<version, done, since>>
  BY DEF Fail, Crash, Lapse, Recover, catalog, history
<1>4. CASE row'.active = 0 /\ row'.retry = TRUE
  <2>1. IdleIsOwed'
    BY <1>4 DEF IdleIsOwed
  <2> QED BY <1>1, <1>4, <2>1, NonePlanned DEF IInv
<1>5. CASE row'.active = row.active /\ row'.retry = row.retry /\ Kept
  <2>1. \A q \in Procs : proc'[q] = proc[q] \/ proc'[q].pc = "idle"
    BY <1>1, <1>5, ProcFacts DEF Fail, Crash, Lapse
  <2>2. \A q \in Procs : Planned(q)' =>
          /\ Planned(q) /\ proc'[q] = proc[q]
          /\ proc[q].run \in 1 .. Len(runs) /\ runs'[proc[q].run] = runs[proc[q].run]
    <3> SUFFICES ASSUME NEW q \in Procs, Planned(q)'
                 PROVE  /\ Planned(q) /\ proc'[q] = proc[q]
                        /\ proc[q].run \in 1 .. Len(runs) /\ runs'[proc[q].run] = runs[proc[q].run]
      OBVIOUS
    <3>1. Planned(q) /\ proc'[q] = proc[q] /\ proc[q].run = row.active
      BY <1>5, <2>1 DEF Planned
    <3>2. proc[q].run \in 1 .. Len(runs)
      BY <1>1, <3>1, ProcFacts DEF Planned
    <3>3. ASSUME NEW p \in Procs, Fail(p), row.active # proc[p].run
          PROVE  runs'[proc[q].run] = runs[proc[q].run]
      <4> DEFINE k == proc[p].run
      <4>1. k \in 1 .. Len(runs) /\ runs' = [runs EXCEPT ![k].state = "over"]
        BY <1>1, <3>3, FailFacts
      <4>2. runs \in Seq(Runs) /\ proc[q].run # k
        BY <1>1, <3>1, <3>3, RowFacts
      <4> HIDE DEF k
      <4> QED BY <3>2, <4>1, <4>2, OverFacts
    <3>4. Lapse \/ (\E p \in Procs : Crash(p)) => runs' = runs
      BY DEF Crash, Lapse
    <3>5. runs'[proc[q].run] = runs[proc[q].run]
      <4>1. \/ Lapse \/ \E p \in Procs : Crash(p)
            \/ \E p \in Procs : Fail(p) /\ row.active # proc[p].run
        BY <1>5
      <4>2. CASE \E p \in Procs : Fail(p) /\ row.active # proc[p].run
        <5>1. PICK p \in Procs : Fail(p) /\ row.active # proc[p].run
          BY <4>2
        <5> QED BY <3>3, <5>1
      <4> QED BY <3>4, <4>1, <4>2
    <3> QED BY <3>1, <3>2, <3>5
  <2>3. Reacts'
    BY <1>2, <2>2 DEF IInv, Reacts
  <2>4. ActiveIsOwed' /\ IdleIsOwed'
    BY <1>2, <1>3, <1>5 DEF IInv, ActiveIsOwed, IdleIsOwed, Owed, Requested, EventWaits
  <2>5. NotLate'
    BY <1>2, <1>3, <2>2 DEF IInv, NotLate
  <2> QED BY <1>1, <2>3, <2>4, <2>5 DEF IInv
<1> QED BY <1>2, <1>4, <1>5

LEMMA NextIInv == IInv /\ [Next]_vars => IInv'
<1> SUFFICES ASSUME IInv, [Next]_vars PROVE IInv'
  OBVIOUS
<1>1. CASE Commands \/ ComesDue
  BY <1>1, CommandIInv
<1>2. CASE Catalog
  BY <1>2, ChangesIInv DEF Catalog, Change, Flush
<1>3. ASSUME NEW p \in Procs, Run(p) PROVE IInv'
  BY <1>3, ClaimIInv, PlanIInv, EmitIInv, FinishIInv DEF Run
<1>4. CASE Faults \/ Recover
  BY <1>4, GiveUpIInv DEF Faults
<1>5. CASE UNCHANGED vars
  <2>1. TypeOK' /\ \A p \in Procs : Planned(p)' <=> Planned(p)
    BY <1>5, NextTypeOK DEF IInv, vars, Planned
  <2>2. Reacts' /\ ActiveIsOwed' /\ IdleIsOwed'
    BY <1>5, <2>1 DEF vars, IInv, Reacts, ActiveIsOwed, IdleIsOwed
  <2>3. NotLate'
    BY <1>5, <2>1 DEF vars, IInv, NotLate
  <2> QED BY <2>1, <2>2, <2>3 DEF IInv
<1> QED BY <1>1, <1>2, <1>3, <1>4, <1>5 DEF Next

\* An event is never lost: whenever the catalog has changed since the last
\* evaluation and the watcher listens, a run is at work that will see the change
\* or another run is owed.
THEOREM NothingMissedHolds == Spec => []NothingMissed
BY InitIInv, NextIInv, IInvImplies, PTL DEF Spec

-----------------------------------------------------------------------------
(* Chains of retries and what subscribers know.                             *)

\* No run has two processes, and a run between two commits of one locked
\* section is the active one.
OwnRuns ==
    /\ \A p, q \in Procs : proc[p].pc # "idle" /\ proc[q].pc # "idle" /\ proc[p].run = proc[q].run => p = q
    /\ \A p \in Procs : Busy(p) => proc[p].run = row.active

\* An active run that observes knows the baseline and the reaction it may have
\* to retry; one that has evaluated has recorded the latter.
Remembers == \A p \in Procs :
    /\ proc[p].pc = "observe" /\ proc[p].run = row.active =>
          /\ proc[p].base = row.baseline /\ proc[p].retry = row.reaction
          /\ runs[proc[p].run].val = NoValue
    /\ Planned(p) => runs[proc[p].run].retry = proc[p].retry

\* Only evaluated runs have changed, retry, are retried, react or were notified.
Evaluated ==
    /\ \A i \in DOMAIN runs :
          /\ runs[i].val = NoValue => ~ runs[i].changed /\ runs[i].retry = 0
          /\ runs[i].retry # 0 => runs[runs[i].retry].val # NoValue
    /\ row.reaction # 0 => /\ runs[row.reaction].val # NoValue
                           /\ runs[row.reaction].val = row.baseline
    /\ \A t \in told : runs[t.run].val # NoValue

\* A retry without a change has come to what the retried run came to.
SameValue == \A i \in DOMAIN runs :
    ~ runs[i].changed /\ runs[i].retry # 0 => runs[i].val = runs[runs[i].retry].val

\* A pending reaction that has nothing to deliver, or whose change was admitted
\* before, or that has been told, leaves subscribers up to date.
Delivered ==
    /\ row.reaction # 0 /\ (Chain(row.reaction) = {} \/ Admitted(row.reaction)) => announced = row.baseline
    /\ \A p \in Procs : Planned(p) /\ proc[p].pc = "told" => announced = row.baseline

\* Of a pending change there is no native notice yet, and every notice of it is
\* one of its retries.
Undelivered == row.reaction # 0 =>
    \A t \in told :
        /\ t.native => t.run \notin Chain(row.reaction)
        /\ \A x \in Chain(row.reaction) :
              runs[x].changed /\ x \in Retries(t.run) => t.run \in Retries(row.reaction)

ChainInv == /\ OwnRuns /\ Remembers /\ Evaluated /\ SameValue /\ Delivered /\ Undelivered
            /\ SubscribersCurrent /\ OneNotice
-----------------------------------------------------------------------------
(* The runs that a run retries are the least set with it that is closed     *)
(* under following a retry without a change.                                *)

Closed(R, S) == \A k \in S : ~ R[k].changed /\ R[k].retry # 0 => R[k].retry \in S
Reach(R, i) == {j \in DOMAIN R : \A S \in SUBSET DOMAIN R : i \in S /\ Closed(R, S) => j \in S}
Links(R) == \A k \in DOMAIN R : R[k].retry # 0 => R[k].retry \in DOMAIN R
Linked(R, i) == IF \E j \in Reach(R, i) : R[j].changed THEN Reach(R, i) ELSE {}

LEMMA ReachLeast ==
    ASSUME NEW R, NEW i \in DOMAIN R, NEW S \in SUBSET DOMAIN R, i \in S, Closed(R, S)
    PROVE  Reach(R, i) \subseteq S
BY DEF Reach

LEMMA ReachFacts ==
    ASSUME NEW R, NEW i \in DOMAIN R, Links(R)
    PROVE  /\ i \in Reach(R, i) /\ Reach(R, i) \subseteq DOMAIN R
           /\ Closed(R, Reach(R, i))
<1>1. i \in Reach(R, i) /\ Reach(R, i) \subseteq DOMAIN R
  BY DEF Reach
<1>2. ASSUME NEW k \in Reach(R, i), ~ R[k].changed, R[k].retry # 0
      PROVE  R[k].retry \in Reach(R, i)
  <2>1. k \in DOMAIN R /\ R[k].retry \in DOMAIN R
    BY <1>2 DEF Reach, Links
  <2>2. ASSUME NEW S \in SUBSET DOMAIN R, i \in S, Closed(R, S)
        PROVE  R[k].retry \in S
    <3>1. k \in S
      BY <2>2 DEF Reach
    <3> QED BY <1>2, <2>2, <3>1 DEF Closed
  <2> QED BY <2>1, <2>2 DEF Reach
<1> QED BY <1>1, <1>2 DEF Closed

LEMMA ReachSame ==
    ASSUME NEW R, NEW Q, Links(R), Links(Q), DOMAIN R \subseteq DOMAIN Q,
           NEW D \in SUBSET DOMAIN R, Closed(R, D), NEW i \in D,
           \A k \in D : Q[k].changed = R[k].changed /\ Q[k].retry = R[k].retry
    PROVE  Reach(Q, i) = Reach(R, i) /\ Reach(R, i) \subseteq D
<1>1. Reach(R, i) \subseteq D
  BY ReachLeast
<1>2. i \in Reach(R, i) /\ Closed(R, Reach(R, i)) /\ i \in Reach(Q, i) /\ Closed(Q, Reach(Q, i))
  <2>1. i \in DOMAIN R /\ i \in DOMAIN Q
    OBVIOUS
  <2> QED BY <2>1, ReachFacts
<1>3. Reach(Q, i) \subseteq Reach(R, i)
  <2>1. Closed(Q, Reach(R, i))
    BY <1>1, <1>2 DEF Closed
  <2>2. Reach(R, i) \in SUBSET DOMAIN Q /\ i \in DOMAIN Q
    BY <1>1
  <2> QED BY <1>2, <2>1, <2>2, ReachLeast
<1>4. Reach(R, i) \subseteq Reach(Q, i)
  <2> DEFINE T == Reach(Q, i) \cap D
  <2>1. Closed(R, T)
    BY <1>2 DEF Closed
  <2>2. T \in SUBSET DOMAIN R /\ i \in T /\ i \in DOMAIN R
    BY <1>2
  <2>3. Reach(R, i) \subseteq T
    BY <2>1, <2>2, ReachLeast
  <2> QED BY <2>3
<1> QED BY <1>1, <1>3, <1>4

LEMMA ReachOne ==
    ASSUME NEW R, NEW i \in DOMAIN R, Links(R), R[i].changed \/ R[i].retry = 0
    PROVE  Reach(R, i) = {i}
<1>1. Closed(R, {i}) /\ {i} \in SUBSET DOMAIN R
  BY DEF Closed
<1>2. Reach(R, i) \subseteq {i}
  BY <1>1, ReachLeast
<1> QED BY <1>2, ReachFacts

LEMMA ReachStep ==
    ASSUME NEW R, NEW i \in DOMAIN R, Links(R), ~ R[i].changed, R[i].retry # 0
    PROVE  Reach(R, i) = {i} \cup Reach(R, R[i].retry)
<1> DEFINE r == R[i].retry
<1>1. r \in DOMAIN R
  BY DEF Links
<1>2. /\ i \in Reach(R, i) /\ Closed(R, Reach(R, i)) /\ Reach(R, i) \in SUBSET DOMAIN R
      /\ r \in Reach(R, r) /\ Closed(R, Reach(R, r)) /\ Reach(R, r) \in SUBSET DOMAIN R
  BY <1>1, ReachFacts
<1>3. r \in Reach(R, i)
  BY <1>2 DEF Closed
<1>4. Reach(R, r) \subseteq Reach(R, i)
  BY <1>1, <1>2, <1>3, ReachLeast
<1>5. Closed(R, {i} \cup Reach(R, r))
  BY <1>2 DEF Closed
<1>6. {i} \cup Reach(R, r) \in SUBSET DOMAIN R
  BY <1>2
<1>7. Reach(R, i) \subseteq {i} \cup Reach(R, r)
  BY <1>5, <1>6, ReachLeast
<1> QED BY <1>2, <1>4, <1>7

\* The model's operators, now and in the next state.
LEMMA ChainIs ==
    /\ \A i : Retries(i) = Reach(runs, i) /\ Chain(i) = Linked(runs, i)
    /\ \A i : Retries(i)' = Reach(runs', i) /\ Chain(i)' = Linked(runs', i)
<1>1. \A i : Retries(i) = Reach(runs, i)
  BY DEF Retries, Reach, Closed
<1>2. \A i : Retries(i)' = Reach(runs', i)
  BY DEF Retries, Reach, Closed
<1> QED BY <1>1, <1>2 DEF Chain, Linked

LEMMA SeqLinks ==
    ASSUME NEW R \in Seq(Runs), \A k \in DOMAIN R : R[k].retry < k
    PROVE  Links(R) /\ DOMAIN R = 1 .. Len(R) /\ Len(R) \in Nat
<1>1. DOMAIN R = 1 .. Len(R) /\ Len(R) \in Nat /\ \A k \in 1 .. Len(R) : R[k] \in Runs
  BY LenProperties, ElementOfSeq
<1>2. \A k \in 1 .. Len(R) : R[k].retry \in Nat
  BY <1>1 DEF Runs
<1> QED BY <1>1, <1>2 DEF Links

LEMMA TypeLinks ==
    /\ TypeOK => Links(runs) /\ DOMAIN runs = 1 .. Len(runs) /\ Len(runs) \in Nat
    /\ TypeOK' => Links(runs') /\ DOMAIN runs' = 1 .. Len(runs') /\ Len(runs') \in Nat
BY SeqLinks DEF TypeOK

LEMMA ValueAlong ==
    ASSUME TypeOK, SameValue, NEW i \in 1 .. Len(runs), NEW j \in Reach(runs, i)
    PROVE  j \in 1 .. Len(runs) /\ runs[j].val = runs[i].val
<1> DEFINE S == {k \in DOMAIN runs : runs[k].val = runs[i].val}
<1>1. DOMAIN runs = 1 .. Len(runs) /\ Links(runs)
  BY RowFacts, TypeLinks
<1>2. Closed(runs, S)
  BY <1>1 DEF Closed, Links, SameValue
<1>3. i \in S /\ S \in SUBSET DOMAIN runs
  BY <1>1
<1> HIDE DEF S
<1>4. Reach(runs, i) \subseteq S
  BY <1>1, <1>2, <1>3, ReachLeast
<1> QED BY <1>1, <1>4 DEF S

\* A step that keeps what the runs came to keeps their chains.
LEMMA KeepChains ==
    ASSUME TypeOK, TypeOK', DOMAIN runs \subseteq DOMAIN runs',
           \A j \in DOMAIN runs : runs'[j].changed = runs[j].changed /\ runs'[j].retry = runs[j].retry
    PROVE  \A i \in DOMAIN runs : Retries(i)' = Retries(i) /\ Chain(i)' = Chain(i)
<1> SUFFICES ASSUME NEW i \in DOMAIN runs
             PROVE  Reach(runs', i) = Reach(runs, i) /\ Linked(runs', i) = Linked(runs, i)
  BY ChainIs
<1>1. Links(runs) /\ Links(runs')
  BY TypeLinks
<1>2. Closed(runs, DOMAIN runs)
  BY <1>1 DEF Closed, Links
<1>3. Reach(runs', i) = Reach(runs, i) /\ Reach(runs, i) \subseteq DOMAIN runs
  BY <1>1, <1>2, ReachSame
<1> QED BY <1>3 DEF Linked

\* What a step may do that delivers nothing and evaluates nothing.
LEMMA QuietChain ==
    ASSUME TypeOK, TypeOK', ChainInv, DOMAIN runs \subseteq DOMAIN runs',
           \A j \in DOMAIN runs :
              /\ runs'[j].changed = runs[j].changed /\ runs'[j].retry = runs[j].retry
              /\ runs'[j].val = runs[j].val,
           \A j \in DOMAIN runs' \ DOMAIN runs :
              runs'[j].val = NoValue /\ ~ runs'[j].changed /\ runs'[j].retry = 0,
           told' = told, announced' = announced,
           row'.reaction = row.reaction, row'.baseline = row.baseline,
           \A p \in Procs : Planned(p)' /\ proc'[p].pc = "told" => Planned(p) /\ proc[p].pc = "told",
           OwnRuns', Remembers'
    PROVE  ChainInv'
<1>1. /\ \A i \in DOMAIN runs : Retries(i)' = Retries(i) /\ Chain(i)' = Chain(i)
      /\ Links(runs)
  BY KeepChains, TypeLinks
<1>2. \A t \in told : t.run \in DOMAIN runs
  BY DEF TypeOK
<1>3. row.reaction # 0 => row.reaction \in DOMAIN runs
  BY RowFacts
<1>4. Evaluated'
  <2>1. \A i \in DOMAIN runs' :
          /\ runs'[i].val = NoValue => ~ runs'[i].changed /\ runs'[i].retry = 0
          /\ runs'[i].retry # 0 => runs'[runs'[i].retry].val # NoValue
    <3> SUFFICES ASSUME NEW i \in DOMAIN runs'
                 PROVE  /\ runs'[i].val = NoValue => ~ runs'[i].changed /\ runs'[i].retry = 0
                        /\ runs'[i].retry # 0 => runs'[runs'[i].retry].val # NoValue
      OBVIOUS
    <3>1. CASE i \in DOMAIN runs
      <4>1. /\ runs[i].val = NoValue => ~ runs[i].changed /\ runs[i].retry = 0
            /\ runs[i].retry # 0 => runs[runs[i].retry].val # NoValue
            /\ runs[i].retry # 0 => runs[i].retry \in DOMAIN runs
        BY <1>1, <3>1 DEF ChainInv, Evaluated, Links
      <4> QED BY <3>1, <4>1
    <3>2. CASE i \notin DOMAIN runs
      BY <3>2
    <3> QED BY <3>1, <3>2
  <2>2. row'.reaction # 0 => /\ runs'[row'.reaction].val # NoValue
                             /\ runs'[row'.reaction].val = row'.baseline
    BY <1>3 DEF ChainInv, Evaluated
  <2>3. \A t \in told' : runs'[t.run].val # NoValue
    BY <1>2 DEF ChainInv, Evaluated
  <2> QED BY <2>1, <2>2, <2>3 DEF Evaluated
<1>5. SameValue'
  <2> SUFFICES ASSUME NEW i \in DOMAIN runs', ~ runs'[i].changed, runs'[i].retry # 0
               PROVE  runs'[i].val = runs'[runs'[i].retry].val
    BY DEF SameValue
  <2>1. i \in DOMAIN runs
    OBVIOUS
  <2>2. runs[i].retry \in DOMAIN runs /\ runs[i].val = runs[runs[i].retry].val
    BY <1>1, <2>1 DEF Links, ChainInv, SameValue
  <2> QED BY <2>1, <2>2
<1>6. row'.reaction # 0 => (Admitted(row.reaction)' <=> Admitted(row.reaction))
                           /\ Chain(row.reaction)' = Chain(row.reaction)
  <2> SUFFICES ASSUME NEW r, r = row.reaction, row.reaction # 0
               PROVE  Admitted(r)' <=> Admitted(r)
    BY <1>1, <1>3
  <2> QED BY <1>1, <1>3 DEF Admitted
<1>7. Delivered'
  BY <1>6 DEF ChainInv, Delivered
<1>8. Undelivered'
  <2> SUFFICES ASSUME NEW r, r = row.reaction, r # 0, NEW t \in told
               PROVE  /\ t.native => t.run \notin Chain(r)
                      /\ \A x \in Chain(r) : runs'[x].changed /\ x \in Retries(t.run) => t.run \in Retries(r)
    BY <1>1, <1>2, <1>3 DEF Undelivered
  <2>1. \A x \in Chain(r) : x \in DOMAIN runs
    BY DEF Chain, Retries
  <2> QED BY <2>1 DEF ChainInv, Undelivered
<1>9. SubscribersCurrent'
  BY DEF ChainInv, SubscribersCurrent
<1>10. OneNotice'
  BY <1>1, <1>2 DEF ChainInv, OneNotice
<1> QED BY <1>4, <1>5, <1>7, <1>8, <1>9, <1>10 DEF ChainInv

\* What it may do to the processes.
LEMMA QuietProcs ==
    ASSUME TypeOK, TypeOK', ChainInv, DOMAIN runs \subseteq DOMAIN runs',
           \A j \in DOMAIN runs :
              /\ runs'[j].def = runs[j].def /\ runs'[j].retry = runs[j].retry
              /\ runs'[j].val = runs[j].val,
           \A q \in Procs : proc'[q] = proc[q] \/ proc'[q].pc = "idle",
           row'.active = row.active \/ (row'.active = 0 /\ \A q \in Procs : ~ Busy(q)'),
           row'.reaction = row.reaction, row'.baseline = row.baseline
    PROVE  /\ OwnRuns' /\ Remembers'
           /\ \A p \in Procs : Planned(p)' /\ proc'[p].pc = "told" => Planned(p) /\ proc[p].pc = "told"
<1>1. \A q \in Procs : proc'[q].pc # "idle" =>
        /\ proc'[q] = proc[q] /\ proc[q].run \in DOMAIN runs /\ proc[q].run # 0
  BY ProcFacts, TypeLinks
<1>2. \A q \in Procs : Busy(q)' => Busy(q) /\ row'.active = row.active
  <2> SUFFICES ASSUME NEW q \in Procs, Busy(q)' PROVE Busy(q) /\ row'.active = row.active
    OBVIOUS
  <2>1. proc'[q].pc # "idle"
    BY DEF Busy
  <2> QED BY <1>1, <2>1 DEF Busy
<1>3. OwnRuns'
  BY <1>1, <1>2 DEF ChainInv, OwnRuns, Busy
<1>4. \A q \in Procs : /\ Planned(q)' => Planned(q)
                       /\ proc'[q].pc = "observe" /\ proc'[q].run = row'.active => proc[q].run = row.active
  BY <1>1 DEF Planned
<1>5. Remembers'
  BY <1>1, <1>4 DEF ChainInv, Remembers, Planned
<1> QED BY <1>1, <1>3, <1>4, <1>5 DEF Planned

LEMMA InitChain == Init => ChainInv
<1> SUFFICES ASSUME Init PROVE ChainInv
  OBVIOUS
<1>1. /\ runs = <<>> /\ DOMAIN runs = {} /\ told = {} /\ row.reaction = 0
      /\ row.active = 0 /\ row.baseline = NoValue
      /\ \A p \in Procs : proc[p].pc = "idle"
  BY DEF Init, Idle
<1>2. OwnRuns /\ Remembers
  BY <1>1 DEF OwnRuns, Remembers, Planned, Busy
<1>3. Evaluated /\ SameValue /\ Delivered /\ Undelivered /\ SubscribersCurrent /\ OneNotice
  BY <1>1 DEF Evaluated, SameValue, Delivered, Planned, Undelivered, SubscribersCurrent, OneNotice
<1> QED BY <1>2, <1>3 DEF ChainInv

\* Requests, due dates and changes of the catalog.
LEMMA RequestChain ==
    ASSUME TypeOK, TypeOK', ChainInv,
           \/ Admit \/ Enable \/ Disable \/ ComesDue \/ Catalog
    PROVE  ChainInv'
<1>1. row \in Rows
  BY DEF TypeOK
<1>2. row'.reaction = row.reaction /\ row'.baseline = row.baseline /\ row'.active = row.active
  <2>1. CASE Admit
    BY <1>1, <2>1 DEF Admit, Rows
  <2>2. CASE Enable \/ Disable
    BY <1>1, <2>2 DEF Enable, Disable, Rows
  <2>3. CASE ComesDue
    BY <1>1, <2>3 DEF ComesDue, Rows
  <2>4. CASE Catalog
    <3>1. PICK r \in {NoRequest, asked} : Changes(r)
      BY <2>4 DEF Catalog, Change, Flush
    <3> QED BY <1>1, <3>1 DEF Changes, Rows
  <2> QED BY <2>1, <2>2, <2>3, <2>4
<1>3. UNCHANGED <<runs, proc, told, announced>>
  BY DEF Admit, Enable, Disable, ComesDue, Catalog, Change, Flush, Changes, notices
<1>4. /\ OwnRuns' /\ Remembers'
      /\ \A p \in Procs : Planned(p)' /\ proc'[p].pc = "told" => Planned(p) /\ proc[p].pc = "told"
  BY <1>2, <1>3, QuietProcs
<1> QED BY <1>2, <1>3, <1>4, QuietChain

\* A new definition starts afresh.
LEMMA PutChain ==
    ASSUME TypeOK, TypeOK', ChainInv, NEW d \in Defs, Put(d)
    PROVE  ChainInv'
<1>1. row.active = 0 /\ UNCHANGED <<runs, proc, told, announced>>
  BY DEF Put, notices
<1>2. row'.active = 0 /\ row'.reaction = 0 /\ row'.baseline = NoValue
  <2>1. row \in Rows
    BY DEF TypeOK
  <2> QED BY <1>1, <2>1 DEF Put, Rows
<1>3. \A q \in Procs : proc[q].pc # "idle" => proc[q].run # 0
  BY ProcFacts
<1>4. OwnRuns' /\ Remembers'
  BY <1>1, <1>2, <1>3 DEF ChainInv, OwnRuns, Remembers, Busy, Planned
<1>5. Evaluated' /\ SameValue' /\ Delivered' /\ Undelivered' /\ SubscribersCurrent'
  BY <1>1, <1>2, <1>3 DEF ChainInv, Evaluated, SameValue, Delivered, Planned, Undelivered, SubscribersCurrent
<1>6. OneNotice'
  <2>1. \A i : Chain(i)' = Chain(i)
    BY <1>1, ChainIs
  <2> QED BY <1>1, <2>1 DEF ChainInv, OneNotice
<1> QED BY <1>4, <1>5, <1>6 DEF ChainInv

\* Errors, deaths, lost leases and recovery.
LEMMA LossChain ==
    ASSUME TypeOK, TypeOK', ChainInv, Lapse \/ Recover \/ \E p \in Procs : Fail(p) \/ Crash(p)
    PROVE  ChainInv'
<1> DEFINE Same == /\ DOMAIN runs' = DOMAIN runs
                   /\ \A j \in DOMAIN runs :
                        /\ runs'[j].changed = runs[j].changed /\ runs'[j].retry = runs[j].retry
                        /\ runs'[j].val = runs[j].val /\ runs'[j].def = runs[j].def
           Gone == /\ \A q \in Procs : proc'[q] = proc[q] \/ proc'[q].pc = "idle"
                   /\ row'.active = row.active \/ (row'.active = 0 /\ \A q \in Procs : ~ Busy(q)')
                   /\ row'.reaction = row.reaction /\ row'.baseline = row.baseline
<1>0. /\ DOMAIN runs = 1 .. Len(runs) /\ runs \in Seq(Runs) /\ proc \in [Procs -> Processes]
      /\ Idle.pc = "idle"
  BY RowFacts DEF TypeOK, Idle
<1>1. CASE Lapse \/ \E p \in Procs : Crash(p)
  <2>1. Same
    BY <1>1 DEF Lapse, Crash
  <2>2. Gone
    <3>1. row'.active = row.active /\ row'.reaction = row.reaction /\ row'.baseline = row.baseline
      BY <1>1, LossFacts
    <3>2. \A q \in Procs : proc'[q] = proc[q] \/ proc'[q].pc = "idle"
      BY <1>0, <1>1 DEF Lapse, Crash
    <3> QED BY <3>1, <3>2
  <2>3. UNCHANGED <<told, announced>>
    BY <1>1 DEF Lapse, Crash, notices
  <2>4. /\ OwnRuns' /\ Remembers'
        /\ \A p \in Procs : Planned(p)' /\ proc'[p].pc = "told" => Planned(p) /\ proc[p].pc = "told"
    BY <2>1, <2>2, QuietProcs
  <2> QED BY <2>1, <2>2, <2>3, <2>4, QuietChain
<1>2. CASE Recover
  <2>1. runs' = Superseded /\ proc' = proc /\ UNCHANGED <<told, announced>> /\ Unlocked
    BY <1>2 DEF Recover, notices
  <2>2. Same
    BY <1>0, <2>1, SupersededFacts
  <2>3. \A q \in Procs : ~ Busy(q)'
    <3> SUFFICES ASSUME NEW q \in Procs, Busy(q)' PROVE FALSE
      OBVIOUS
    <3>1. proc[q].pc # "idle"
      BY <2>1 DEF Busy
    <3>2. proc[q].run \in DOMAIN runs
      BY <1>0, <3>1, ProcFacts
    <3> QED BY <2>1, <2>2, <3>2 DEF Busy, Unlocked
  <2>4. Gone
    BY <1>2, <2>1, <2>3, LossFacts
  <2>5. /\ OwnRuns' /\ Remembers'
        /\ \A p \in Procs : Planned(p)' /\ proc'[p].pc = "told" => Planned(p) /\ proc[p].pc = "told"
    BY <2>2, <2>4, QuietProcs
  <2> QED BY <2>1, <2>2, <2>4, <2>5, QuietChain
<1>3. ASSUME NEW p \in Procs, Fail(p) PROVE ChainInv'
  <2>1. /\ \A q \in Procs \ {p} : ~ Busy(q)
        /\ UNCHANGED <<told, announced>>
    BY <1>3 DEF Fail, notices
  <2>2. /\ proc[p].run \in 1 .. Len(runs) /\ row'.reaction = row.reaction
        /\ row'.baseline = row.baseline
        /\ runs' = [runs EXCEPT ![proc[p].run].state = "over"] /\ proc' = [proc EXCEPT ![p] = Idle]
        /\ row'.active \in {0, row.active}
    BY <1>3, FailFacts
  <2>3. Same
    BY <1>0, <2>2, OverFacts
  <2>4. \A q \in Procs : ~ Busy(q)'
    <3> SUFFICES ASSUME NEW q \in Procs, Busy(q)' PROVE FALSE
      OBVIOUS
    <3>1. proc'[q].pc # "idle"
      BY DEF Busy
    <3>2. q # p /\ proc'[q] = proc[q]
      BY <1>0, <2>2, <3>1
    <3>3. proc[q].run \in DOMAIN runs
      BY <1>0, <3>1, <3>2, ProcFacts
    <3> QED BY <2>1, <2>3, <3>2, <3>3 DEF Busy
  <2>5. Gone
    BY <1>0, <2>2, <2>4
  <2>6. /\ OwnRuns' /\ Remembers'
        /\ \A q \in Procs : Planned(q)' /\ proc'[q].pc = "told" => Planned(q) /\ proc[q].pc = "told"
    BY <2>3, <2>5, QuietProcs
  <2> QED BY <2>1, <2>3, <2>5, <2>6, QuietChain
<1> QED BY <1>1, <1>2, <1>3

\* A new run remembers what the row says.
LEMMA ClaimChain ==
    ASSUME TypeOK, TypeOK', ChainInv, NEW p \in Procs, NEW manual \in BOOLEAN, Claim(p, manual)
    PROVE  ChainInv'
<1>1. /\ Len(runs') = Len(runs) + 1
      /\ \A j \in 1 .. Len(runs) :
            /\ runs'[j].changed = runs[j].changed /\ runs'[j].retry = runs[j].retry
            /\ runs'[j].val = runs[j].val /\ runs'[j].def = runs[j].def
      /\ runs'[Len(runs) + 1].val = NoValue /\ ~ runs'[Len(runs) + 1].changed
      /\ runs'[Len(runs) + 1].retry = 0
      /\ row'.active = Len(runs) + 1 /\ row'.reaction = row.reaction
      /\ row'.baseline = row.baseline
      /\ proc' = [proc EXCEPT ![p] = [pc |-> "observe", run |-> Len(runs) + 1,
                    base |-> row.baseline, retry |-> row.reaction, ver |-> 0]]
  <2>1. PICK n \in Nat, m \in Nat :
             /\ Len(runs') = Len(runs) + 1
             /\ \A j \in 1 .. Len(runs) :
                   /\ runs'[j].changed = runs[j].changed /\ runs'[j].retry = runs[j].retry
                   /\ runs'[j].val = runs[j].val /\ runs'[j].def = runs[j].def
             /\ runs'[Len(runs) + 1] = [def |-> row.def, gen |-> n, state |-> "observing",
                                        changed |-> FALSE, retry |-> 0, val |-> NoValue]
             /\ row'.active = Len(runs) + 1 /\ row'.reaction = row.reaction
             /\ row'.baseline = row.baseline
             /\ proc' = [proc EXCEPT ![p] = [pc |-> "observe", run |-> Len(runs) + 1,
                           base |-> row.baseline, retry |-> row.reaction, ver |-> 0]]
    BY ClaimFacts
  <2> QED BY <2>1
<1>2. /\ DOMAIN runs = 1 .. Len(runs) /\ DOMAIN runs' = 1 .. Len(runs') /\ Len(runs) \in Nat
      /\ proc \in [Procs -> Processes]
  BY TypeLinks DEF TypeOK
<1>3. /\ DOMAIN runs \subseteq DOMAIN runs' /\ Len(runs) + 1 \notin DOMAIN runs
      /\ \A j \in DOMAIN runs' \ DOMAIN runs : j = Len(runs) + 1
  BY <1>1, <1>2
<1>4. /\ proc'[p].pc = "observe" /\ proc'[p].run = Len(runs) + 1
      /\ proc'[p].base = row.baseline /\ proc'[p].retry = row.reaction
      /\ \A q \in Procs : q # p => proc'[q] = proc[q]
  BY <1>1, <1>2
<1>5. \A q \in Procs : q # p /\ proc[q].pc # "idle" =>
        /\ proc[q].run \in DOMAIN runs /\ proc'[q].run # row'.active /\ proc'[q].run # proc'[p].run
  <2> SUFFICES ASSUME NEW q \in Procs, q # p, proc[q].pc # "idle"
               PROVE  /\ proc[q].run \in DOMAIN runs /\ proc'[q].run # row'.active
                      /\ proc'[q].run # proc'[p].run
    OBVIOUS
  <2>1. proc[q].run \in DOMAIN runs
    BY <1>2, ProcFacts
  <2> QED BY <1>1, <1>3, <1>4, <2>1
<1>6. \A q \in Procs : ~ Busy(q)'
  <2> SUFFICES ASSUME NEW q \in Procs, Busy(q)' PROVE FALSE
    OBVIOUS
  <2>1. q # p
    BY <1>4 DEF Busy
  <2>2. proc'[q] = proc[q] /\ proc[q].pc # "idle"
    BY <1>4, <2>1 DEF Busy
  <2>3. runs'[proc[q].run].def = runs[proc[q].run].def
    BY <1>1, <1>2, <1>5, <2>1, <2>2
  <2> QED BY <2>2, <2>3 DEF Claim, Unlocked, Busy
<1>7. OwnRuns'
  BY <1>4, <1>5, <1>6 DEF ChainInv, OwnRuns
<1>8. \A q \in Procs : ~ Planned(q)'
  BY <1>4, <1>5 DEF Planned
<1>9. Remembers'
  BY <1>1, <1>4, <1>5, <1>8 DEF Remembers
<1>10. told' = told /\ announced' = announced
  BY DEF Claim, notices
<1> QED BY <1>1, <1>2, <1>3, <1>7, <1>8, <1>9, <1>10, QuietChain

\* Whoever tells subscribers, outside a completion, tells them the baseline.
LEMMA EmitChain ==
    ASSUME TypeOK, TypeOK', ChainInv, Reacts, NEW p \in Procs, AdmitJobs(p) \/ LegacyEmit(p)
    PROVE  ChainInv'
<1> DEFINE k == proc[p].run
<1>1. /\ UNCHANGED <<row, runs>> /\ proc' = [proc EXCEPT ![p].pc = "told"] /\ proc[p].pc = "planned"
  BY DEF AdmitJobs, LegacyEmit
<1>2. k = row.active /\ Planned(p) /\ k \in 1 .. Len(runs) /\ k # 0
  <2>1. k = row.active
    BY DEF AdmitJobs, LegacyEmit, Fenced, ChainInv, OwnRuns
  <2> QED BY <1>1, <2>1, ProcFacts DEF Planned
<1>3. row.reaction = k /\ runs[k].val = row.baseline /\ runs[k].val # NoValue
  BY <1>2 DEF Reacts, ChainInv, Evaluated
<1>4. /\ proc'[p].pc = "told" /\ proc'[p].run = k /\ proc'[p].retry = proc[p].retry
      /\ \A q \in Procs : q # p => proc'[q] = proc[q]
      /\ \A q \in Procs : proc'[q].run = proc[q].run /\ proc'[q].retry = proc[q].retry
                          /\ proc'[q].base = proc[q].base
      /\ \A q \in Procs : Planned(q)' <=> Planned(q)
      /\ \A q \in Procs : proc'[q].pc # "idle" => proc[q].pc # "idle"
      /\ \A q \in Procs : proc'[q].pc = "observe" => proc[q].pc = "observe"
  BY <1>1, ProcFacts DEF Planned, Processes
<1>5. OwnRuns'
  <2>1. \A q \in Procs : Busy(q)' => q = p \/ Busy(q)
    BY <1>1, <1>4 DEF Busy
  <2> QED BY <1>1, <1>2, <1>4, <2>1 DEF ChainInv, OwnRuns
<1>6. Remembers'
  BY <1>1, <1>4 DEF ChainInv, Remembers
<1>7. Links(runs) /\ k \in DOMAIN runs
  BY <1>2, TypeLinks
<1>8. announced' = row.baseline
  <2>1. CASE AdmitJobs(p)
    BY <1>3, <2>1 DEF AdmitJobs
  <2>2. CASE LegacyEmit(p) /\ (runs[k].changed \/ proc[p].retry # 0)
    BY <1>3, <2>2 DEF LegacyEmit
  <2>3. CASE LegacyEmit(p) /\ ~ (runs[k].changed \/ proc[p].retry # 0)
    <3>1. runs[k].retry = 0 /\ ~ runs[k].changed
      BY <1>2, <2>3 DEF ChainInv, Remembers
    <3>2. Chain(k) = {}
      BY <1>7, <3>1, ReachOne, ChainIs DEF Linked
    <3>3. announced = row.baseline
      BY <1>2, <1>3, <3>2 DEF ChainInv, Delivered
    <3> QED BY <2>3, <3>3 DEF LegacyEmit, notices
  <2> QED BY <2>1, <2>2, <2>3
<1>9. told' = told \/ told' = told \cup {[run |-> k, native |-> FALSE]}
  BY DEF AdmitJobs, LegacyEmit, notices
<1>10. \A i : Chain(i)' = Chain(i) /\ Retries(i)' = Retries(i)
  BY <1>1, ChainIs
<1>11. Evaluated' /\ SameValue' /\ Delivered' /\ SubscribersCurrent'
  <2>1. Evaluated'
    BY <1>1, <1>3, <1>9 DEF ChainInv, Evaluated
  <2> QED BY <1>1, <1>2, <1>3, <1>8, <2>1 DEF ChainInv, SameValue, Delivered, SubscribersCurrent
<1>12. k \in Retries(k)
  BY <1>7, ReachFacts, ChainIs
<1>13. Undelivered'
  <2> SUFFICES ASSUME NEW t \in told'
               PROVE  /\ t.native => t.run \notin Chain(k)
                      /\ \A x \in Chain(k) : runs[x].changed /\ x \in Retries(t.run) => t.run \in Retries(k)
    BY <1>1, <1>3, <1>10 DEF Undelivered
  <2>1. CASE t \in told
    BY <1>2, <1>3, <2>1 DEF ChainInv, Undelivered
  <2>2. CASE t = [run |-> k, native |-> FALSE]
    BY <1>12, <2>2
  <2> QED BY <1>9, <2>1, <2>2
<1>14. OneNotice'
  <2> SUFFICES ASSUME NEW t \in told', t.native
               PROVE  /\ runs[t.run].changed
                      /\ \A u \in told' : t.run \in Chain(u.run) => u = t
    BY <1>1, <1>10 DEF OneNotice
  <2>1. t \in told
    BY <1>9
  <2>2. t.run \notin Chain(k)
    BY <1>2, <1>3, <2>1 DEF ChainInv, Undelivered
  <2> QED BY <1>9, <2>1, <2>2 DEF ChainInv, OneNotice
<1> QED BY <1>5, <1>6, <1>11, <1>13, <1>14 DEF ChainInv

\* A completion leaves nothing to deliver: it notifies, or the change was
\* admitted before, or there was none.
LEMMA FinishChain ==
    ASSUME TypeOK, TypeOK', ChainInv, Reacts, NEW p \in Procs, Finish(p)
    PROVE  ChainInv'
<1> DEFINE k == proc[p].run
<1>1. /\ k \in 1 .. Len(runs) /\ row.active = k /\ proc[p].pc \in {"planned", "told"}
      /\ row'.active = 0 /\ row'.reaction = 0 /\ row'.baseline = row.baseline
      /\ runs' = [runs EXCEPT ![k].state = "over"] /\ proc' = [proc EXCEPT ![p] = Idle]
  BY FinishFacts
<1>2. /\ DOMAIN runs = 1 .. Len(runs) /\ DOMAIN runs' = DOMAIN runs
      /\ \A j \in DOMAIN runs :
           /\ runs'[j].changed = runs[j].changed /\ runs'[j].retry = runs[j].retry
           /\ runs'[j].val = runs[j].val /\ runs'[j].def = runs[j].def
      /\ Links(runs) /\ k \in DOMAIN runs
  <2>1. runs \in Seq(Runs) /\ DOMAIN runs = 1 .. Len(runs) /\ Links(runs)
    BY TypeLinks DEF TypeOK
  <2> HIDE DEF k
  <2> QED BY <1>1, <2>1, OverFacts
<1>3. Planned(p) /\ k # 0 /\ row.reaction = k /\ runs[k].val = row.baseline /\ runs[k].val # NoValue
  BY <1>1 DEF Planned, Reacts, ChainInv, Evaluated
<1>4. /\ \A i \in DOMAIN runs : Retries(i)' = Retries(i) /\ Chain(i)' = Chain(i)
      /\ \A t \in told : t.run \in DOMAIN runs
  BY <1>2, KeepChains DEF TypeOK
<1>5. \A q \in Procs : proc'[q].pc # "idle" =>
        q # p /\ proc'[q] = proc[q] /\ proc[q].run \in DOMAIN runs /\ proc[q].run # 0 /\ proc[q].run # k
  <2> SUFFICES ASSUME NEW q \in Procs, proc'[q].pc # "idle"
               PROVE  q # p /\ proc'[q] = proc[q] /\ proc[q].run \in DOMAIN runs
                      /\ proc[q].run # 0 /\ proc[q].run # k
    OBVIOUS
  <2>1. q # p /\ proc'[q] = proc[q]
    BY <1>1, ProcFacts
  <2>2. proc[q].run \in DOMAIN runs /\ proc[q].run # 0
    BY <1>2, <2>1, ProcFacts
  <2>3. proc[q].run # k
    BY <1>1, <2>1 DEF ChainInv, OwnRuns
  <2> QED BY <2>1, <2>2, <2>3
<1>6. \A q \in Procs : ~ Busy(q)'
  <2> SUFFICES ASSUME NEW q \in Procs, Busy(q)' PROVE FALSE
    OBVIOUS
  <2>1. proc'[q].pc # "idle"
    BY DEF Busy
  <2>2. Busy(q)
    BY <1>2, <1>5, <2>1 DEF Busy
  <2> QED BY <1>1, <1>5, <2>1, <2>2 DEF ChainInv, OwnRuns
<1>7. OwnRuns' /\ Remembers'
  <2>1. OwnRuns'
    BY <1>5, <1>6 DEF ChainInv, OwnRuns
  <2>2. \A q \in Procs : proc'[q].pc # "idle" => proc'[q].run # row'.active
    BY <1>1, <1>5
  <2> QED BY <2>1, <2>2 DEF Remembers, Planned
<1>8. Notify(p)
  BY DEF Finish
<1>9. CASE ~ Notifies(p) \/ Admitted(k)
  <2>1. told' = told /\ announced' = announced
    BY <1>8, <1>9 DEF Notify, notices
  <2>2. announced = row.baseline
    <3>1. CASE Admitted(k)
      BY <1>3, <3>1 DEF ChainInv, Delivered
    <3>2. CASE ~ Notifies(p)
      <4>1. proc[p].pc = "told"
        BY <3>2 DEF Finish
      <4> QED BY <1>3, <4>1 DEF ChainInv, Delivered
    <3> QED BY <1>9, <3>1, <3>2
  <2>3. Evaluated' /\ SameValue'
    <3>1. \A i \in DOMAIN runs : runs[i].retry # 0 => runs[i].retry \in DOMAIN runs
      BY <1>2 DEF Links
    <3> QED BY <1>1, <1>2, <1>4, <2>1, <3>1 DEF ChainInv, Evaluated, SameValue
  <2>4. Delivered' /\ Undelivered' /\ SubscribersCurrent'
    BY <1>1, <1>5, <2>1, <2>2 DEF Delivered, Planned, Undelivered, SubscribersCurrent
  <2>5. OneNotice'
    BY <1>2, <1>4, <2>1 DEF ChainInv, OneNotice
  <2> QED BY <1>7, <2>3, <2>4, <2>5 DEF ChainInv
<1>10. CASE ~ (~ Notifies(p) \/ Admitted(k))
  <2>1. Chain(k) # {} /\ ~ \E t \in told : t.run \in Chain(k)
    BY <1>10 DEF Admitted
  <2>2. PICK r \in DOMAIN runs : r = Root(k)
    BY <2>1, RootFacts
  <2>3. r \in Chain(k) /\ Chain(k) = Retries(k) /\ runs[r].changed
    BY <2>1, <2>2, RootFacts
  <2>4. told' = told \cup {[run |-> r, native |-> TRUE]} /\ announced' = runs[r].val
    BY <1>8, <1>10, <2>2 DEF Notify
  <2>5. runs[r].val = row.baseline /\ runs[r].val # NoValue
    BY <1>1, <1>3, <2>3, ValueAlong, ChainIs DEF ChainInv
  <2>6. Evaluated' /\ SameValue'
    <3>1. \A i \in DOMAIN runs : runs[i].retry # 0 => runs[i].retry \in DOMAIN runs
      BY <1>2 DEF Links
    <3>2. \A t \in told' : t.run \in DOMAIN runs /\ runs[t.run].val # NoValue
      BY <1>4, <2>4, <2>5 DEF ChainInv, Evaluated
    <3> QED BY <1>1, <1>2, <3>1, <3>2 DEF ChainInv, Evaluated, SameValue
  <2>7. Delivered' /\ Undelivered' /\ SubscribersCurrent'
    BY <1>1, <1>5, <2>4, <2>5 DEF Delivered, Planned, Undelivered, SubscribersCurrent
  <2>8. Chain(r) \subseteq {r}
    <3>1. Reach(runs, r) = {r}
      BY <1>2, <2>3, ReachOne
    <3> QED BY <3>1, ChainIs DEF Linked
  <2>9. OneNotice'
    <3> SUFFICES ASSUME NEW t \in told', t.native
                 PROVE  /\ runs[t.run].changed
                        /\ \A u \in told' : t.run \in Chain(u.run) => u = t
      <4>1. \A t \in told' : t.run \in DOMAIN runs
        BY <1>4, <2>4
      <4> QED BY <1>2, <1>4, <4>1 DEF OneNotice
    <3>1. CASE t = [run |-> r, native |-> TRUE]
      <4>1. ASSUME NEW u \in told, r \in Chain(u.run) PROVE FALSE
        <5>1. r \in Retries(u.run)
          BY <4>1 DEF Chain
        <5>2. u.run \in Retries(k)
          BY <1>3, <2>3, <5>1 DEF ChainInv, Undelivered
        <5> QED BY <2>1, <2>3, <5>2
      <4> QED BY <2>3, <2>4, <3>1, <4>1
    <3>2. CASE t \in told
      <4>1. t.run # r
        BY <2>1, <2>3, <3>2
      <4>2. ASSUME NEW u \in told', t.run \in Chain(u.run) PROVE u = t
        <5>1. CASE u \in told
          BY <3>2, <4>2, <5>1 DEF ChainInv, OneNotice
        <5>2. CASE u = [run |-> r, native |-> TRUE]
          BY <2>8, <4>1, <4>2, <5>2
        <5> QED BY <2>4, <5>1, <5>2
      <4> QED BY <3>2, <4>2 DEF ChainInv, OneNotice
    <3> QED BY <2>4, <3>1, <3>2
  <2> QED BY <1>7, <2>6, <2>7, <2>9 DEF ChainInv
<1> QED BY <1>9, <1>10

\* A plan either changes the baseline, and is a new pending reaction, or carries
\* on the one it remembers.
LEMMA PlanChain ==
    ASSUME TypeOK, TypeOK', ChainInv, NEW p \in Procs, Plan(p)
    PROVE  ChainInv'
<1> PICK k : k = proc[p].run
  OBVIOUS
<1> PICK r : r = row.reaction
  OBVIOUS
<1> DEFINE D == {j \in DOMAIN runs : runs[j].val # NoValue}
<1>1. /\ k \in 1 .. Len(runs) /\ row.active = k /\ Len(runs') = Len(runs)
      /\ \A j \in 1 .. Len(runs) : j # k => runs'[j] = runs[j]
      /\ runs'[k].changed = (proc[p].base # content) /\ runs'[k].retry = proc[p].retry
      /\ runs'[k].val = content /\ runs'[k].def = runs[k].def
      /\ row'.baseline = content /\ row'.reaction = k /\ row'.active = k
      /\ proc'[p].pc = "planned" /\ proc'[p].run = k /\ proc'[p].retry = proc[p].retry
      /\ \A q \in Procs \ {p} : proc'[q] = proc[q]
  BY PlanFacts
<1>2. /\ DOMAIN runs = 1 .. Len(runs) /\ DOMAIN runs' = DOMAIN runs /\ k \in DOMAIN runs /\ k # 0
      /\ Links(runs) /\ Links(runs') /\ content # NoValue
      /\ \A t \in told : t.run \in DOMAIN runs
  <2>1. content # NoValue
    BY WatcherAssumption DEF WatcherAssumption, TypeOK
  <2>2. \A t \in told : t.run \in DOMAIN runs
    BY DEF TypeOK
  <2> QED BY <1>1, <2>1, <2>2, TypeLinks
<1>3. proc[p].pc = "observe" /\ told' = told /\ announced' = announced /\ Unlocked
  BY DEF Plan, notices
<1>4. proc[p].base = row.baseline /\ proc[p].retry = r /\ runs[k].val = NoValue
  BY <1>1, <1>3 DEF ChainInv, Remembers
<1>5. /\ Closed(runs, D) /\ D \in SUBSET DOMAIN runs /\ k \notin D
      /\ r # 0 => r \in D /\ runs[r].val = row.baseline
      /\ \A t \in told : t.run \in D
      /\ \A j \in DOMAIN runs : runs[j].retry # 0 => runs[j].retry \in D
  <2>1. \A j \in DOMAIN runs : runs[j].retry # 0 => runs[j].retry \in D
    BY <1>2 DEF ChainInv, Evaluated, Links
  <2>2. r # 0 => r \in DOMAIN runs
    BY <1>2, RowFacts
  <2> QED BY <1>2, <1>4, <2>1, <2>2 DEF Closed, ChainInv, Evaluated
<1>6. /\ \A j \in D : runs'[j] = runs[j]
      /\ \A j \in DOMAIN runs : j # k => runs'[j] = runs[j]
  BY <1>1, <1>2, <1>5
<1>7. \A i \in D : /\ Reach(runs', i) = Reach(runs, i) /\ Reach(runs, i) \subseteq D
                   /\ Linked(runs', i) = Linked(runs, i)
  <2> SUFFICES ASSUME NEW i \in D
               PROVE  /\ Reach(runs', i) = Reach(runs, i) /\ Reach(runs, i) \subseteq D
                      /\ Linked(runs', i) = Linked(runs, i)
    OBVIOUS
  <2> HIDE DEF D
  <2>1. Reach(runs', i) = Reach(runs, i) /\ Reach(runs, i) \subseteq D
    BY <1>2, <1>5, <1>6, ReachSame
  <2> QED BY <1>6, <2>1 DEF Linked
<1> HIDE DEF D
<1>8. \A i \in D : Retries(i)' = Retries(i) /\ Chain(i)' = Chain(i) /\ Retries(i) \subseteq D
  BY <1>7, ChainIs
<1>9. \A q \in Procs : q # p /\ proc'[q].pc # "idle" =>
        proc'[q] = proc[q] /\ proc[q].run # k /\ proc[q].run \in DOMAIN runs
  <2> SUFFICES ASSUME NEW q \in Procs, q # p, proc[q].pc # "idle"
               PROVE  proc[q].run # k /\ proc[q].run \in DOMAIN runs
    BY <1>1
  <2>1. proc[q].run # k
    BY <1>3 DEF ChainInv, OwnRuns
  <2>2. proc[q].run \in DOMAIN runs
    BY <1>2, ProcFacts
  <2> QED BY <2>1, <2>2
<1>10. OwnRuns'
  <2>1. ASSUME NEW q \in Procs, Busy(q)' PROVE proc'[q].run = row'.active
    <3>1. CASE q = p
      BY <1>1, <3>1
    <3>2. CASE q # p
      <4>1. proc'[q].pc # "idle"
        BY <2>1 DEF Busy
      <4>2. proc'[q] = proc[q] /\ runs'[proc[q].run].def = runs[proc[q].run].def
        BY <1>6, <1>9, <3>2, <4>1
      <4>3. Busy(q)
        BY <2>1, <4>2 DEF Busy
      <4> QED BY <1>3, <4>3 DEF Unlocked
    <3> QED BY <3>1, <3>2
  <2>2. \A q, s \in Procs : proc'[q].pc # "idle" /\ proc'[s].pc # "idle" /\ proc'[q].run = proc'[s].run => q = s
    BY <1>1, <1>9 DEF ChainInv, OwnRuns
  <2> QED BY <2>1, <2>2 DEF OwnRuns
<1>11. \A q \in Procs : proc'[q].pc # "idle" /\ proc'[q].run = row'.active => q = p
  BY <1>1, <1>9
<1>12. Remembers'
  <2>1. \A q \in Procs : Planned(q)' => q = p
    BY <1>11 DEF Planned
  <2> QED BY <1>1, <1>11, <2>1 DEF Remembers
<1>13. Evaluated'
  <2>1. \A i \in DOMAIN runs' :
          /\ runs'[i].val = NoValue => ~ runs'[i].changed /\ runs'[i].retry = 0
          /\ runs'[i].retry # 0 => runs'[runs'[i].retry].val # NoValue
    <3> SUFFICES ASSUME NEW i \in DOMAIN runs
                 PROVE  /\ runs'[i].val = NoValue => ~ runs'[i].changed /\ runs'[i].retry = 0
                        /\ runs'[i].retry # 0 => runs'[runs'[i].retry].val # NoValue
      BY <1>2
    <3>1. \A j \in D : runs'[j].val # NoValue
      BY <1>6 DEF D
    <3>2. CASE i = k
      BY <1>1, <1>2, <1>4, <1>5, <3>1, <3>2
    <3>3. CASE i # k
      BY <1>5, <1>6, <3>1, <3>3 DEF ChainInv, Evaluated
    <3> QED BY <3>2, <3>3
  <2>2. \A t \in told' : runs'[t.run].val # NoValue
    BY <1>3, <1>5, <1>6 DEF D
  <2> QED BY <1>1, <1>2, <2>1, <2>2 DEF Evaluated
<1>14. SameValue'
  <2> SUFFICES ASSUME NEW i \in DOMAIN runs, ~ runs'[i].changed, runs'[i].retry # 0
               PROVE  runs'[i].val = runs'[runs'[i].retry].val
    BY <1>2 DEF SameValue
  <2>1. CASE i = k
    <3>1. content = row.baseline /\ r # 0 /\ runs'[k].retry = r
      BY <1>1, <1>4, <2>1
    <3>2. r \in D /\ runs[r].val = row.baseline
      BY <1>5, <3>1
    <3> QED BY <1>1, <1>6, <2>1, <3>1, <3>2
  <2>2. CASE i # k
    <3>1. runs'[i] = runs[i] /\ runs[i].retry \in D
      BY <1>5, <1>6, <2>2
    <3> QED BY <1>6, <3>1 DEF ChainInv, SameValue
  <2> QED BY <2>1, <2>2
\* What is pending now.
<1>15. \/ /\ runs'[k].changed
          /\ Retries(k)' = {k} /\ Chain(k)' = {k}
       \/ /\ ~ runs'[k].changed /\ r = 0 /\ content = row.baseline
          /\ Chain(k)' = {}
       \/ /\ ~ runs'[k].changed /\ r # 0 /\ content = row.baseline
          /\ Retries(k)' = {k} \cup Retries(r)
          /\ Chain(k)' = IF Chain(r) = {} THEN {} ELSE {k} \cup Chain(r)
  <2>1. CASE runs'[k].changed
    <3>1. Reach(runs', k) = {k}
      BY <1>2, <2>1, ReachOne
    <3>2. Retries(k)' = {k} /\ Chain(k)' = {k}
      BY <2>1, <3>1, ChainIs DEF Linked
    <3> QED BY <2>1, <3>2
  <2>2. CASE ~ runs'[k].changed /\ r = 0
    <3>1. Reach(runs', k) = {k}
      BY <1>1, <1>2, <1>4, <2>2, ReachOne
    <3>2. Chain(k)' = {}
      BY <2>2, <3>1, ChainIs DEF Linked
    <3> QED BY <1>1, <1>4, <2>2, <3>2
  <2>3. CASE ~ runs'[k].changed /\ r # 0
    <3>1. Reach(runs', k) = {k} \cup Reach(runs', r)
      BY <1>1, <1>2, <1>4, <2>3, ReachStep
    <3>2. Reach(runs', r) = Reach(runs, r) /\ Reach(runs, r) \subseteq D
      BY <1>5, <1>7, <2>3
    <3>3. Retries(k)' = {k} \cup Retries(r)
      BY <3>1, <3>2, ChainIs
    <3>4. (\E j \in Reach(runs', k) : runs'[j].changed) <=> \E j \in Reach(runs, r) : runs[j].changed
      BY <1>6, <2>3, <3>1, <3>2
    <3>5. r \in Reach(runs, r)
      BY <1>2, <1>5, <2>3, ReachFacts DEF D
    <3>6. Chain(k)' = IF Chain(r) = {} THEN {} ELSE {k} \cup Chain(r)
      <4>1. CASE \E j \in Reach(runs, r) : runs[j].changed
        <5>1. Linked(runs', k) = {k} \cup Reach(runs, r) /\ Linked(runs, r) = Reach(runs, r)
          BY <3>1, <3>2, <3>4, <4>1 DEF Linked
        <5> QED BY <3>5, <5>1, ChainIs
      <4>2. CASE ~ \E j \in Reach(runs, r) : runs[j].changed
        <5>1. Linked(runs', k) = {} /\ Linked(runs, r) = {}
          BY <3>4, <4>2 DEF Linked
        <5> QED BY <5>1, ChainIs
      <4> QED BY <4>1, <4>2
    <3> QED BY <1>1, <1>4, <2>3, <3>3, <3>6
  <2> QED BY <2>1, <2>2, <2>3
<1>16. \A t \in told : t.run \in D /\ t.run # k
  BY <1>5
<1>17. Delivered'
  <2>1. ~ (\E q \in Procs : Planned(q)' /\ proc'[q].pc = "told")
    BY <1>1, <1>11 DEF Planned
  <2> SUFFICES ASSUME Chain(k)' = {} \/ \E t \in told : t.run \in Chain(k)'
               PROVE  announced = content
    <3>1. Admitted(k)' <=> Chain(k)' = {} \/ \E t \in told : t.run \in Chain(k)'
      BY <1>3 DEF Admitted
    <3> QED BY <1>1, <1>3, <2>1, <3>1 DEF Delivered
  <2>2. CASE runs'[k].changed /\ Chain(k)' = {k}
    BY <1>16, <2>2
  <2>3. CASE r = 0 /\ content = row.baseline
    BY <1>2, <2>3 DEF ChainInv, SubscribersCurrent
  <2>4. CASE r # 0 /\ content = row.baseline /\ Chain(k)' = IF Chain(r) = {} THEN {} ELSE {k} \cup Chain(r)
    <3>1. Chain(r) = {} \/ Admitted(r)
      BY <1>16, <2>4 DEF Admitted
    <3> QED BY <2>4, <3>1 DEF ChainInv, Delivered
  <2> QED BY <1>15, <2>2, <2>3, <2>4
<1>18. Undelivered'
  <2> SUFFICES ASSUME NEW t \in told
               PROVE  /\ t.native => t.run \notin Chain(k)'
                      /\ \A x \in Chain(k)' : runs'[x].changed /\ x \in Retries(t.run)' => t.run \in Retries(k)'
    BY <1>1, <1>3 DEF Undelivered
  <2>0. t.run \in D /\ t.run # k /\ Retries(t.run)' = Retries(t.run) /\ Retries(t.run) \subseteq D
    BY <1>8, <1>16
  <2>1. CASE Chain(k)' = {k}
    BY <1>5, <2>0, <2>1
  <2>2. CASE Chain(k)' = {}
    BY <2>2
  <2>3. CASE /\ ~ runs'[k].changed /\ r # 0 /\ Retries(k)' = {k} \cup Retries(r)
             /\ Chain(k)' = {k} \cup Chain(r)
    <3>1. Chain(r) \subseteq D
      BY <1>5, <1>8, <2>3 DEF Chain
    <3>2. /\ t.native => t.run \notin Chain(r)
          /\ \A x \in Chain(r) : runs[x].changed /\ x \in Retries(t.run) => t.run \in Retries(r)
      BY <2>3 DEF ChainInv, Undelivered
    <3> QED BY <1>6, <2>0, <2>3, <3>1, <3>2
  <2> QED BY <1>15, <2>1, <2>2, <2>3
<1>19. SubscribersCurrent'
  BY <1>1, <1>2 DEF SubscribersCurrent
<1>20. OneNotice'
  BY <1>3, <1>6, <1>8, <1>16 DEF ChainInv, OneNotice
<1> QED BY <1>10, <1>12, <1>13, <1>14, <1>17, <1>18, <1>19, <1>20 DEF ChainInv

LEMMA NextChain == IInv /\ ChainInv /\ [Next]_vars => ChainInv'
<1> SUFFICES ASSUME IInv, ChainInv, [Next]_vars PROVE ChainInv'
  OBVIOUS
<1>1. TypeOK /\ TypeOK' /\ Reacts
  BY NextTypeOK DEF IInv
<1>2. CASE Commands \/ ComesDue \/ Catalog
  BY <1>1, <1>2, RequestChain, PutChain DEF Commands
<1>3. ASSUME NEW p \in Procs, Run(p) PROVE ChainInv'
  BY <1>1, <1>3, ClaimChain, PlanChain, EmitChain, FinishChain DEF Run
<1>4. CASE Faults \/ Recover
  BY <1>1, <1>4, LossChain DEF Faults
<1>5. CASE UNCHANGED vars
  <2>1. UNCHANGED <<row, runs, proc, told, announced>>
    BY <1>5 DEF vars
  <2>2. /\ OwnRuns' /\ Remembers'
        /\ \A p \in Procs : Planned(p)' /\ proc'[p].pc = "told" => Planned(p) /\ proc[p].pc = "told"
    BY <1>1, <2>1, QuietProcs
  <2> QED BY <1>1, <2>1, <2>2, QuietChain
<1> QED BY <1>2, <1>3, <1>4, <1>5 DEF Next

LEMMA ChainAlways == Spec => []ChainInv
<1>1. Init => IInv /\ ChainInv
  BY InitIInv, InitChain
<1>2. IInv /\ ChainInv /\ [Next]_vars => (IInv /\ ChainInv)'
  BY NextIInv, NextChain
<1> QED BY <1>1, <1>2, PTL DEF Spec

\* Native runs notify a change once, and only of a real change: across crashes,
\* retries without a change and whatever a legacy process has admitted before.
THEOREM OneNoticeHolds == Spec => []OneNotice
<1>1. ChainInv => OneNotice
  BY DEF ChainInv
<1> QED BY <1>1, ChainAlways, PTL

\* When no reaction is pending, subscribers have been told what the baseline
\* says.
THEOREM SubscribersCurrentHolds == Spec => []SubscribersCurrent
<1>1. ChainInv => SubscribersCurrent
  BY DEF ChainInv
<1> QED BY <1>1, ChainAlways, PTL
=============================================================================
