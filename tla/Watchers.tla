------------------------------ MODULE Watchers ------------------------------
(***************************************************************************)
(* One named watcher: its schedule, the events and requests that make it   *)
(* due, and the runs that observe, evaluate and react                      *)
(* (catabolic-store/src/watcher.rs, catabolic-runtime/src/watchers.rs,     *)
(* with the decisions of watcher_schedule.rs and coordination.rs).         *)
(*                                                                         *)
(* A run claims the watcher with a generation, waits for an observation of *)
(* the sources with the writer lock released, evaluates the plan, commits  *)
(* the new baseline with a pending reaction, reacts and finishes.  In      *)
(* between the catalog changes, others ask for runs, leases lapse and      *)
(* processes die.  A process of the frozen Python protocol (legacy) admits *)
(* a notification in a transaction of its own, a native one together with  *)
(* the completion of the run.                                              *)
(*                                                                         *)
(* An action is what a process does between taking and releasing the       *)
(* writer lock, cut at every commit so that it may die there.  Delays      *)
(* (debounce, retry times) only postpone a run and are left out: a row     *)
(* knows whether there is a retry time, a due date that has passed, an     *)
(* event.                                                                  *)
(***************************************************************************)
EXTENDS Integers, Sequences

CONSTANTS
    Procs,      \* supervisors' workers and operators that run the watcher
    Legacy,     \* those of the frozen Python protocol
    Values,     \* what an evaluation can come to
    First,      \* and what it would come to at first
    NoValue,
    Defs,       \* definitions that are put: [events, timed, reaction]
    MaxSteps,   \* bound: changes of the catalog, commands, due dates, errors,
                \* crashes and lost leases, all together
    MaxCommands \* bound: commands and due dates among them

ASSUME WatcherAssumption ==
    /\ Legacy \subseteq Procs
    /\ First \in Values /\ NoValue \notin Values
    /\ Defs # {}
    /\ Defs \subseteq [events : BOOLEAN, timed : BOOLEAN, reaction : {"event", "processing"}]
    /\ {MaxSteps, MaxCommands} \subseteq Nat

VARIABLES
    native,     \* the catalog has a native schema
    content,    \* what an evaluation of the catalog would come to now
    version,    \* counts the changes of the catalog
    asked,      \* the newest request for the last observation job; runs with
                \* older ones are over
    row,        \* the row of watchers
    runs,       \* watcher_runs in order of admission
    proc,       \* the processes
    told,       \* consumer_events of the watcher: run identity and protocol
    announced,  \* what subscribers were told last, or jobs were admitted for
    done,       \* history: the version the last completed run evaluated
    since,      \* history: the version at which the watcher was last enabled
    steps, commands

vars == <<native, content, version, asked, row, runs, proc, told, announced, done, since, steps, commands>>
catalog == <<native, content, version>>
notices == <<told, announced>>
history == <<done, since>>
bounds  == <<steps, commands>>

Rows == [enabled : BOOLEAN, def : Defs, pending : Nat, completed : Nat, requested : Nat,
         active : Nat, live : BOOLEAN, pid : {"alive", "dead"}, retry : BOOLEAN,
         timed : BOOLEAN, event : BOOLEAN, baseline : Values \cup {NoValue}, reaction : Nat]
Runs == [def : Defs, gen : Nat, state : {"observing", "reacting", "over"}, changed : BOOLEAN,
         retry : Nat, val : Values \cup {NoValue}]
Processes == [pc : {"idle", "observe", "planned", "told"}, run : Nat,
              base : Values \cup {NoValue}, retry : Nat, ver : Nat]
Idle == [pc |-> "idle", run |-> 0, base |-> NoValue, retry |-> 0, ver |-> 0]
Notices == [run : Nat, native : BOOLEAN]

\* A request for an observation: its requester is a definition and a generation.
Request(def, gen) == [def |-> def, gen |-> gen]
NoRequest == [gen |-> 0]

Later(a, b) == IF a > b THEN a ELSE b
Step    == steps < MaxSteps /\ steps' = steps + 1
Fault   == Step /\ UNCHANGED commands
Command == Step /\ commands < MaxCommands /\ commands' = commands + 1

\* While a process is between two commits of one locked section, nobody else
\* acts.  Only a processing reaction gives the lock up after its plan, to look
\* for its tools.
Busy(p) == \/ proc[p].pc = "told"
           \/ proc[p].pc = "planned" /\ runs[proc[p].run].def.reaction = "event"
Unlocked == \A p \in Procs : ~ Busy(p)

\* The watcher was put and enabled, and has never run.
Init ==
    /\ native \in BOOLEAN
    /\ content = First /\ version = 0
    /\ asked = NoRequest
    /\ \E d \in Defs : row = [enabled |-> TRUE, def |-> d, pending |-> 0, completed |-> 0,
           requested |-> 0, active |-> 0, live |-> FALSE, pid |-> "dead", retry |-> FALSE,
           timed |-> FALSE, event |-> FALSE, baseline |-> NoValue, reaction |-> 0]
    /\ runs = <<>>
    /\ proc = [p \in Procs |-> Idle]
    /\ told = {} /\ announced = NoValue
    /\ done = 0 /\ since = 0 /\ steps = 0 /\ commands = 0

-----------------------------------------------------------------------------
(* The schedule and the commands.                                           *)

Requested(r) == r.requested > r.completed
EventWaits(r) == r.def.events /\ r.pending > r.completed /\ r.event

\* A run that would be admitted once its delays are over.
Owed(r) == Requested(r) \/ r.reaction # 0 \/ r.retry \/ r.timed \/ EventWaits(r)

\* Mutant: a run that the row names is in the way even after its lease.
MutDue == row.enabled /\ row.active = 0 /\ Owed(row)

\* watcher_schedule::due
Due == /\ row.enabled \/ Requested(row)
       /\ ~ (row.active # 0 /\ row.live)
       /\ Owed(row)

Admit ==
    /\ Unlocked /\ Command
    /\ row' = [row EXCEPT !.pending = @ + 1, !.requested = row.pending + 1, !.retry = FALSE]
    /\ UNCHANGED <<catalog, asked, runs, proc, notices, history>>

Enable ==
    /\ Unlocked /\ Command
    /\ row' = [row EXCEPT !.enabled = TRUE, !.timed = FALSE]
    /\ since' = IF row.enabled THEN since ELSE version
    /\ UNCHANGED <<catalog, asked, runs, proc, notices, done>>

Disable ==
    /\ Unlocked /\ row.enabled /\ row.active = 0 /\ Command
    /\ row' = [row EXCEPT !.enabled = FALSE, !.retry = FALSE, !.timed = FALSE,
                          !.requested = row.completed]
    /\ UNCHANGED <<catalog, asked, runs, proc, notices, history>>

Put(d) ==
    /\ Unlocked /\ ~ row.enabled /\ row.active = 0 /\ Command
    /\ row' = [row EXCEPT !.def = d, !.baseline = NoValue, !.reaction = 0, !.retry = FALSE,
                          !.timed = FALSE, !.requested = row.completed]
    /\ UNCHANGED <<catalog, asked, runs, proc, notices, history>>

\* next_due of an interval or cron schedule passes.
ComesDue ==
    /\ row.enabled /\ row.def.timed /\ ~ row.timed /\ Command
    /\ row' = [row EXCEPT !.timed = TRUE]
    /\ UNCHANGED <<catalog, asked, runs, proc, notices, history>>

-----------------------------------------------------------------------------
(* The catalog changes.                                                     *)

Asked(run) == Request(runs[run].def, runs[run].gen)

\* Mutant: whatever the active run is doing, its own observation is no event.
MutHeard(r) ==
    row.enabled /\ row.def.events /\ ~ (row.active # 0 /\ Asked(row.active) = r)

\* dirty_watchers: r is what the job that changed the catalog was requested for.
\* A run that still observes will see what its own observation publishes.
Heard(r) ==
    /\ row.enabled /\ row.def.events
    /\ ~ (row.active # 0 /\ runs[row.active].state = "observing" /\ Asked(row.active) = r)

Changes(r) ==
    /\ Unlocked /\ Step /\ UNCHANGED commands
    /\ version' = version + 1 /\ content' \in Values
    /\ row' = IF Heard(r) THEN [row EXCEPT !.pending = @ + 1, !.event = TRUE] ELSE row
    /\ UNCHANGED <<native, asked, runs, proc, notices, history>>

Change == Changes(NoRequest)
\* A job that is on, or is resumed by somebody else, publishes a batch.  A job
\* that the watcher did not ask for makes a Change.
Flush == asked # NoRequest /\ Changes(asked)

-----------------------------------------------------------------------------
(* A run.                                                                   *)

\* An older run that the row still names is over.
Superseded == IF row.active = 0 THEN runs ELSE [runs EXCEPT ![row.active].state = "over"]

\* The claim, and the request for an observation: evidence that is fresh enough
\* answers it at once, or a job is joined, resumed or begun.  A legacy process
\* knows event reactions only here, and no native catalog.
Claim(p, manual) ==
    /\ Unlocked /\ proc[p].pc = "idle"
    /\ p \in Legacy => ~ native /\ row.def.reaction = "event"
    /\ native => row.active = 0
    /\ ~ (row.active # 0 /\ row.live)
    /\ IF manual THEN Command ELSE Due /\ UNCHANGED bounds
    /\ LET gen == Later(row.completed + 1, row.pending)
           id  == Len(runs) + 1
       IN  /\ runs' = Append(Superseded, [def |-> row.def, gen |-> gen, state |-> "observing",
                                          changed |-> FALSE, retry |-> 0, val |-> NoValue])
           /\ row' = [row EXCEPT !.active = id, !.live = TRUE, !.pid = "alive", !.pending = gen,
                                 !.requested = IF manual THEN Later(@, gen) ELSE @]
           /\ proc' = [proc EXCEPT ![p] = [pc |-> "observe", run |-> id, base |-> row.baseline,
                                           retry |-> row.reaction, ver |-> 0]]
           /\ asked' \in {asked, Request(row.def, gen)}
    /\ UNCHANGED <<catalog, notices, history>>

\* Mutant: any live claim of the watcher will do.
MutFenced(p) == row.active # 0 /\ row.live

\* require_run: the row still names the run, its definition and a live lease.
Fenced(p) == row.active = proc[p].run /\ row.live /\ row.def = runs[proc[p].run].def

\* Once its observation is over: the evaluation and the commit of the baseline and the pending reaction.
Plan(p) ==
    /\ Unlocked /\ proc[p].pc = "observe" /\ Fenced(p)
    /\ LET q == proc[p] IN
         /\ row' = [row EXCEPT !.baseline = content, !.reaction = q.run]
         /\ runs' = [runs EXCEPT ![q.run] = [@ EXCEPT !.state = "reacting",
                         !.changed = (q.base # content), !.retry = q.retry, !.val = content]]
    /\ proc' = [proc EXCEPT ![p].pc = "planned", ![p].ver = version]
    /\ UNCHANGED <<catalog, asked, notices, history, bounds>>

\* A processing reaction finds its tools unlocked, then checks the fence and the
\* revisions of its inputs again, and admits their jobs.
AdmitJobs(p) ==
    /\ Unlocked /\ proc[p].pc = "planned" /\ ~ Busy(p) /\ Fenced(p)
    /\ content = runs[proc[p].run].val
    /\ announced' = runs[proc[p].run].val
    /\ proc' = [proc EXCEPT ![p].pc = "told"]
    /\ UNCHANGED <<catalog, asked, row, runs, told, history, bounds>>

\* A legacy process notifies under its own identity before it finishes.
LegacyEmit(p) ==
    /\ p \in Legacy /\ proc[p].pc = "planned" /\ Busy(p)
    /\ IF runs[proc[p].run].changed \/ proc[p].retry # 0
         THEN /\ told' = told \cup {[run |-> proc[p].run, native |-> FALSE]}
              /\ announced' = runs[proc[p].run].val
         ELSE UNCHANGED notices
    /\ proc' = [proc EXCEPT ![p].pc = "told"]
    /\ UNCHANGED <<catalog, asked, row, runs, history, bounds>>

\* The runs whose reactions a run retries, itself included, back to the one whose
\* evaluation changed or that had nothing to retry.
Retries(i) ==
    {j \in DOMAIN runs : \A S \in SUBSET DOMAIN runs :
        /\ i \in S
        /\ \A k \in S : ~ runs[k].changed /\ runs[k].retry # 0 => runs[k].retry \in S
        => j \in S}

\* Mutant: a retry that found no change delivers nothing.
MutChain(i) == {j \in {i} : runs[j].changed}

\* transition: none if no evaluation of them changed.
Chain(i) == IF \E j \in Retries(i) : runs[j].changed THEN Retries(i) ELSE {}

Root(i) == CHOOSE r \in Chain(i) : runs[r].changed

\* Mutant: a retry looks only for the notice of the run that changed.
MutAdmitted(i) == Chain(i) = {} \/ \E t \in told : t.run = Root(i)

Admitted(i) == Chain(i) = {} \/ \E t \in told : t.run \in Chain(i)

Notifies(p) == p \notin Legacy /\ runs[proc[p].run].def.reaction = "event"

\* The notification and the completion are one commit.
Notify(p) ==
    IF ~ Notifies(p) \/ Admitted(proc[p].run)
      THEN UNCHANGED notices
      ELSE /\ told' = told \cup {[run |-> Root(proc[p].run), native |-> TRUE]}
           /\ announced' = runs[Root(proc[p].run)].val

ClearsEvents(gen) == row.pending <= gen

\* Only a native process looks at its fence again.
Finish(p) ==
    /\ \/ proc[p].pc = "told"
       \/ proc[p].pc = "planned" /\ Notifies(p)
    /\ row.active = proc[p].run /\ (p \in Legacy \/ Fenced(p))
    /\ LET gen == runs[proc[p].run].gen IN
         row' = [row EXCEPT !.completed = gen, !.active = 0, !.live = FALSE, !.reaction = 0,
                            !.retry = FALSE, !.timed = FALSE,
                            !.event = @ /\ ~ ClearsEvents(gen)]
    /\ Notify(p)
    /\ runs' = [runs EXCEPT ![proc[p].run].state = "over"]
    /\ done' = proc[p].ver
    /\ proc' = [proc EXCEPT ![p] = Idle]
    /\ UNCHANGED <<catalog, asked, since, bounds>>

\* The fence, or a reaction whose inputs have changed.
MustFail(p) ==
    /\ proc[p].pc # "idle"
    /\ ~ Fenced(p) \/ (proc[p].pc = "planned" /\ content # runs[proc[p].run].val)

\* Any error: an observation that is still pending, an incomplete evaluation, a
\* missing tool, a stale input, a fence.  Only the run's own claim is given up.
Fail(p) ==
    /\ proc[p].pc # "idle"
    /\ \A q \in Procs \ {p} : ~ Busy(q)
    /\ IF MustFail(p) THEN UNCHANGED bounds ELSE Fault
    /\ row' = IF row.active = proc[p].run
                THEN [row EXCEPT !.active = 0, !.live = FALSE, !.retry = TRUE] ELSE row
    /\ runs' = [runs EXCEPT ![proc[p].run].state = "over"]
    /\ proc' = [proc EXCEPT ![p] = Idle]
    /\ UNCHANGED <<catalog, asked, notices, history>>

\* A process dies, or cannot take its session back.  Its process id may be used
\* again, and then nobody sees that it died.
Crash(p) ==
    /\ proc[p].pc # "idle" /\ Fault
    /\ proc' = [proc EXCEPT ![p] = Idle]
    /\ IF row.active = proc[p].run
         THEN \E pid \in {"alive", "dead"} : row' = [row EXCEPT !.pid = pid]
         ELSE UNCHANGED row
    /\ UNCHANGED <<catalog, asked, runs, notices, history>>

Working == \E p \in Procs : proc[p].pc # "idle" /\ proc[p].run = row.active

\* A lease lasts for two hours: that it ends during a run is a fault.
Lapse ==
    /\ row.live
    /\ row' = [row EXCEPT !.live = FALSE]
    /\ IF Working THEN Fault ELSE UNCHANGED bounds
    /\ UNCHANGED <<catalog, asked, runs, proc, notices, history>>

Recover ==
    /\ Unlocked /\ ~ native
    /\ row.active # 0 /\ row.pid = "dead"
    /\ row' = [row EXCEPT !.active = 0, !.live = FALSE, !.retry = TRUE]
    /\ runs' = Superseded
    /\ UNCHANGED <<catalog, asked, proc, notices, history, bounds>>

Commands == Admit \/ Enable \/ Disable \/ (\E d \in Defs : Put(d))
Catalog == Change \/ Flush
Run(p) ==
    \/ \E manual \in BOOLEAN : Claim(p, manual)
    \/ Plan(p) \/ AdmitJobs(p) \/ LegacyEmit(p) \/ Finish(p)
Faults == Lapse \/ (\E p \in Procs : Fail(p) \/ Crash(p))

Next == Commands \/ ComesDue \/ Catalog \/ (\E p \in Procs : Run(p)) \/ Faults \/ Recover

Spec == Init /\ [][Next]_vars

\* The supervisor comes back: it recovers and runs what is due, and a run goes
\* on, or fails; and so ends the lease of a run that nobody works on.
Fairness ==
    /\ WF_vars(Recover) /\ WF_vars(~ Working /\ Lapse)
    /\ WF_vars(\E p \in Procs : Claim(p, FALSE))
    /\ \A p \in Procs : /\ WF_vars(Plan(p))
                        /\ WF_vars(AdmitJobs(p)) /\ WF_vars(LegacyEmit(p)) /\ WF_vars(Finish(p))
                        /\ WF_vars(MustFail(p) /\ Fail(p))

FairSpec == Spec /\ Fairness

-----------------------------------------------------------------------------
(* Properties.                                                              *)

TypeOK ==
    /\ native \in BOOLEAN /\ content \in Values
    /\ version \in 0 .. steps /\ done \in 0 .. version /\ since \in 0 .. version
    /\ asked \in {NoRequest} \cup [def : Defs, gen : Nat]
    /\ row \in Rows /\ row.completed <= row.pending /\ row.requested <= row.pending
    /\ {row.active, row.reaction} \subseteq 0 .. Len(runs) /\ (row.timed => row.def.timed)
    /\ runs \in Seq(Runs) /\ \A i \in DOMAIN runs : runs[i].retry < i /\ runs[i].gen <= row.pending
    /\ proc \in [Procs -> Processes]
    /\ \A p \in Procs : /\ proc[p].ver <= version /\ proc[p].run <= Len(runs)
                        /\ proc[p].pc # "idle" => proc[p].retry < proc[p].run
    /\ told \subseteq [run : DOMAIN runs, native : BOOLEAN]
    /\ announced \in Values \cup {NoValue}
    /\ steps \in 0 .. MaxSteps /\ commands \in 0 .. MaxCommands

\* The watcher listens to a change of the catalog that it has not evaluated.  A
\* run that its schedule started and that died unseen is made up for by the
\* schedule only.
Behind ==
    /\ row.enabled /\ row.def.events /\ version > Later(done, since)
    /\ ~ (row.def.timed /\ row.active # 0 /\ ~ Working)

\* An event is never lost: while the watcher is behind, a run that will see the
\* change is at work, or another one is owed.
NothingMissed ==
    Behind => \/ Owed(row)
              \/ \E p \in Procs : /\ proc[p].run = row.active
                                  /\ proc[p].pc = "observe"

\* Native runs notify a change once, across crashes, retries and whatever a
\* legacy process has admitted before, and only of a real change.
OneNotice ==
    \A t \in told : t.native =>
        /\ runs[t.run].changed
        /\ \A u \in told : t.run \in Chain(u.run) => u = t

\* When no reaction is pending, subscribers have been told what the baseline
\* says: no failed or crashed run has swallowed a change, and no late one has
\* spoken for a run that came after it.
SubscribersCurrent ==
    row.reaction = 0 /\ row.baseline # NoValue => announced = row.baseline

\* A run whose claim was taken, recovered or lapsed changes nothing any more.
StaleRunIsPowerless ==
    [][\A p \in Procs \ Legacy :
         /\ proc'[p] # proc[p] /\ proc[p].pc # "idle"
         /\ row.active # proc[p].run \/ ~ row.live
         =>
            /\ UNCHANGED notices /\ row'.baseline = row.baseline
            /\ row'.reaction = row.reaction /\ row'.completed = row.completed]_vars

\* Once nothing new happens, whatever was owed has been done.
EventsSettle == native \/ <>[](~ Behind /\ (row.enabled => ~ Owed(row)))
=============================================================================
