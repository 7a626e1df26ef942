# Catabolic: a TLA+ verification project

Catabolic is a media catalog.  One SQLite database and a few directories hold
everything; short-lived commands, an HTTP worker and watchers change them.  All
cross-process coordination goes through the database, through one `flock` per
catalog, and through file names.  This project models the parts where that
coordination is hard and checks and proves what they promise.

## Inventory

| Component | State it keeps | Operations | What is hard |
|---|---|---|---|
| Catalog session (`catabolic-store/src/lib.rs`) | the writer lock, the connection | open, `transaction`, `detached` | the lock is given up during detached work and may not come back within 5 s |
| Durable job reducer (`catabolic-core/src/execution.rs`) | none; decides on job and claim rows | start, recover, fence, renew, cancel, reclaim, retry, finish | it is right only if the row it reads is the row it writes |
| Render jobs (`artifact_mutation.rs`, `catabolic-runtime/src/artifacts.rs`) | `processing_jobs`, `execution_claims`, `processing_artifacts`, the generated-output directory | enqueue, run, intent, publish, fail, recover | crashes between commits and renames, lost leases, stale lists |
| HTTP worker (`http_worker.rs`, `renditions.rs`) | `api_worker_status` | select, recover, requeue, run, notify | recovers and requeues in one loop, beside operators |
| Rendition demand (`rendition_mutation.rs`, `022_http_access.sql`) | `api_requests`, `api_reservations` | admit, cancel, retry, block | one job, many callers, one reservation, SQL triggers |
| Analysis jobs (`media_mutation.rs`) | jobs, `file_facts`, `content_baselines`, `processing_retry_queue` | start, complete, retry, reclaim | a scan between the check and the commit |
| External processors (`processor_mutation.rs`) | leased jobs of external workers | claim, heartbeat, transition, complete | generations and late receipts |
| Native execution cleanup (`execution_cleanup.rs`) | `native_execution_lifetimes` | seal, witness | a pid is no proof of exit |
| Output publication (`filesystem_mutation.rs`, `hardlink_mutation.rs`) | `journal`, `owned_links`, output trees, private directories | apply, recover, verify, discard | effect before acknowledgement, other writers in the output |
| Catalog refresh (`catalog_refresh.rs`) | refresh rows with backoff | recover, layout, apply, acknowledge | keeps coming back until the output is healthy |
| Notifications (`notifications.rs`) | destinations, events, deliveries | emit, claim, acknowledge, retry, disable | at-least-once delivery with leases |
| Watchers (`watcher.rs`) | definitions, generations, runs | event, due, run, complete | events during a run |
| Scans (`observation.rs`) | jobs, scopes, seen rows, observations | scan, continue, publish | absence needs complete evidence |
| Playback (`playback.rs`, `playback_cache.rs`) | shared jobs, sessions, cache directories | admit, start, progress, complete, retire | sessions that share an encode |
| Content access (`content_access.rs`) | tickets | issue, debit, transfer, revoke | allowances under concurrency |
| Fallback (`fallback_resolution.rs`) | health, selections, probe slots | check, resolve, fail back | evidence of an old revision |
| Host leases (`catalog_host_lease.rs`) | reader count, revocation | acquire, revoke, drain | drain against acquire |
| Shared requests (`lifecycle.rs`) | two callers, one generation | attach, cancel, advance, complete | a caller must not stop the other |

The remaining parts (catalog content, queries, migrations, encoders, interfaces)
are listed with the reason in `PROJECT.json`.

How they interact.  Everything goes through the catalog.  The CLI and the HTTP
server open a session, which takes the writer lock, run transactions and close;
a long computation gives the lock up (`Store::detached`) and must pass the fence
of its claim when it is back.  The HTTP worker loops: select a demanded job,
`recover`, `resume_work`, `run`, drain notifications, prune.  Job states flow to
demands and reservations through SQL triggers; finished jobs emit consumer
events, which become notification deliveries.  Nothing is called back in
process: what a component learns of another is a row or a file name.

## Modules

| Module | Models | State in the code |
|---|---|---|
| `Execution` | the decisions of `execution.rs`: live claim, fence, start, recover, cancel, retry | pure; guards of the others |
| `RenderJobs` | `artifact run`, `artifact recover`, `cancel`, `retry`, the HTTP worker tick, heartbeats, faults | `job` = `processing_jobs`, `claim` = `execution_claims`, `art` = `processing_artifacts.state`, `registered` = the inventory rows of an output, `vol`/`dur` = the output directory as seen / as synced, `lock` = the `flock`, `proc` = where each process is |
| `Publication` | what publishing promises: intent, then name, then catalog | abstract; `RenderJobs` refines it |
| `Notifications` | emission, lease, check, sending, acknowledgement, operator commands | `row` = `notification_deliveries`, `enabled`/`revision` = `notification_destinations`, `drain` = the `DeliveryLease` a drainer holds |
| `RenditionDemand` | admit, cancel, retry, worker selection, the triggers of `022_http_access.sql` | `demand`, `of` = `api_requests`, `reserved` = `api_reservations`, `job` = `processing_jobs.state` |
| `SymlinkPublication` | `apply`, `recover`, `recover_publications`, `execute_operation`, `replace_leaf`, `discard_private` of one symlink output | `marker`, `entry`, `priv` = the output directory (ownership marker, names, `<name>.private` directories), `journal`, `owned` = `owned_links`, `meta` = the `publication-private:` rows, `pending` = `generation > verified`, `want` = mappings, `src` = sources against their last scan |
| `PublishedTree` | what an output promises its readers: one path, one step at a time, the ledger after the tree | abstract; `SymlinkPublication` refines it |
| `AnalysisJobs` | enqueue, cancel, `retry_admitted`, `processing run` with its worker pool and result cache, `media run`, automatic retries, completion, recovery | `job`, `claim`, `sealed` = `native_execution_lifetimes`, `due` = `processing_retry_queue`, `fact` = `file_facts`, `base` = `content_baselines`, `inv` = the recorded revision, `disk` = the file, `task` = the threads of a pool |
| `ScanPublication` | admission, sharing, continuation and recovery of scans of one source, the walk, its batches, the marking of missing files, the end | `jobs` = `observation_jobs` with their `observation_scopes` and `observation_seen`, `requests` = `observation_requests`, `rows` = `observations`, `dirty` = the source's dirty generation, `hist` = the states the disk has had, `walks` = the buffers of each process |
| `Watchers` | put, enable, disable, admit, the due decision, events, claim, observation, evaluation, reaction, notification, completion, failure, recovery | `row` = `watchers` with its claim and schedule, `runs` = `watcher_runs`, `told` = `consumer_events`, `announced` = what subscribers heard last, `proc` = where each run is |
| `MC...` | instances and symmetry sets for TLC | |
| `RenderJobsProofs`, `RenderFilesProofs`, `NotificationsProofs`, `RenditionDemandProofs`, `SymlinkPublicationProofs`, `AnalysisJobsProofs`, `ScanPublicationProofs`, `WatchersProofs` | the theorems | |

An action is one commit or one file-system call in `RenderJobs` and
`SymlinkPublication`, one transaction or one look at the file or the source in
`AnalysisJobs`, what happens between two commits under the writer lock in
`ScanPublication` and `Watchers`, and one transaction or one request in the
other two, so that a crash or another actor fits between any two of them. Names of actions
follow the functions: `Intent`, `Publish`, `Register` (in `publish_inner`),
`Fail`, `Interrupt` (in `recover`), `ResumeWork`, `Claim`, `Acknowledge`,
`Admit`, `Cancel`, `Retry`, `Flush`, `Plan`, `Finish`.

Abstractions that matter:

- *Claims.*  Generation and random token of a claim are fresh at every
  acquisition and a process keeps the proof of its last one only, so "the row
  carries my token" is modelled as "I am its owner".  The lease is the time that
  is left, so no clock is needed.  Process ids are reused: `Restart` brings a
  new process under an old id.
- *Files.*  A name holds nothing, a partial file, the validated bytes or a
  foreign file.  `dur` is what a power loss leaves; a sync copies an output's two
  names into it.  The code's directory sync covers every name of the directory;
  the model syncs the names of one output only, which is weaker, so what holds
  here holds there.  Foreign files appear only on unfinished outputs.
- *Order.*  `recover` and `run` visit their lists in any order; the limit of the
  list is left out.
- *Not in the guards.*  The recovered-journal check of `start`, native-schema
  cleanup witnesses (catalogs of the older schema are modelled) and the reuse
  check of `enqueue`.  Source, policy and capability refusals are `GiveUp`.
- *HTTP worker.*  One per catalog: the code takes a singleton lock.
- *Notifications.*  The writer lock is left out, so drainers interleave more
  freely than in the code.  Which destinations an event matches is
  nondeterministic.  A transport may report a failure for an event the remote
  side has accepted.
- *Demand.*  All demands are for one cache key and one source revision.  The
  disk has room for `Slots` outputs instead of a number of bytes, and other users
  of the disk (playback) are left out.  `timeout` is `failed`.  `stale` for a
  changed source is computed at reading in the code, so it is the guard `current`
  here; the source can become current again, because a revision covers status,
  binding and volume of the observation.  The trigger for the state
  `validating` never fires (no code writes it).  A retry is checked against the
  same limits as an admission.
- *Symlink outputs.*  A link is its target, a target is the source it points
  at.  Replacing and removing links is modelled as the code does it where
  `symlink_leaf_allowed` lets it (test builds and disposable fixtures; release
  builds prepare, create and forget only).  A crash loses the process, not
  synced or unsynced writes.  Others act on a path and on the private names of
  its outstanding row, not inside a private directory of ours: between the
  verification there and the unlink a writer of the same user could still swap
  the entry, which `docs/NATIVE_RETIREMENT_TRACK_C.md` states as a residual.  Left
  out: removal and change budgets, statistics, consumers and refresh rows (the
  generations appear as `pending`), the fallback contexts with their
  `stale_resolution_*` cancellations, parent directories, and the order of
  paths within one kind of action.  Journal ids are reused once nothing bears
  their name; UUIDs never are.
- *Analysis.*  One source file; its revision stands for size, times and binding.
  The writer lock is left out, which only adds interleavings.  Reading the file
  is one look between the two checks of its revision.  A heartbeat keeps a lease
  up while its process lives, so that it lapses is a fault (`Lapse`).  The time
  of an automatic retry is the choice of the moment when it is due.  All outcomes
  of processors other than `complete`, `changed` and `mismatch` are one of
  `Failures`.  `native` distinguishes catalogs whose jobs need a sealed lifetime
  (schema 33) from the portable ones.  Left out: text segments, the component
  index, slots per device and the `limit` of a run.
- *Scans.*  A command that holds the lock from its first commit to its last is one
  action: claim and preparation, the last flush and the end.  Listing a directory
  is one look; every change of its list of names moves its mtime or ctime.  A
  removed directory vanishes with what is in it.  One source, so the cap on
  parallel scans is left out, as are exclusions and filters, generated sources,
  depth budgets, the choice of a continuation's scopes, `require_complete`, and
  policies and bindings, whose changes act like the dirty event.  A row that is
  `unknown` and one that is `missing` are both 0.
- *Watchers.*  Delays (debounce, retry times) only postpone a run and are left
  out: the row knows whether there is a retry time, a due date that has passed,
  an event.  The request for an observation is joined, begun or answered at once
  (`asked`); the observation itself is `ScanPublication`.  What a plan evaluates
  to is a value.  Plans with an event or a processing reaction are modelled; the
  projection, mapping and report reactions and observation-only plans are not.
  A process of the frozen Python protocol (`Legacy`) works on portable catalogs
  only, notifies in a transaction of its own and does not look at its fence when
  it completes; native catalogs admit no run while another is active and have no
  recovery.  The jobs of a processing reaction are admitted in one action, since
  admitting them again finds the old ones.  A process id may come back to life
  as another process (`Crash`).

## Runs

| Run | Instance | Shows |
|---|---|---|
| `RenderCrash` | 1 job, the HTTP worker and an operator, 2 attempts, 3 faults | `NoOrphanOutput`, `IntentIsDurable`, `RegisteredIsDurable`, `StaleWorkerIsPowerless`, `CancelSticks`, and every interleaving implements `Publication` (`PublicationPromise`): crashes, power losses, lapsed leases, foreign files, an unmounted volume, requeueing |
| `RenderLive` | 1 job, 2 processes, no HTTP worker, 1 attempt, 2 faults | `IntentPinsJob`, `IntentResolves`, `UnfinishedSettles` |
| `NotifyLease` | 2 drainers, 2 events, 1 destination, 2 tries, 2 commands | `EditRevokes`, `CompleteWasAccepted`, `StaleAckIsPowerless`, `DeliverySettles` |
| `DemandLedger` | 2 callers with 2 keys, 2 jobs of which the operator retries the second, room for 1 | `PendingIsReserved`, `NoOvercommit`, and `EveryDemandAnswered` with the exception below |
| `LinkTree` | 2 paths, 2 sources, with and without an exchange of names, 1 private inode, nobody else writes | `NoLeftovers`, `LedgerMatchesTree`, `ReplacedAtOnce`, `NoDeadLinks`, every operation implements `PublishedTree` (`AtomicTree`) |
| `LinkWriters` | 1 path, 2 sources, with and without exchange, 1 private inode, at most one act of others, at any moment | `ForeignKept`, `SquattersUntouched`; without such an act, `Converges` |
| `Analysis` | 2 jobs of one file, 2 starts, a pool of 2 threads and a direct runner, 2 revisions, 2 contents, 1 automatic retry, 1 fault, both kinds of catalog | `FactsWereRead`, `OneWorker`, `FactsNeverOlder`, `BaselineHolds`, `CancelHolds` |
| `ScanWalk` | 2 processes, a root with one directory and a file in each, 2 requests, 2 jobs, 2 events of any kind | `CompleteVouches`, `AnswersAreFresh`, `OneTraversal`, `PublishedWasTrue`, `ListingIsExact` |
| `WatchEvents` | a native and a legacy process, 2 values, an event and a timed definition, 4 changes, errors, crashes and commands, of which at most 2 are commands or due dates | `NothingMissed`, `OneNotice`, `SubscribersCurrent`, `StaleRunIsPowerless`, `EventsSettle` |
| `RenderStaleList`, `ApiRequeue`, `DemandLocalRetry` | | disagreements, below |

`NotifyLease` also checks its type invariant, which says that no delivery is tried
more often than allowed.  The other type invariants are not checked in the runs:
they are theorems, as are `OneUnfinished`, `GivesUpLate`, `SettledStays`,
`CancelledStays` and `OneOutstanding`.

Why the bounds are enough. Two processes are needed for every race over one
claim (an old and a new owner); a third one would only repeat the role of the
second, because the writer lock lets one act at a time. Two attempts let an old
attempt's worker meet a new attempt. Three faults let a crash hit a recovery
that cleans up after a crash after a lapsed lease. Two tries are one that is
retried and one that is the last; two commands are a cancelling edit and a retry
after it. Two callers with two demands have, for one job, a demand of the same
caller and of another one; two jobs let a demand stay behind on an old job; a
limit of 2 per caller and 3 overall is reached. Two paths let a plan have a
second operation when a crash interrupts the first; two sources let a link be
replaced; one private inode is the harder case, since every directory that
others make under a private name then reuses the inode of ours; one act of
others at any moment is an entry swapped between a check and its effect, or a
squatter under a name that a crash left. Crashes of the publisher, scans and
remappings are not bounded. In `Analysis` two jobs let two results of different
revisions finish in either order, and two starts let a job be tried again while
its old thread works; the fault falls anywhere. In `ScanWalk` the second request
shares, resumes or continues the job of the first, or begins its own; two events
are what it takes for a directory to vanish and come back while a batch waits.
In `WatchEvents` four steps let a change during a run meet a crash of the run,
an error of its retry and a second change; two processes are an old run and the
one that took over, of either protocol. The counters (`MaxAttempts`,
`MaxFaults`, `MaxCommands`, `MaxJobs`, `MaxStarts`, `MaxRev`, `MaxRequests`,
`MaxEvents`, `MaxSteps`, `MaxWrites`, and the `Fragile` entries of a scan) are
the only bounds that the code does not have; the theorems hold for every value of them. Deadlock is not checked:
with the bounds used up and nothing queued the systems may stop.

Fairness.  `RenderJobs` assumes weak fairness of the sequential code of a started
command; strong fairness of taking the writer lock back after a detached
section, because the code polls it while other commands hold it only shortly;
that processes come back, time passes and the volume is mounted again; and that
`artifact recover` is run again while something is unfinished
(`docs/ARTIFACTS.md` asks the operator to), strongly, since the lock is busy now
and then.  Faults are finitely many (`MaxFaults`) and never fair.
`Notifications` assumes weak fairness of a drainer's rounds (`http_worker.rs`
drains in every iteration) and of time.  Abandoning a round stays possible at
any moment and is not fair.  `SymlinkPublication` assumes weak fairness of a
command's steps and, because `catalog_refresh.rs` comes back with backoff to a
catalog that is not healthy, recovers it when rows are left and then applies,
strong fairness of both; and of the operator, who clears what recovery names.
`Watchers` assumes weak fairness of what the supervisor does when it comes back
(`tick_with_poll`: recover, then run what is due), of the steps of a run and of
its failure once its fence is lost or its inputs have changed, and that the lease
of a run nobody works on ends.  Errors, crashes and lapses are steps of the
bound and not fair.  `AnalysisJobs` and `ScanPublication` are checked without
fairness.

## Disagreements between code and documentation

- `RenderStaleList`: `recover` detaches while it publishes one output, and then
  marks a later row of its list `interrupted`, although another worker has
  published and registered it meanwhile.
- `ApiRequeue`: `tick_store` looks at no single error of `recover` and
  `resume_work` puts a job back in the queue whose publication intent is still
  there; every later recovery then refuses the intent.
- `DemandLocalRetry`: `processing retry` requeues a job that callers asked for
  without its reservation (`ReservedWhileUnfinished`).  The same property fails a
  second way: a retry of a cancelled demand on a job that has become `changed`
  reserves disk space for a terminal job, which nothing releases.

That second way costs the caller its answer, too.  It has no run of its own: it
is the exception that `EveryDemandAnswered` states (`RetriedLate`).  A queued job
is marked `changed` when the source of one of its demands is not current, a
demand on it is cancelled before or after, the source becomes current again, and
the caller retries the demand.  `reduce` (`rendition.rs:174`) answers `queued` and
requeues `failed`, `timeout` and `cancelled` jobs only, so the demand is queued on
a terminal job, `select_work` (`rendition_mutation.rs:413`) never looks at it, and
it waits until its caller cancels it.  `docs/HTTP.md:415` says of such jobs "they
need a new request for the current source revision"; the code takes the retry.
`EveryDemandAnswered` covers all four terminal states and lets only this step, of
this demand, withhold an answer; once queued so, the demand stays in the
exception.  Without that exception TLC finds the scenario in seven states.

The quotations are in `PROJECT.json`.  `RenderStaleList` also means that a
complete job can become `failed`; `RenditionDemand` takes a job's end as final.

Another one came out of the proof of `AnswersAreFresh` and has no run of its own,
since it takes three requests.  `docs/OBSERVATIONS.md:102` says "`after` requires
traversal to start at or after that barrier", and a plain scan sets a new
barrier.  A plain demand that meets a deferred job is attached to it and blocked.
`scan --continue-request` of that demand copies its barrier
(`observation.rs:2141`) into a job that takes over the scopes of the deferred one,
read before the barrier, and may end it `complete`.  The same document says at
line 337 that inherited intervals may be older than the new job's start, so the
model follows the code: a continuation promises what is true since the evidence
it carries on from began, and `at` of its request says so.  Jobs that continue
others are never reused for a new demand, which the same proof needs.

Two further limits that no document contradicts: a continuation of a scan whose
child directory has vanished can never complete, since it only reads the scopes
it took over; and a run that a schedule alone started and whose process died
unseen is made up for by the schedule's next date only (`Behind`).

`NoLeftovers`, `ReplacedAtOnce` and `Converges` speak of filesystems that
exchange names (`exchange`).  On others (`exchange_unsupported`) a replaced link
is missing for a moment, and a recovery that cancels a replacement and crashes
inside the deletion of the staged link can leave `.catabolic-link-<id>.private`:
when the source comes back, the next recovery carries the replacement out, never
looks at that directory again and deletes the row.  With the exchange the same
name is discarded.  Such a leftover also keeps its journal id from being used
again, so with the single id of `LinkWriters` the model would run out of them.

## Theorems

`RenderJobsProofs` proves type correctness from `IndType` (types, and that a
process in the middle of an attempt has a job and an attempt number), then
`CancelSticks`, `OneUnfinished` (a new artifact is started only if none is
unfinished) and, for `ApiWorkers = {}`, `IntentPinsJob`; with an HTTP worker it
is false, as `ApiRequeue` shows.

`RenderFilesProofs` proves `StaleWorkerIsPowerless` and `IntentIsDurable` from
`IndType`, and the rest from the invariant `IInv`:

- `LockOK`: who is in an attached step holds the lock, hence is alone;
- `RowsOK`: a registered output is of an allocated attempt and no longer unfinished;
- `InPublication`: a process between `publish` and `register` still has its intent,
  under the lock always, detached as long as it would pass its fence;
- `RegisterReady`: the file a process is about to register is durable;
- `NoOrphanName`: `NoOrphanOutput`, also for what a power loss would bring back;
- `RegisteredIsDurable` itself.

`NoOrphanOutput` alone is not inductive: the rename happens some steps after
the fence that allowed it, and only the lock keeps others out in between.
`PublicationPromiseHolds` shows that every step is a step of `Publication` or a
stutter, from the same invariant.

`NotificationsProofs` proves the type invariant (so no delivery is tried more
than `MaxTries` times), `GivesUpLate`, `EditRevokes`, `CompleteWasAccepted`,
`StaleAckIsPowerless` and `SettledStays`.  Its `IInv` adds what a lease knows
(`TokenLeased`, `LeaseKnows`: a row with p's token is leased, with one attempt
more than p's lease counted) and what an answer knows (`AnswerKnows`: an answer
"complete" was accepted).

`RenditionDemandProofs` proves the type invariant with `Fresh` (a job that is not
created yet is queued and unreserved), `EveryDemandAnswered` (from `AnswerInv`:
each demand on an ended job is answered, cancelled or `RetriedLate`), `NoOvercommit`,
`CancelledStays` and `PendingIsReserved`, which leaves out the jobs that the
operator retries (`LocalRetries`); for those it is false, as `DemandLocalRetry`
shows.

`SymlinkPublicationProofs` proves, for every number of paths, ids and writers and
with or without exchange: type correctness with `Shape` (what is carried out is
a row, only a claim of the output has no path, a deletion has a name);
`OneOutstanding` from `OneInv` (no row when the next one is begun);
`SquattersUntouched` and `ForeignKept` from `WriterInv`:

- `Ours`: a record that is not given up is of a directory we made;
- `Held`: the directory of the deletion under way is ours, empty before the
  move and after the unlink, and its record is given up before it is removed.

`ForeignKept` needs `Held` because the move overwrites, and the removal drops,
whatever the directory holds; and it needs the types because a staged link
overwrites only what is a target, never something foreign.

What the tree shows is proved from `TreeInv`, which says of every path that
nobody else has touched how far its operation is:

- `Plan`: the plan has one action per path, and what it found is still there;
- `RowsInv`: a row is not carried out (`Waiting`), between its two links
  (`Between`) or carried out (`Done`), and the ledger still says what was before;
- `Stages`, `Progress`: which of the three each step of the operation relies on,
  and that an exchange is never swapped back without another writer;
- `Control`: there is no plan during a recovery, no operation between commands.

`LedgerMatchesTree` is its last conjunct.  `ReplacedAtOnce` follows with the list
of the steps that write an entry (`Writing`); only `Displace` takes a link off
its path, and with an exchange only a removal gets there (`Stages`).
`NoDeadLinks` adds `Live`: from the check of its mapping to the link the source
stays there for the last scan, because scans need the writer lock, which the
command holds.  `NoLeftovers` adds `Leftovers`: which private names may hold
something while a row is outstanding, or while deletions are queued; with an
exchange, a replacement leaves nothing but its temporary link and a removal
nothing but its quarantined one.  `AtomicTreeHolds` is the refinement: under
`[](touched = {})` every step maps to a step of `PublishedTree` or a stutter
(`SeenStep`).  The hypothesis is the promise's own: a writer who overwrites a
path changes what readers see outside any operation.  That such a behaviour
exists, with every operation in it, is the run `LinkTree`, which checks
`AtomicTree` with no writes of others.

`AnalysisJobsProofs` proves, for every number of processes, jobs and threads:

- type correctness from `TInv` (`Counted`: the attempts of a job are among the
  starts; `Requested`: a job that exists has an operation and a revision);
- `FactsNeverOlder`, with `Looking` (who commits has a finished thread) and
  `FactsKnown` (no fact is newer than the inventory): the transaction compares
  the revision again, and revisions only grow;
- `FactsWereRead` from `Read`: not only the facts, but the results that wait for
  their commit and those in the caches were read from the revision of their job;
- `BaselineHolds` from `Based`: a complete checksum fact agrees with the baseline,
  also after a mismatch or a late result;
- `CancelHolds`; and `OneWorker` from `Exclusive`: in a native catalog a process is
  engaged with a job from its acquisition to its seal, nobody else is, and a
  sealed job has no child process left, which is why it may be admitted.

`ScanPublicationProofs` proves every safety property of its run.  Type
correctness needs a bound on tokens, hence `TokenInv`: a claim is lost only by an
event, so a job is claimed at most once more than events happened to it.
`OneTraversal` follows from `Engaged` (who walks has a running job) and `Alone`,
which hold because a running job is taken for abandoned only when nobody walks
for it.  The four properties about evidence follow from `Sound`:

- `Past`: what the disk remembers.  A directory that is there has been since the
  time that is its identity; from the time of its stamp the same files have
  existed in it.  This is why an unmoved stamp and identity at the end of a
  reading say something about its whole duration.
- `JobsSound`: of every job, however far it got, each scope that is complete
  speaks for its files (`Vouches`): what the catalog says of them was true since
  the job's evidence began; that of the root speaks for directories the job has
  no scope for.  A job that no dirty event has overtaken began after the last one
  (`Shaped`); a continuation began no earlier than its parent (`Descends`).
- `WalksSound`: what a walk has buffered was read since its claim (`Buffers`); once a
  directory is listed without an error there was one moment at which the entries
  and the seen rows were exactly its files (`ReadAt`); its own copy of the scopes
  and those of the job agree but for what is buffered (`Queues`); no evidence is
  younger than the claim, and while no dirty event has overtaken the job, the
  request of the walk waits for it still (`Tied`).
- `RequestsSound`: what a request waits for is good enough (`Dated`): its minimum
  start is not after the last dirty event, or the evidence it continues, or any
  job that began after it asked; and an answer that was given stays true (`Waits`).

`CompleteVouches` alone is not inductive: a job that is not complete yet, another
that is behind on a dirty event, and a scope list with a hole in it may all
become complete, or be continued by one that does; so the invariant speaks of
every scope of every job.  `Advances` and the lemmas on it say once what
recovery, a new job, a claim and the end of a walk have in common; `ToldWaits` is
the one place where an answer is given.

`WatchersProofs` proves type correctness and the four safety properties of its run:
`StaleRunIsPowerless`, `NothingMissed`, `OneNotice` and `SubscribersCurrent`.
`NothingMissed` alone is not inductive; its `IInv` adds, for a run that has
evaluated and not finished (`Planned`), that its reaction is pending (`Reacts`) and
that changes since its evaluation have reached a later generation (`NotLate`, the
reason why a completion may acknowledge its own generation); that a claim leaves
what made the run due in the row (`ActiveIsOwed`); and that without a run whatever
the last one did not see is owed (`IdleIsOwed`).
`OneNotice` and `SubscribersCurrent` follow from `ChainInv`, which speaks of the
runs that a pending reaction retries (`Retries` is a least closed set, so its
facts - `ReachLeast`, `ReachStep`, `ReachSame` - are lemmas without induction):
each run has one process, and one that observes remembers the baseline and the
pending reaction (`OwnRuns`, `Remembers`); only evaluated runs are retried, and a
retry without a change came to the same value (`Evaluated`, `SameValue`); a
pending reaction with nothing left to deliver leaves subscribers up to date
(`Delivered`); and a change that is still pending has no native notice, and no
notice of a run outside its chain (`Undelivered`).

Every invariant and every action property that a passing run checks is now a
theorem, as are the two refinements.  Only model-checked is liveness
(`IntentResolves`, `UnfinishedSettles`, `DeliverySettles`, `Converges`,
`EventsSettle`), since TLAPS does not reason about `ENABLED` and fairness; and the
three disagreements, which are counterexamples.
Assumptions are those on the constants, next to their declarations.  They are as
weak as the code justifies: the files, directories and root of a scan are
different names; `None` is not a directory, a record, a row or a change of a
path; the numbers that bound a model are natural.

## Not modelled

`PROJECT.json` lists every component.  Out of scope for good: the content of
the catalog (single-transaction edits and pure functions over documents),
migrations and imports (offline, under the lock), encoders, wire formats and
interfaces.  Of the modelled components: recipes, bindings, disk budget and the
enqueue race of render jobs; logical fallback admission, reports and API
events of the demand ledger; webhook and mapping cancellations and the
verification of publications before a drain; hardlink outputs, budgets and
fallback contexts of the publication; text segments and capacity of analysis
jobs; filters, policies and several sources of scans; the projection, mapping
and report reactions of watchers and their cron arithmetic.

## Plan

Done: 1. `Execution`, `RenderJobs`, `Publication`.  2. `Notifications`.
3. `RenditionDemand`.  4. `SymlinkPublication`, `PublishedTree`.  5. `AnalysisJobs`.
6. `Watchers`.  7. `ScanPublication`.  8. The proofs of all safety properties of
the runs.  Next, in this order:

9. `HardlinkPublication`: the same journal with several effects per row; theorem:
   the last reference to the bytes is kept.
10. `Playback`: shared encodes and their sessions.
11. `RenderAdmission` (the enqueue race), `ContentTickets`, `HostLease`,
   `SharedRequest`, `Fallback`, external processors.

Each of them gets a lease or fence from `Execution` where the code uses
`execution.rs`, an invariant made of named parts, and a proof module.
