-------------------------- MODULE ScanPublication ---------------------------
(***************************************************************************)
(* A scan of one source: demand, admission, the traversal and the batches  *)
(* it publishes (catabolic-store/src/observation.rs, with the fences of    *)
(* catabolic-core/src/scan_publication.rs and the claims of                *)
(* coordination.rs).                                                       *)
(*                                                                         *)
(* A caller's demand is a request row; it points at an observation job,    *)
(* which is new, shared with another request, or already finished.  The    *)
(* process that claims a job walks the directories with the writer lock    *)
(* released, buffers what it sees, and takes the lock again for every      *)
(* batch.  A batch is fenced (claim, dirty generation, root identity); a   *)
(* directory that was read completely authorises marking what was not      *)
(* seen in it as missing.  A walk that dies leaves its committed scopes    *)
(* behind, and a resumed or a continuing job carries on from them.         *)
(*                                                                         *)
(* Everything a command does between taking and releasing the writer lock  *)
(* is one action.  The source is a root directory, the directories below   *)
(* it and one level of files; what changes on disk while the scan runs is  *)
(* in hist, the sequence of the states the disk has had.                   *)
(***************************************************************************)
EXTENDS Integers, Sequences, FiniteSets

CONSTANTS
    Procs,      \* processes that ask for scans and run them
    Root, Subs, \* the root of the source and the directories in it
    Files, In,  \* the files, and the directory each of them belongs in
    MaxEvents,  \* bound: changes on disk, dirty events, crashes, lapsed leases,
                \* exhausted budgets, errors and cancellations, all together
    MaxJobs,    \* bound: observation jobs
    MaxRequests,\* bound: scan requests
    Fragile,    \* bound: files and directories that may be gone at first
    Reuse       \* whether the nth request accepts earlier evidence: TRUE, FALSE

ASSUME ScanAssumption ==
    /\ Root \notin Subs /\ Files \intersect (Subs \union {Root}) = {}
    /\ In \in [Files -> Subs \union {Root}]
    /\ IsFiniteSet(Procs) /\ IsFiniteSet(Subs) /\ IsFiniteSet(Files)
    /\ {MaxEvents, MaxJobs, MaxRequests} \subseteq Nat
    /\ Reuse \in [1 .. MaxRequests -> SUBSET BOOLEAN]

Dirs == {Root} \union Subs

\* Times are positions in hist.  A file's version is the time it was written
\* and a directory's identity the time it was made; 0 is absence.  The stamp
\* (mtime and ctime) of a directory is the time its list of names last changed.
Times == 0 .. MaxEvents + 1
Disks == [ver : [Files -> Times], ident : [Dirs -> Times], stamp : [Dirs -> Times]]

\* observation_scopes: a directory of a job, and the identity in its detail.
ScopeStates == {"none", "pending", "running", "complete", "failed", "deferred"}
Scopes == [Dirs -> [state : ScopeStates, ident : Times]]
NoScope == [state |-> "none", ident |-> 0]
FirstScopes == [d \in Dirs |-> IF d = Root THEN [NoScope EXCEPT !.state = "pending"] ELSE NoScope]

JobIds == 1 .. MaxJobs

\* observation_jobs with its observation_seen and observation_scopes rows; at
\* is when its evidence begins, pinned the root identity it is tied to.
JobRows == [state : {"queued", "running", "complete", "failed", "stale", "unavailable"},
            dirty : 0 .. MaxEvents, parent : 0 .. MaxJobs, token : Nat,
            lease : BOOLEAN, started : BOOLEAN, at : Times, pinned : Times, scopes : Scopes,
            seen : SUBSET Files, deferred : BOOLEAN, resume : BOOLEAN]

\* observation_requests; before holds the jobs that started ahead of its
\* minimum start, answer what its caller has been told, at since when that has
\* to hold: its minimum start or, of a continuation, the start of the evidence
\* that it carries on from if that is earlier.
Requests == [job : JobIds, parent : 0 .. MaxJobs, reuse : BOOLEAN, before : SUBSET JobIds,
             at : Times, active : BOOLEAN, answer : {"none", "complete", "deferred"}]

\* The walk of a process: its copy of the scopes (queue), the buffered scopes
\* (dirs) and entries (0: none), and the directory it is reading.
Walks == [job : 0 .. MaxJobs, req : 0 .. MaxRequests, token : Nat, from : Times, root : Times,
          queue : Scopes, dirs : SUBSET Dirs, entries : [Files -> Times],
          pc : {"idle", "walk", "reading", "closed", "checked"}, dir : Dirs,
          left : BOOLEAN, stamp : Times,
          status : {"complete", "failed", "deferred"}, verified : BOOLEAN]

VARIABLES
    hist,     \* the states the disk has had, the present one last
    rows,     \* observations: the version of each file on record, 0: missing
    dirty,    \* observation_sources.dirty_generation
    dirtyAt,  \* when the last dirty event was recorded
    jobs,     \* observation_jobs in order of generation
    requests, \* observation_requests in order of creation
    walks,    \* the walk each process is on
    events    \* events of the bound so far

vars == <<hist, rows, dirty, dirtyAt, jobs, requests, walks, events>>

NoWalk == [job |-> 0, req |-> 0, token |-> 0, from |-> 0, root |-> 0, queue |-> FirstScopes, dirs |-> {},
           entries |-> [f \in Files |-> 0], pc |-> "idle", dir |-> Root, left |-> FALSE,
           stamp |-> 0, status |-> "complete", verified |-> FALSE]

Now == Len(hist)
Disk == hist[Now]

\* What the path of f has held from time t on.
Held(f, t) == {hist[i].ver[f] : i \in {k \in 1 .. Now : k >= t}}

Spend == events < MaxEvents /\ events' = events + 1

\* A catalog that has every file on record from an earlier scan, and a source
\* from which some of them may be gone since.
Init ==
    /\ \E ver \in [Files -> {0, 1}], ident \in [Dirs -> {0, 1}] :
        /\ \A x \in (Files \union Dirs) \ Fragile : IF x \in Files THEN ver[x] = 1 ELSE ident[x] = 1
        /\ ident[Root] = 1 /\ \A f \in Files : ver[f] <= ident[In[f]]
        /\ hist = <<[ver |-> ver, ident |-> ident, stamp |-> [d \in Dirs |-> 1]]>>
    /\ rows = [f \in Files |-> 1]
    /\ dirty = 0 /\ dirtyAt = 1 /\ events = 0
    /\ jobs = <<>> /\ requests = <<>>
    /\ walks = [p \in Procs |-> NoWalk]

-----------------------------------------------------------------------------
(* Admission. *)

Walking(j) == \E p \in Procs : walks[p].job = j

\* Mutant: a lease that ran out counts as proof that the owner is gone.
MutAbandoned(j) == jobs[j].state = "running" /\ ~ jobs[j].lease

\* recover: a running job whose guard file nobody holds is stale.
Abandoned(j) == jobs[j].state = "running" /\ ~ Walking(j)
Recovered == [j \in DOMAIN jobs |->
    IF Abandoned(j) THEN [jobs[j] EXCEPT !.state = "stale", !.lease = FALSE] ELSE jobs[j]]

Running(J) == \E j \in DOMAIN J : J[j].state = "running"

\* Mutant: the dirty generation is not part of what makes work compatible.
MutCompatible(J, parent) == {j \in DOMAIN J : J[j].parent = parent}

\* Jobs of the same compatibility that no dirty event has overtaken.
Compatible(J, parent) == {j \in DOMAIN J : J[j].parent = parent /\ J[j].dirty >= dirty}

\* Running work is shared only while its lease holds and if it started late enough.
Joinable(J, r) == {j \in Compatible(J, r.parent) :
    \/ J[j].state = "queued"
    \/ J[j].state = "running" /\ J[j].lease /\ j \notin r.before}

\* Finished work answers a demand that accepts earlier evidence.
Reusable(J, r, states) == {j \in Compatible(J, r.parent) :
    r.reuse /\ J[j].state \in states /\ J[j].parent = 0 /\ j \notin r.before}

Latest(S) == {j \in S : \A k \in S : k <= j}

\* A blocked job stands for its policy until a continuation of it completes.
Lineage(J) ==
    LET up[j \in 0 .. Len(J)] == IF j = 0 THEN {} ELSE {J[j].parent} \union up[J[j].parent]
    IN up
Blocked(J) == {j \in Compatible(J, 0) :
    /\ J[j].state = "failed" /\ J[j].deferred
    /\ ~ \E k \in DOMAIN J : J[k].state = "complete" /\ j \in Lineage(J)[k]}

Queued(parent) == [state |-> "queued", dirty |-> dirty, parent |-> parent,
    token |-> 0, lease |-> FALSE, started |-> FALSE, at |-> 0,
    pinned |-> 0, scopes |-> FirstScopes, seen |-> {}, deferred |-> FALSE, resume |-> FALSE]

\* A claim and prepare_scan: the root must be there and be the one the job
\* began with; directories left half read are pending again.
Claimed(row) ==
    LET begun == IF row.started THEN row ELSE [row EXCEPT !.started = TRUE, !.at = Now]
        root  == Disk.ident[Root]
    IN IF root = 0 THEN [begun EXCEPT !.state = "unavailable", !.lease = FALSE]
       ELSE IF row.pinned \notin {0, root}
            THEN [begun EXCEPT !.state = "failed", !.lease = FALSE, !.resume = FALSE]
       ELSE [begun EXCEPT !.state = "running", !.token = @ + 1, !.lease = TRUE, !.pinned = root,
                !.scopes = [d \in Dirs |->
                    IF @[d].state = "running" THEN [@[d] EXCEPT !.state = "pending"] ELSE @[d]]]

WalkOf(row, j, n) ==
    IF row.state # "running" THEN NoWalk
    ELSE [NoWalk EXCEPT !.job = j, !.req = n, !.token = row.token, !.from = Now,
                        !.root = row.pinned, !.queue = row.scopes, !.pc = "walk"]

\* What the caller of r learns from a row, and since when that has to hold.
Told(r, row) ==
    IF row.state = "complete"
    THEN [r EXCEPT !.answer = "complete", !.at = IF dirtyAt > @ THEN dirtyAt ELSE @]
    ELSE IF row.deferred THEN [r EXCEPT !.answer = "deferred"] ELSE r

\* Request n, the row r, is for job j of J: an answer, a wait, or a claim by p.
Serve(p, J, j, n, r) ==
    LET ends  == J[j].state \in {"complete", "unavailable"} \/ J[j].deferred
        row   == IF ends \/ Running(J) THEN J[j] ELSE Claimed(J[j])
        told  == IF ends THEN Told([r EXCEPT !.job = j], row) ELSE [r EXCEPT !.job = j]
    IN /\ jobs' = [J EXCEPT ![j] = row]
       /\ requests' = IF n \in DOMAIN requests THEN [requests EXCEPT ![n] = told]
                      ELSE Append(requests, told)
       /\ walks' = IF row = J[j] THEN walks ELSE [walks EXCEPT ![p] = WalkOf(row, j, n)]
       /\ UNCHANGED <<hist, rows, dirty, dirtyAt, events>>

\* scan: a new demand is answered by finished or blocked work, shares work
\* that is under way, or gets a job of its own.
Request(p, reuse) ==
    LET J == Recovered
        r == [job |-> 1, parent |-> 0, reuse |-> reuse,
              before |-> IF reuse THEN {} ELSE {j \in DOMAIN J : J[j].started},
              at |-> IF reuse THEN 1 ELSE Now, active |-> TRUE, answer |-> "none"]
        n == Len(requests) + 1
        done == Reusable(J, r, {"complete", "unavailable"})
    IN /\ walks[p] = NoWalk /\ n <= MaxRequests /\ reuse \in Reuse[n]
       /\ IF done # {} THEN \E j \in Latest(done) : Serve(p, J, j, n, r)
          ELSE IF Blocked(J) # {} THEN \E j \in Latest(Blocked(J)) : Serve(p, J, j, n, r)
          ELSE IF Joinable(J, r) # {} THEN \E j \in Latest(Joinable(J, r)) : Serve(p, J, j, n, r)
          ELSE Len(J) < MaxJobs /\ Serve(p, Append(J, Queued(0)), Len(J) + 1, n, r)

\* resume_scan: the request is asked about again.  A job that cannot serve it
\* any more is replaced by another one (readmit).
Resume(p, n) ==
    LET J == Recovered
        r == requests[n]
        old == J[r.job]
        stand == old.dirty >= dirty /\ old.state # "unavailable"
                 /\ (old.state = "failed" => old.resume \/ old.deferred)
        found == Joinable(J, r) \union Reusable(J, r, {"complete"})
    IN /\ walks[p] = NoWalk /\ r.active
       /\ IF stand THEN Serve(p, J, r.job, n, r)
          ELSE IF found # {} THEN \E j \in Latest(found) : Serve(p, J, j, n, r)
          ELSE Len(J) < MaxJobs /\ Serve(p, Append(J, Queued(r.parent)), Len(J) + 1, n, r)

\* scan --continue-request: a job that carries on from the scopes and the seen
\* rows of a finished one, under the root and the minimum start it had.  What
\* was read for the finished job may be older than the request that is continued.
Continue(p, n) ==
    LET J == Recovered
        r == requests[n]
        parent == jobs[r.job]
        child == [Queued(r.job) EXCEPT !.started = TRUE, !.at = parent.at,
                    !.pinned = parent.pinned, !.seen = parent.seen,
                    !.scopes = [d \in Dirs |->
                        IF parent.scopes[d].state \in {"none", "complete"} THEN parent.scopes[d]
                        ELSE [parent.scopes[d] EXCEPT !.state = "pending"]]]
    IN /\ walks[p] = NoWalk /\ Len(requests) < MaxRequests /\ Len(J) < MaxJobs
       /\ parent.state \notin {"queued", "running"} /\ dirty <= parent.dirty /\ ~ Running(J)
       /\ Serve(p, Append(J, child), Len(J) + 1, Len(requests) + 1,
                [r EXCEPT !.parent = r.job, !.reuse = FALSE, !.active = TRUE, !.answer = "none",
                          !.at = IF parent.at < @ THEN parent.at ELSE @])

Cancel(n) ==
    /\ requests[n].active /\ requests[n].answer = "none" /\ Spend
    /\ requests' = [requests EXCEPT ![n].active = FALSE]
    /\ UNCHANGED <<hist, rows, dirty, dirtyAt, jobs, walks>>

-----------------------------------------------------------------------------
(* The traversal. *)

\* Publication::fence: the claim is the one that is running, its lease holds,
\* no dirty event has overtaken it, and the root is the directory it opened.
Fence(w) ==
    LET row == jobs[w.job]
    IN row.state = "running" /\ row.token = w.token /\ row.lease /\ row.dirty = dirty
       /\ Disk.ident[Root] = w.root

\* reopen: the directory is there, below the root that was opened, and it is
\* the one that was listed.
Reopens(w, d, ident) ==
    d = Root \/ (Disk.ident[Root] = w.root /\ Disk.ident[d] # 0 /\ ident \in {0, Disk.ident[d]})
Opened(w, d) == IF d = Root THEN w.root ELSE Disk.ident[d]

\* Mutant: a directory that is opened again keeps what was seen in it before.
MutPublished(w, verified) ==
    [jobs[w.job] EXCEPT
        !.scopes = [d \in Dirs |->
            IF d \notin w.dirs THEN @[d]
            ELSE IF w.queue[d].state = "complete" /\ d \notin verified
            THEN [w.queue[d] EXCEPT !.state = "failed"] ELSE w.queue[d]],
        !.seen = {f \in Files : w.entries[f] # 0 \/ f \in @}]

\* flush: the buffered scopes and entries become rows; of the scopes that are
\* reported complete only those in verified are recorded as such.
Published(w, verified) ==
    LET row    == jobs[w.job]
        begun  == {d \in w.dirs : w.queue[d].state = "running"}
        scopes == [d \in Dirs |->
                     IF d \notin w.dirs THEN row.scopes[d]
                     ELSE IF w.queue[d].state = "complete" /\ d \notin verified
                     THEN [w.queue[d] EXCEPT !.state = "failed"] ELSE w.queue[d]]
    IN [row EXCEPT !.scopes = scopes,
                   !.seen = {f \in Files : w.entries[f] # 0 \/ (f \in @ /\ In[f] \notin begun)}]

\* Mutant: the root speaks for every file below it, scanned or not.
MutAbsent(row, verified) == {f \in Files \ row.seen : In[f] \in verified \/ Root \in verified}

\* publish_missing for the verified scopes: files of the directory, and files
\* below a child that the job has no scope for, that were not seen.
Absent(row, verified) == {f \in Files \ row.seen :
    In[f] \in verified \/ (Root \in verified /\ row.scopes[In[f]].state = "none")}

Flush(p, w, verified, next) ==
    LET row == Published(w, verified) IN
    /\ Fence(w)
    /\ jobs' = [jobs EXCEPT ![w.job] = row]
    /\ rows' = [f \in Files |-> IF w.entries[f] # 0 THEN w.entries[f]
                                ELSE IF f \in Absent(row, verified) THEN 0 ELSE rows[f]]
    /\ walks' = [walks EXCEPT ![p] =
                    [next EXCEPT !.dirs = {}, !.entries = NoWalk.entries]]

Stays == UNCHANGED <<hist, dirty, dirtyAt, requests, events>>
Steps(p, w) == walks' = [walks EXCEPT ![p] = w] /\ UNCHANGED <<rows, jobs>> /\ Stays

Names(d) == {f \in Files : In[f] = d} \union (IF d = Root THEN Subs ELSE {})

\* A pending directory is opened; its stamp is taken and it is recorded as
\* running, which forgets what was seen in it before.
Open(p, d) ==
    LET w == walks[p]
        ident == Opened(w, d)
        v == [w EXCEPT !.queue[d] = [state |-> "running", ident |-> ident],
                       !.dirs = @ \union {d}, !.pc = "reading", !.dir = d, !.left = TRUE,
                       !.stamp = Disk.stamp[d], !.status = "complete"]
    IN /\ w.pc = "walk" /\ w.queue[d].state = "pending"
       /\ Reopens(w, d, w.queue[d].ident) /\ Flush(p, v, {}, v) /\ Stays

CannotOpen(p, d) ==
    LET w == walks[p] IN
    /\ w.pc = "walk" /\ w.queue[d].state = "pending" /\ ~ Reopens(w, d, w.queue[d].ident)
    /\ Steps(p, [w EXCEPT !.queue[d] = [state |-> "failed", ident |-> 0], !.dirs = @ \union {d}])

\* The directory that is open is still the one at its path.
InPlace(w) == Disk.ident[Root] = w.root /\ Disk.ident[w.dir] = w.queue[w.dir].ident

\* The entries of the directory: files become entries, directories are queued.
Listed(w, names) ==
    LET there == IF InPlace(w) THEN names ELSE {}
        new == {s \in there \intersect Subs : Disk.ident[s] # 0 /\ w.queue[s].state = "none"}
    IN [w EXCEPT !.left = FALSE, !.dirs = @ \union new,
                 !.entries = [f \in Files |-> IF f \in there THEN Disk.ver[f] ELSE 0],
                 !.queue = [d \in Dirs |-> IF d \in new
                                           THEN [state |-> "pending", ident |-> Disk.ident[d]]
                                           ELSE @[d]]]

List(p) ==
    LET w == walks[p] IN
    w.pc = "reading" /\ w.left /\ Steps(p, Listed(w, Names(w.dir)))

\* Some names cannot be read (the directory fails), or a budget of the
\* directory is used up (it is deferred where the walk stands).
ListPart(p, names, status) ==
    LET w == walks[p] IN
    /\ w.pc = "reading" /\ w.left /\ Spend
    /\ walks' = [walks EXCEPT ![p] = [Listed(w, names) EXCEPT !.status = status]]
    /\ UNCHANGED <<hist, rows, dirty, dirtyAt, jobs, requests>>

\* A checkpoint inside a directory publishes what is buffered.
Checkpoint(p) ==
    LET w == walks[p] IN
    w.pc = "reading" /\ (w.dirs # {} \/ w.entries # NoWalk.entries) /\ Flush(p, w, {}, w) /\ Stays

\* The last name is read: the directory counts as complete unless its stamp moved.
Close(p) ==
    LET w == walks[p]
        status == IF Disk.stamp[w.dir] # w.stamp THEN "deferred" ELSE w.status
    IN /\ w.pc = "reading" /\ ~ w.left
       /\ Steps(p, [w EXCEPT !.pc = "closed", !.queue[w.dir].state = status, !.dirs = @ \union {w.dir}])

\* Ahead of its transaction the flush looks at the directory once more.
Recheck(p) ==
    LET w == walks[p]
        ok == /\ w.queue[w.dir].state = "complete" /\ InPlace(w)
              /\ Disk.stamp[w.dir] = w.stamp
    IN w.pc = "closed" /\ Fence(w) /\ Steps(p, [w EXCEPT !.pc = "checked", !.verified = ok])

Commit(p) ==
    LET w == walks[p] IN
    /\ w.pc = "checked"
    /\ Flush(p, w, IF w.verified THEN {w.dir} ELSE {},
             [w EXCEPT !.pc = "walk", !.dir = Root, !.stamp = 0,
                       !.status = "complete", !.verified = FALSE])
    /\ Stays

\* Mutant: only scopes that are still to be read count as outstanding.
MutFinished(row, stopped, over) ==
    LET whole == ~ stopped /\ \A d \in Dirs : row.scopes[d].state \in {"none", "complete", "failed"}
    IN [row EXCEPT !.state = IF whole THEN "complete" ELSE "failed", !.lease = FALSE,
                   !.deferred = over \/ \E d \in Dirs : row.scopes[d].state = "deferred",
                   !.resume = FALSE]

\* finish_scan: the job is complete if every scope it recorded is; stopped
\* tells that the walk ended early, and over that a budget ended it.
Finished(row, stopped, over) ==
    LET whole == ~ stopped /\ \A d \in Dirs : row.scopes[d].state \in {"none", "complete"}
    IN [row EXCEPT !.state = IF whole THEN "complete" ELSE "failed", !.lease = FALSE,
                   !.deferred = over \/ \E d \in Dirs : row.scopes[d].state = "deferred",
                   !.resume = FALSE]

Ends(p, row) ==
    LET w == walks[p] IN
    /\ jobs' = [jobs EXCEPT ![w.job] = row]
    /\ requests' = [requests EXCEPT ![w.req] = IF @.active THEN Told(@, row) ELSE @]
    /\ walks' = [walks EXCEPT ![p] = NoWalk]
    /\ UNCHANGED <<hist, rows, dirty, dirtyAt>>

Finish(p) ==
    LET w == walks[p] IN
    /\ w.pc = "walk" /\ \A d \in Dirs : w.queue[d].state # "pending"
    /\ Fence(w) /\ Ends(p, Finished(Published(w, {}), FALSE, FALSE)) /\ UNCHANGED events

\* A budget of the whole scan or an error of the storage ends the walk; what
\* was buffered is dropped.
Abort(p, over) ==
    LET w == walks[p] IN
    /\ w.pc # "idle" /\ Fence(w) /\ Spend
    /\ Ends(p, Finished(jobs[w.job], TRUE, over))

\* A fence that does not hold any more ends the walk (fail_claim).
Fenced(p) ==
    LET w == walks[p]
        row == jobs[w.job]
    IN /\ w.pc # "idle" /\ ~ Fence(w)
       /\ jobs' = IF row.state = "running" /\ row.token = w.token
                  THEN [jobs EXCEPT ![w.job] = [row EXCEPT !.state = "failed", !.lease = FALSE,
                                                            !.deferred = FALSE, !.resume = TRUE]]
                  ELSE jobs
       /\ walks' = [walks EXCEPT ![p] = NoWalk]
       /\ UNCHANGED <<hist, rows, dirty, dirtyAt, requests, events>>

-----------------------------------------------------------------------------
(* The world: the disk changes, events arrive, processes die. *)

Edit(disk) ==
    /\ Spend /\ hist' = Append(hist, disk)
    /\ UNCHANGED <<rows, dirty, dirtyAt, jobs, requests, walks>>

Write(f) ==
    /\ Disk.ident[In[f]] # 0
    /\ Edit([Disk EXCEPT !.ver[f] = Now + 1,
                         !.stamp[In[f]] = IF Disk.ver[f] = 0 THEN Now + 1 ELSE @])

Remove(f) ==
    /\ Disk.ver[f] # 0
    /\ Edit([Disk EXCEPT !.ver[f] = 0, !.stamp[In[f]] = Now + 1])

MakeDir(d) ==
    /\ Disk.ident[d] = 0 /\ (d \in Subs => Disk.ident[Root] # 0)
    /\ Edit([Disk EXCEPT !.ident[d] = Now + 1, !.stamp[d] = Now + 1, !.stamp[Root] = Now + 1])

RemoveDir(d) ==
    LET gone == IF d = Root THEN Dirs ELSE {d} IN
    /\ Disk.ident[d] # 0
    /\ Edit([ver   |-> [f \in Files |-> IF In[f] \in gone THEN 0 ELSE Disk.ver[f]],
             ident |-> [x \in Dirs |-> IF x \in gone THEN 0 ELSE Disk.ident[x]],
             stamp |-> [x \in Dirs |-> IF x \in gone \union {Root} THEN Now + 1 ELSE Disk.stamp[x]]])

\* dirty: a source event, or a change of the source's scan policy.
Dirty ==
    /\ Spend /\ dirty' = dirty + 1 /\ dirtyAt' = Now
    /\ UNCHANGED <<hist, rows, jobs, requests, walks>>

Lapse(j) ==
    /\ jobs[j].lease /\ Spend /\ jobs' = [jobs EXCEPT ![j].lease = FALSE]
    /\ UNCHANGED <<hist, rows, dirty, dirtyAt, requests, walks>>

Crash(p) ==
    /\ walks[p] # NoWalk /\ Spend /\ walks' = [walks EXCEPT ![p] = NoWalk]
    /\ UNCHANGED <<hist, rows, dirty, dirtyAt, jobs, requests>>

Admission == \E p \in Procs :
    \/ \E reuse \in BOOLEAN : Request(p, reuse)
    \/ \E n \in DOMAIN requests : Resume(p, n) \/ Continue(p, n)

Traversal == \E p \in Procs :
    \/ \E d \in Dirs : Open(p, d) \/ CannotOpen(p, d)
    \/ List(p) \/ Checkpoint(p) \/ Close(p) \/ Recheck(p) \/ Commit(p) \/ Finish(p) \/ Fenced(p)

Trouble ==
    \/ \E p \in Procs :
        \/ Crash(p)
        \/ \E names \in SUBSET Names(walks[p].dir), status \in {"failed", "deferred"} :
              names # Names(walks[p].dir) /\ ListPart(p, names, status)
        \/ \E over \in BOOLEAN : Abort(p, over)
    \/ \E n \in DOMAIN requests : Cancel(n)
    \/ \E j \in DOMAIN jobs : Lapse(j)

World ==
    \/ \E f \in Files : Write(f) \/ Remove(f)
    \/ \E d \in Dirs : MakeDir(d) \/ RemoveDir(d)
    \/ Dirty

Next == Admission \/ Traversal \/ Trouble \/ World
Spec == Init /\ [][Next]_vars

-----------------------------------------------------------------------------
(* Properties. *)

TypeOK ==
    /\ hist \in Seq(Disks) /\ Now \in 1 .. MaxEvents + 1
    /\ rows \in [Files -> Times]
    /\ dirty \in 0 .. MaxEvents /\ dirtyAt \in 1 .. Now /\ events \in 0 .. MaxEvents
    /\ jobs \in Seq(JobRows) /\ Len(jobs) <= MaxJobs
    /\ \A j \in DOMAIN jobs : jobs[j].token <= MaxEvents + 1
    /\ requests \in Seq(Requests) /\ Len(requests) <= MaxRequests
    /\ walks \in [Procs -> Walks]

\* What a batch puts on record about a file, its version or its absence, was
\* true of the path at some time since the claim that publishes it.
PublishedWasTrue ==
    [][\A f \in Files, p \in Procs :
          rows'[f] # rows[f] /\ walks'[p] # walks[p] => rows'[f] \in Held(f, walks[p].from)]_vars

\* A directory whose reading is committed as complete is on record with exactly
\* the names it had while it was read, whatever earlier readings had seen.
ListingIsExact ==
    [][\A p \in Procs : walks[p].verified /\ Commit(p) =>
          \A f \in Files : In[f] = walks[p].dir =>
              (rows'[f] # 0) = (hist[walks[p].stamp].ver[f] # 0)]_vars

\* A job that is complete vouches for every file: what the catalog says of it
\* has been true since the evidence of the job, or of the job it continues,
\* began to be collected.
CompleteVouches ==
    \A j \in DOMAIN jobs : jobs[j].state = "complete" =>
        \A f \in Files : rows[f] \in Held(f, jobs[j].at)

\* A caller that is told its demand is complete can rely on it: everything
\* on record has been true since its minimum start (for a continuation, since
\* the evidence that it carries on from began), and since the last dirty event
\* that preceded the answer.
AnswersAreFresh ==
    \A n \in DOMAIN requests : requests[n].answer = "complete" =>
        \A f \in Files : rows[f] \in Held(f, requests[n].at)

\* There is never a second traversal of the source next to another, however a
\* lease lapsed, a process died or several callers asked for a scan at once.
OneTraversal ==
    \A p, q \in Procs : walks[p].job # 0 /\ walks[q].job # 0 => p = q
=============================================================================
