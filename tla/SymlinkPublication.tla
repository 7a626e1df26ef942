-------------------------- MODULE SymlinkPublication --------------------------
(***************************************************************************)
(* One symlink output of the catalog (one profile, one catalog) and the    *)
(* journal that keeps it in step with the mappings: `apply`, `recover` and *)
(* the verification that releases notifications.  Every system call and    *)
(* every committed transaction is a step, so a crash, and a writer of the  *)
(* same directory, may come between any two of them.                       *)
(*                                                                         *)
(* A link is its target and a target is the source file it points at; what *)
(* is not a link of the catalog is a member of Foreigns.  Only names that  *)
(* a row of the journal may use appear; the parents of a path do not.      *)
(* Replacing and removing are modelled as they run where                   *)
(* symlink_leaf_allowed opens the gate.                                    *)
(***************************************************************************)
EXTENDS Naturals, Sequences, FiniteSets

CONSTANTS Paths, Targets, Foreigns,
          Ids,          \* journal ids, reusable once nothing bears their name
          Inodes,       \* of private directories, reused by the filesystem
          None,
          MaxWrites     \* bound: acts of others in the output

ASSUME BoundAssumption == MaxWrites \in Nat

Temporary(id) == <<"link", id>>
Quarantine(id) == <<"unlink", id>>
Private == {"link", "unlink"} \X Ids
Names == Paths \cup Private

ASSUME NamesAssumption ==
    /\ Paths \cap Private = {}
    /\ Targets \cap Foreigns = {}
    /\ None \notin Targets \cup Foreigns \cup Paths

VARIABLES
    \* the filesystem
    marker,    \* ownership marker: "absent", "partial" or "owned"
    entry,     \* what each name holds: None, a link's target or something foreign
    priv,      \* directory `<private name>.private`: None or its inode, its one entry
               \* and, unknown to the code, who made it
    \* the database
    journal,   \* rows: operations begun and not acknowledged
    owned,     \* owned_links
    meta,      \* record of the private directory made, and whether its removal began
    pending,   \* the publication generation is ahead of the verified one
    exchange,  \* the filesystem can exchange two names; never changes
    want,      \* the source each path is mapped to
    src,       \* of each source: "ok", "missing" for the last scan, "changed" since
    \* the publisher
    pc, mode, op, todo, discards, after, made,
    \* history
    alive,     \* foreign entries that their owners have put there and not removed
    writes,    \* acts of other writers so far
    touched    \* paths with a name that another writer has written

disk == <<marker, entry, priv>>
db == <<journal, owned, meta, pending>>
intent == <<exchange, want, src>>
local == <<mode, op, todo, discards, after, made>>
history == <<alive, writes, touched>>
vars == <<disk, db, intent, pc, local, history>>

Init ==
    /\ marker = "absent"
    /\ entry = [n \in Names |-> None]
    /\ priv = [n \in Private |-> None]
    /\ journal = {}
    /\ owned = [p \in Paths |-> None]
    /\ meta = [n \in Private |-> None]
    /\ pending = FALSE
    /\ exchange \in BOOLEAN
    /\ want = [p \in Paths |-> None]
    /\ src = [t \in Targets |-> "ok"]
    /\ pc = "idle" /\ mode = "apply" /\ op = None /\ todo = {}
    /\ discards = <<>> /\ after = "observe" /\ made = FALSE
    /\ alive = {} /\ writes = 0 /\ touched = {}

Empty == (\A n \in Names : entry[n] = None) /\ (\A n \in Private : priv[n] = None)

-----------------------------------------------------------------------------
(* The plan: what a path's mapping, ledger row and entry ask for.          *)

Desired(p) == IF want[p] # None /\ src[want[p]] = "ok" THEN want[p] ELSE None

SourceFails(p) == want[p] # None /\ src[want[p]] = "changed"

Blocked ==
    \/ \E p \in Paths : SourceFails(p)
    \/ marker = "partial"
    \/ marker = "absent" /\ (~Empty \/ \E p \in Paths : owned[p] # None)
    \/ \E p \in Paths :
          /\ Desired(p) # None \/ owned[p] # None
          /\ entry[p] # None
          /\ owned[p] = None \/ entry[p] # owned[p]

Kind(p) ==
    CASE Desired(p) # None /\ entry[p] = None                      -> "create"
      [] Desired(p) # None /\ entry[p] = Desired(p)                -> "unchanged"
      [] Desired(p) # None /\ entry[p] \notin {None, Desired(p)}   -> "replace"
      [] Desired(p) = None /\ entry[p] = None                      -> "forget"
      [] OTHER                                                     -> "remove"

Prepare == [kind |-> "prepare", path |-> None, target |-> None, previous |-> None]

Change(p) == [kind |-> Kind(p), path |-> p, target |-> Desired(p), previous |-> owned[p]]

Delta ==
    {a \in {Change(p) : p \in {q \in Paths : Desired(q) # None \/ owned[q] # None}} :
        a.kind # "unchanged"}
    \cup (IF marker = "absent" THEN {Prepare} ELSE {})

Rank(kind) == CASE kind = "prepare" -> 0 [] kind = "create" -> 1 [] kind = "replace" -> 2
                [] kind = "remove" -> 3 [] OTHER -> 4

MutStillWanted(p, t) == want[p] = t

(* validate_intent: the mapping still asks for target t, or for no link.    *)
StillWanted(p, t) == ~SourceFails(p) /\ Desired(p) = t

-----------------------------------------------------------------------------
(* How the publisher moves on.                                             *)

Goto(l) == pc' = l /\ UNCHANGED local

(* An error returned, or the end of a command: its variables are gone.      *)
Stop ==
    /\ pc' = "idle" /\ mode' = "apply" /\ op' = None /\ todo' = {}
    /\ discards' = <<>> /\ after' = "observe" /\ made' = FALSE

Fail == Stop /\ UNCHANGED <<disk, db>>

Discard(list, then) ==
    /\ pc' = "discard" /\ discards' = list /\ after' = then
    /\ UNCHANGED <<mode, op, todo, made>>

Renamed(from, to) == [entry EXCEPT ![to] = entry[from], ![from] = None]

MutCanRename(from, to) == entry[from] # None

(* Exclusive rename within the output; fails on an occupied destination.    *)
CanRename(from, to) == entry[from] # None /\ entry[to] = None

-----------------------------------------------------------------------------
(* Commands.  The writer lock and the publication lock admit one at a time. *)
(* (Each Mut* definition is a plausible bug in the definition that follows  *)
(* it; a run fails with it in place.)                                       *)

Apply ==
    /\ pc = "idle" /\ journal = {} /\ ~Blocked
    /\ pc' = "next" /\ mode' = "apply" /\ todo' = Delta
    /\ UNCHANGED <<disk, db, op, discards, after, made>>

Unused(id) ==
    /\ \A r \in journal : r.id # id
    /\ \A n \in {Temporary(id), Quarantine(id)} :
          entry[n] = None /\ priv[n] = None /\ meta[n] = None

(* The action becomes a row of the journal before anything is done.         *)
Begin ==
    /\ pc = "next"
    /\ \E a \in todo, id \in Ids :
          /\ \A b \in todo : Rank(a.kind) <= Rank(b.kind)
          /\ Unused(id)
          /\ op' = [id |-> id, kind |-> a.kind, path |-> a.path,
                    target |-> a.target, previous |-> a.previous]
          /\ journal' = journal \cup {op'}
          /\ todo' = todo \ {a}
    /\ pc' = "execute"
    /\ UNCHANGED <<disk, owned, meta, pending, mode, discards, after, made>>

Applied == pc = "next" /\ todo = {} /\ Goto("verify") /\ UNCHANGED <<disk, db>>

Recover ==
    /\ pc = "idle"
    /\ pc' = "recover" /\ mode' = "recover"
    /\ UNCHANGED <<disk, db, op, todo, discards, after, made>>

MutUnapplied(o) == TRUE

Unapplied(o) ==
    \/ o.kind = "create" /\ entry[o.path] = None
    \/ o.kind \in {"replace", "remove"} /\ entry[o.path] = o.previous

MutObsolete(o) == FALSE

(* An operation whose path is as it was found is carried out only if the    *)
(* plan still has it, and dropped otherwise.  Rows are taken in the order   *)
(* they were begun in; there is one (OneOutstanding).                       *)
Obsolete(o) ==
    [kind |-> o.kind, path |-> o.path, target |-> o.target, previous |-> o.previous] \notin Delta

RecoverRow ==
    /\ pc = "recover"
    /\ \E o \in journal :
          \/ /\ Unapplied(o) /\ Blocked
             /\ Fail
          \/ /\ ~Unapplied(o) \/ (~Blocked /\ ~Obsolete(o))
             /\ pc' = "execute" /\ op' = o
             /\ UNCHANGED <<disk, db, mode, todo, discards, after, made>>
          \/ /\ Unapplied(o) /\ ~Blocked /\ Obsolete(o) /\ o.kind # "replace"
             /\ pc' = "cancel" /\ op' = o
             /\ UNCHANGED <<disk, db, mode, todo, discards, after, made>>
          \/ /\ Unapplied(o) /\ ~Blocked /\ Obsolete(o) /\ o.kind = "replace"
             /\ IF entry[Temporary(o.id)] \in {None, o.target}
                THEN /\ pc' = "discard" /\ op' = o /\ after' = "cancel"
                     /\ discards' = <<[name |-> Temporary(o.id), allowed |-> {o.target}]>>
                     /\ UNCHANGED <<disk, db, mode, todo, made>>
                ELSE Fail

Recovered == pc = "recover" /\ journal = {} /\ Goto("verify") /\ UNCHANGED <<disk, db>>

Cancel ==
    /\ pc = "cancel"
    /\ journal' = {r \in journal : r.id # op.id}
    /\ Goto("recover")
    /\ UNCHANGED <<disk, owned, meta, pending>>

-----------------------------------------------------------------------------
(* execute_operation: claiming the output.                                 *)

Claim ==
    /\ pc = "execute" /\ op.kind = "prepare"
    /\ \/ marker = "owned" /\ Goto("observe") /\ UNCHANGED <<disk, db>>
       \/ /\ marker = "absent" /\ Empty
          /\ marker' = "partial"
          /\ Goto("claim")
          /\ UNCHANGED <<entry, priv, db>>
       \/ (marker = "partial" \/ (marker = "absent" /\ ~Empty)) /\ Fail

WriteMarker ==
    /\ pc = "claim"
    /\ marker' = "owned"
    /\ Goto("observe")
    /\ UNCHANGED <<entry, priv, db>>

-----------------------------------------------------------------------------
(* execute_operation: creating and replacing.                              *)

(* The previous link was displaced and the new one not yet published.       *)
Displaced(o) ==
    /\ o.kind = "replace"
    /\ entry[o.path] = None /\ entry[Quarantine(o.id)] = o.previous

MutPublishedBefore ==
    /\ pc = "execute" /\ op.kind \in {"create", "replace"} /\ marker = "owned"
    /\ entry[op.path] = op.target
    /\ Goto("observe")
    /\ UNCHANGED <<disk, db>>

PublishedBefore ==
    /\ pc = "execute" /\ op.kind \in {"create", "replace"} /\ marker = "owned"
    /\ entry[op.path] = op.target
    /\ IF op.kind = "replace"
       THEN Discard(<<[name |-> Temporary(op.id), allowed |-> {op.previous, op.target}],
                      [name |-> Quarantine(op.id), allowed |-> {op.previous}]>>, "observe")
       ELSE Goto("observe")
    /\ UNCHANGED <<disk, db>>

ResumeDisplaced ==
    /\ pc = "execute" /\ marker = "owned" /\ Displaced(op)
    /\ Goto(IF StillWanted(op.path, op.target) THEN "resume" ELSE "restore")
    /\ UNCHANGED <<disk, db>>

StartLink ==
    /\ pc = "execute" /\ op.kind \in {"create", "replace"} /\ marker = "owned"
    /\ entry[op.path] # op.target /\ ~Displaced(op)
    /\ IF /\ StillWanted(op.path, op.target)
          /\ entry[op.path] = (IF op.kind = "create" THEN None ELSE op.previous)
       THEN Goto(IF op.kind = "create" THEN "symlink" ELSE "stage") /\ UNCHANGED <<disk, db>>
       ELSE Fail

Symlink ==
    /\ pc = "symlink"
    /\ IF entry[op.path] = None
       THEN /\ entry' = [entry EXCEPT ![op.path] = op.target]
            /\ Goto("observe")
            /\ UNCHANGED <<marker, priv, db>>
       ELSE Fail

(* The new link under its private name, then the last look at the leaf.     *)
Stage ==
    /\ pc \in {"stage", "resume"}
    /\ IF entry[Temporary(op.id)] \in {None, op.target}
       THEN /\ entry' = [entry EXCEPT ![Temporary(op.id)] = op.target]
            /\ Goto(IF pc = "resume" THEN "publish" ELSE "check")
            /\ UNCHANGED <<marker, priv, db>>
       ELSE Fail

MutCheckLeaf ==
    /\ pc = "check"
    /\ IF entry[op.path] = op.previous THEN Goto("displace") /\ UNCHANGED <<disk, db>> ELSE Fail

CheckLeaf ==
    /\ pc = "check"
    /\ IF entry[op.path] = op.previous
       THEN Goto(IF op.kind = "replace" /\ exchange THEN "exchange" ELSE "displace")
            /\ UNCHANGED <<disk, db>>
       ELSE Fail

(* Leaf and temporary change places; both must exist.                       *)
Swapped ==
    [entry EXCEPT ![op.path] = entry[Temporary(op.id)], ![Temporary(op.id)] = entry[op.path]]

Swap(next) ==
    IF entry[op.path] # None /\ entry[Temporary(op.id)] # None
    THEN entry' = Swapped /\ next /\ UNCHANGED <<marker, priv, db>>
    ELSE Fail

ExchangeLeaf == pc = "exchange" /\ Swap(Goto("exchanged"))

VerifyExchanged ==
    /\ pc = "exchanged"
    /\ IF entry[Temporary(op.id)] = op.previous
       THEN Discard(<<[name |-> Temporary(op.id), allowed |-> {op.previous}]>>, "observe")
       ELSE Goto("swap back")
    /\ UNCHANGED <<disk, db>>

SwapBack == pc = "swap back" /\ Swap(Stop)

(* Without an exchange, and for a removal, the leaf goes to the quarantine. *)
Displace ==
    /\ pc = "displace"
    /\ IF CanRename(op.path, Quarantine(op.id))
       THEN /\ entry' = Renamed(op.path, Quarantine(op.id))
            /\ Goto("displaced")
            /\ UNCHANGED <<marker, priv, db>>
       ELSE Fail

VerifyDisplaced ==
    /\ pc = "displaced"
    /\ IF entry[Quarantine(op.id)] # op.previous
       THEN Goto("restore")
       ELSE IF op.kind = "replace" THEN Goto("publish")
       ELSE Discard(<<[name |-> Quarantine(op.id), allowed |-> {op.previous}]>>, "observe")
    /\ UNCHANGED <<disk, db>>

Restore ==
    /\ pc = "restore"
    /\ IF CanRename(Quarantine(op.id), op.path)
       THEN /\ entry' = Renamed(Quarantine(op.id), op.path)
            /\ Stop
            /\ UNCHANGED <<marker, priv, db>>
       ELSE Fail

Publish ==
    /\ pc = "publish"
    /\ IF CanRename(Temporary(op.id), op.path)
       THEN /\ entry' = Renamed(Temporary(op.id), op.path)
            /\ Discard(<<[name |-> Quarantine(op.id), allowed |-> {op.previous}]>>, "observe")
            /\ UNCHANGED <<marker, priv, db>>
       ELSE Fail

-----------------------------------------------------------------------------
(* execute_operation: removing and forgetting.                             *)

StartRemoval ==
    /\ pc = "execute" /\ op.kind \in {"remove", "forget"} /\ marker = "owned"
    /\ \/ /\ entry[op.path] # None
          /\ IF /\ op.kind = "remove" /\ entry[op.path] = op.previous
                /\ StillWanted(op.path, None)
             THEN Goto("check") /\ UNCHANGED <<disk, db>>
             ELSE Fail
       \/ /\ entry[op.path] = None
          /\ IF op.kind = "remove"
             THEN Discard(<<[name |-> Quarantine(op.id), allowed |-> {op.previous}]>>, "observe")
             ELSE Goto("observe")
          /\ UNCHANGED <<disk, db>>

Disowned ==
    /\ pc = "execute" /\ op.kind # "prepare" /\ marker # "owned"
    /\ Fail

-----------------------------------------------------------------------------
(* discard_private: nothing is deleted under a shared name.  The entry goes *)
(* into a directory made for it, whose inode is recorded first.             *)

Doomed == Head(discards).name

(* Only a directory with the recorded inode, and only until its removal     *)
(* began: the inode of a removed directory may be another's.                *)
MutAdoptable(n) == meta[n] # None /\ meta[n].ino = priv[n].ino

Adoptable(n) == meta[n] = [ino |-> priv[n].ino, stage |-> "made"]

OpenPrivate ==
    /\ pc = "discard" /\ discards # <<>>
    /\ \/ /\ priv[Doomed] = None
          /\ meta' = [meta EXCEPT ![Doomed] = None]
          /\ Goto("named")
          /\ UNCHANGED <<disk, journal, owned, pending>>
       \/ /\ priv[Doomed] # None
          /\ IF Adoptable(Doomed)
             THEN /\ pc' = "unlink" /\ made' = FALSE
                  /\ UNCHANGED <<disk, db, mode, op, todo, discards, after>>
             ELSE Fail

Discarded ==
    /\ pc = "discard" /\ discards = <<>>
    /\ Goto(after)
    /\ UNCHANGED <<disk, db>>

NextDiscard == discards' = Tail(discards) /\ pc' = "discard" /\ UNCHANGED <<mode, op, todo, after, made>>

FreeInodes == Inodes \ {priv[n].ino : n \in {k \in Private : priv[k] # None}}

MakePrivate ==
    /\ pc = "named"
    /\ \/ entry[Doomed] = None /\ NextDiscard /\ UNCHANGED <<disk, db>>
       \/ /\ entry[Doomed] # None /\ priv[Doomed] = None
          /\ \E i \in FreeInodes :
                priv' = [priv EXCEPT ![Doomed] = [ino |-> i, held |-> None, by |-> "us"]]
          /\ pc' = "record" /\ made' = TRUE
          /\ UNCHANGED <<marker, entry, db, mode, op, todo, discards, after>>
       \/ entry[Doomed] # None /\ priv[Doomed] # None /\ Fail

RecordPrivate ==
    /\ pc = "record"
    /\ meta' = [meta EXCEPT ![Doomed] = [ino |-> priv[Doomed].ino, stage |-> "made"]]
    /\ Goto("move")
    /\ UNCHANGED <<disk, journal, owned, pending>>

(* A name that vanished meanwhile needs no move; the directory still goes.  *)
MovePrivate ==
    /\ pc = "move"
    /\ entry' = [entry EXCEPT ![Doomed] = None]
    /\ priv' = [priv EXCEPT ![Doomed].held = entry[Doomed]]
    /\ Goto("unlink")
    /\ UNCHANGED <<marker, db>>

UnlinkPrivate ==
    /\ pc = "unlink"
    /\ IF priv[Doomed].held \in Head(discards).allowed \cup {None}
       THEN /\ priv' = [priv EXCEPT ![Doomed].held = None]
            /\ Goto("mark")
            /\ UNCHANGED <<marker, entry, db>>
       ELSE Fail

MarkPrivate ==
    /\ pc = "mark"
    /\ meta' = [meta EXCEPT ![Doomed] = [ino |-> priv[Doomed].ino, stage |-> "removing"]]
    /\ Goto("rmdir")
    /\ UNCHANGED <<disk, journal, owned, pending>>

RemovePrivate ==
    /\ pc = "rmdir"
    /\ priv' = [priv EXCEPT ![Doomed] = None]
    /\ Goto("unrecord")
    /\ UNCHANGED <<marker, entry, db>>

(* After an adopted directory the name itself is still to be looked at.     *)
ForgetPrivate ==
    /\ pc = "unrecord"
    /\ meta' = [meta EXCEPT ![Doomed] = None]
    /\ IF made THEN NextDiscard ELSE Goto("named")
    /\ UNCHANGED <<disk, journal, owned, pending>>

-----------------------------------------------------------------------------
(* Acknowledgement and verification.                                       *)

Observe ==
    /\ pc = "observe"
    /\ IF marker = "owned" /\ (op.kind = "prepare" \/ entry[op.path] = op.target)
       THEN Goto("commit") /\ UNCHANGED <<disk, db>>
       ELSE Fail

Commit ==
    /\ pc = "commit"
    /\ owned' = IF op.kind = "prepare" THEN owned ELSE [owned EXCEPT ![op.path] = op.target]
    /\ pending' = (pending \/ op.kind \in {"create", "replace", "remove"})
    /\ journal' = {r \in journal : r.id # op.id}
    /\ Goto(IF mode = "apply" THEN "next" ELSE "recover")
    /\ UNCHANGED <<disk, meta>>

(* Every mapping has its link and its ledger row, nothing else is owned.    *)
Healthy ==
    /\ marker = "owned" /\ journal = {}
    /\ \A p \in Paths :
          IF want[p] = None THEN owned[p] = None
          ELSE src[want[p]] = "ok" /\ owned[p] = want[p] /\ entry[p] = want[p]

Verify ==
    /\ pc = "verify"
    /\ IF Healthy THEN Goto("notify") /\ UNCHANGED <<disk, db>> ELSE Fail

Notify ==
    /\ pc = "notify"
    /\ pending' = FALSE
    /\ Stop
    /\ UNCHANGED <<disk, journal, owned, meta>>

(* recover_publications, before notifications are sent.                     *)
Reverify ==
    /\ pc = "idle" /\ pending
    /\ pc' = "verify" /\ mode' = "apply"
    /\ UNCHANGED <<disk, db, op, todo, discards, after, made>>

Step ==
    \/ Begin \/ Applied \/ RecoverRow \/ Recovered \/ Cancel
    \/ Claim \/ WriteMarker \/ PublishedBefore \/ ResumeDisplaced \/ StartLink
    \/ Symlink \/ Stage \/ CheckLeaf \/ ExchangeLeaf \/ VerifyExchanged \/ SwapBack
    \/ Displace \/ VerifyDisplaced \/ Restore \/ Publish \/ StartRemoval \/ Disowned
    \/ OpenPrivate \/ Discarded \/ MakePrivate \/ RecordPrivate \/ MovePrivate
    \/ UnlinkPrivate \/ MarkPrivate \/ RemovePrivate \/ ForgetPrivate
    \/ Observe \/ Commit \/ Verify \/ Notify

Command == Apply \/ Recover \/ Reverify

Publisher == (Command \/ Step) /\ UNCHANGED <<intent, history>>

(* A crash, an interruption, an I/O error: the journal row stays.           *)
Crash ==
    /\ pc # "idle"
    /\ pc' = "idle" /\ mode' = "crashed" /\ op' = None /\ todo' = {}
    /\ discards' = <<>> /\ after' = "observe" /\ made' = FALSE
    /\ UNCHANGED <<disk, db, intent, history>>

-----------------------------------------------------------------------------
(* What changes the plan: mappings need the writer lock and a journal with  *)
(* nothing in it, scans need the lock, files change at any time.            *)

Remap ==
    /\ pc = "idle" /\ journal = {}
    /\ \E p \in Paths, t \in Targets \cup {None} : want' = [want EXCEPT ![p] = t]
    /\ UNCHANGED <<disk, db, exchange, src, pc, local, history>>

(* A new version of a linked source is a new generation to verify.          *)
Scan ==
    /\ pc = "idle"
    /\ \E t \in Targets, s \in {"ok", "missing"} :
          /\ src' = [src EXCEPT ![t] = s]
          /\ \/ pending' = pending
             \/ /\ src[t] = "changed" /\ s = "ok"
                /\ \E p \in Paths : want[p] = t /\ owned[p] # None
                /\ pending' = TRUE
    /\ UNCHANGED <<disk, journal, owned, meta, exchange, want, pc, local, history>>

SourceChanges ==
    /\ \E t \in Targets : src' = [src EXCEPT ![t] = "changed"]
    /\ UNCHANGED <<disk, db, exchange, want, pc, local, history>>

-----------------------------------------------------------------------------
(* Others in the output.  They leave alone what is inside a private         *)
(* directory of ours; the operator removes, between commands, a directory   *)
(* or marker that recovery refuses and takes retained entries out.          *)

Touchable(p) == {p} \cup UNION {{Temporary(r.id), Quarantine(r.id)} :
                                r \in {o \in journal : o.path = p}}

Others == writes < MaxWrites /\ writes' = writes + 1

OtherWrites ==
    /\ Others
    /\ \E p \in Paths : \E n \in Touchable(p) : \E e \in {None} \cup Targets \cup (Foreigns \ alive) :
          /\ entry' = [entry EXCEPT ![n] = e]
          /\ alive' = (alive \ {entry[n]}) \cup ({e} \cap Foreigns)
          /\ touched' = touched \cup {p}
    /\ UNCHANGED <<marker, priv, db, intent, pc, local>>

OtherMakesDirectory ==
    /\ Others
    /\ \E p \in Paths : \E n \in Touchable(p) \ {p}, i \in FreeInodes,
          e \in {None} \cup Targets \cup (Foreigns \ alive) :
          /\ priv[n] = None
          /\ priv' = [priv EXCEPT ![n] = [ino |-> i, held |-> e, by |-> "other"]]
          /\ alive' = alive \cup ({e} \cap Foreigns)
          /\ touched' = touched \cup {p}
    /\ UNCHANGED <<marker, entry, db, intent, pc, local>>

OtherRemovesMarker ==
    /\ Others /\ marker = "owned"
    /\ marker' = "absent"
    /\ UNCHANGED <<entry, priv, db, intent, pc, local, alive, touched>>

Refused(n) == meta[n] # None => meta[n].stage = "removing"

OperatorClears ==
    /\ pc = "idle"
    /\ \/ marker = "partial" /\ marker' = "absent" /\ UNCHANGED <<priv, alive>>
       \/ \E n \in Private :
             /\ priv[n] # None
             /\ Refused(n)
             /\ priv' = [priv EXCEPT ![n] = None]
             /\ alive' = alive \ {priv[n].held}
             /\ UNCHANGED marker
       \/ \E n \in Private :
             /\ priv[n] # None /\ priv[n].held \in Foreigns
             /\ priv' = [priv EXCEPT ![n].held = None]
             /\ alive' = alive \ {priv[n].held}
             /\ UNCHANGED marker
    /\ UNCHANGED <<entry, db, intent, pc, local, writes, touched>>

Environment ==
    \/ Crash \/ Remap \/ Scan \/ SourceChanges
    \/ OtherWrites \/ OtherMakesDirectory \/ OtherRemovesMarker

Next == Publisher \/ Environment \/ OperatorClears

Spec == Init /\ [][Next]_vars

(* The refresh worker comes back to a catalog until it is healthy: recover  *)
(* when rows are left, then apply (catalog_refresh run, with backoff); the  *)
(* operator clears what recovery names.                                     *)
Fairness ==
    /\ WF_vars(Step /\ UNCHANGED <<intent, history>>)
    /\ SF_vars(Apply /\ UNCHANGED <<intent, history>>)
    /\ SF_vars(Recover /\ journal # {} /\ UNCHANGED <<intent, history>>)
    /\ SF_vars(OperatorClears)

FairSpec == Spec /\ Fairness

-----------------------------------------------------------------------------
Kinds == {"prepare", "create", "replace", "remove", "forget"}

Actions == [kind : Kinds, path : Paths \cup {None},
            target : Targets \cup {None}, previous : Targets \cup {None}]

Rows == [id : Ids, kind : Kinds, path : Paths \cup {None},
         target : Targets \cup {None}, previous : Targets \cup {None}]

Entries == {None} \cup Targets \cup Foreigns

Directories == [ino : Inodes, held : Entries, by : {"us", "other"}]

Records == [ino : Inodes, stage : {"made", "removing"}]

(* What the readers of the tree are told of an operation.                   *)
Moves == [path : Paths, from : Targets \cup {None}, to : Targets \cup {None}]

ASSUME NoneAssumption == None \notin Directories \cup Records \cup Rows \cup Moves

Labels == {"idle", "next", "recover", "execute", "cancel", "claim", "symlink", "stage",
           "resume", "check", "exchange", "exchanged", "swap back", "displace",
           "displaced", "restore", "publish", "discard", "named", "record", "move",
           "unlink", "mark", "rmdir", "unrecord", "observe", "commit", "verify", "notify"}

(* Every value is one the code can hold: rows name a kind, a path and        *)
(* targets, and only names of the catalog's own links may be deleted.        *)
TypeOK ==
    /\ marker \in {"absent", "partial", "owned"}
    /\ entry \in [Names -> Entries]
    /\ priv \in [Private -> {None} \cup Directories]
    /\ journal \subseteq Rows
    /\ owned \in [Paths -> Targets \cup {None}]
    /\ meta \in [Private -> {None} \cup Records]
    /\ pending \in BOOLEAN /\ exchange \in BOOLEAN
    /\ want \in [Paths -> Targets \cup {None}]
    /\ src \in [Targets -> {"ok", "missing", "changed"}]
    /\ pc \in Labels /\ mode \in {"apply", "recover", "crashed"}
    /\ op \in Rows \cup {None} /\ todo \subseteq Actions
    /\ discards \in Seq([name : Private, allowed : SUBSET (Targets \cup {None})])
    /\ after \in {"observe", "cancel"} /\ made \in BOOLEAN
    /\ alive \subseteq Foreigns /\ writes \in 0..MaxWrites /\ touched \subseteq Paths

(* "Replace and remove never destroy an unverified entry": whatever another  *)
(* writer put in the output, at any moment, is there until he removes it.    *)
ForeignKept ==
    \A f \in alive :
        \/ \E n \in Names : entry[n] = f
        \/ \E n \in Private : priv[n] # None /\ priv[n].held = f

(* A directory that this operation did not make is never entered, emptied or *)
(* removed, whatever its name and whatever inode the filesystem gave it.     *)
SquattersUntouched ==
    [][Publisher => \A n \in Private :
        priv[n] # None /\ priv[n].by = "other" => priv'[n] = priv[n]]_vars

(* An output has at most one operation that is begun and not acknowledged,   *)
(* so recovery never has to order the effects of two.                        *)
OneOutstanding == \A r, o \in journal : r = o

Journaled(p) == \E o \in journal : o.path = p

(* Where nobody else wrote and no operation is outstanding, the ledger of    *)
(* owned links and the tree agree, after any crashes and recoveries.         *)
LedgerMatchesTree ==
    \A p \in Paths \ touched : ~Journaled(p) => entry[p] = owned[p]

(* Once the last operation is settled nothing is left under a private name.  *)
(* (Without an exchange a directory may be: see README.)                     *)
NoLeftovers ==
    exchange /\ journal = {} /\ touched = {} =>
        \A n \in Private : entry[n] = None /\ priv[n] = None /\ meta[n] = None

(* With an exchange, a path that shows a link shows one at every moment,     *)
(* but for removals: a media server never misses a replaced item.            *)
ReplacedAtOnce ==
    [][Publisher /\ exchange => \A p \in Paths :
        entry[p] # None /\ entry'[p] = None => op.kind = "remove"]_vars

(* A row that a crash delayed does not make a link to a source that a scan   *)
(* has found missing since.                                                  *)
NoDeadLinks ==
    [][Publisher => \A p \in Paths \ touched :
        entry[p] # entry'[p] /\ op # None /\ entry'[p] = op.target /\ entry'[p] # None
            => src[op.target] # "missing"]_vars

(* Every operation is atomic to the readers of the tree and its ledger,      *)
(* whatever crashes: a displaced link counts as shown until its successor    *)
(* is.                                                                       *)
Shown == [p \in Paths |->
    IF \E o \in journal : o.path = p /\ Displaced(o)
    THEN (CHOOSE o \in journal : o.path = p /\ Displaced(o)).previous
    ELSE entry[p]]

Outstanding ==
    IF \E o \in journal : o.kind # "prepare"
    THEN LET o == CHOOSE r \in journal : r.kind # "prepare" IN
         [path |-> o.path, from |-> o.previous, to |-> o.target]
    ELSE None

Tree == INSTANCE PublishedTree WITH shown <- Shown, ledger <- owned, change <- Outstanding

AtomicTree == Tree!Spec

Converged ==
    /\ journal = {} /\ marker = "owned" /\ ~pending
    /\ \A p \in Paths : entry[p] = want[p] /\ owned[p] = want[p]

(* When nobody else writes to the output and crashes, remappings and changes *)
(* of files have ended with every source there, the output becomes what the *)
(* mappings ask for and stays so.                                            *)
(* (With an exchange: without, a leftover may use up a journal id, and the   *)
(* model has few.)                                                           *)
Converges ==
    exchange /\ [](writes = 0) /\ <>[][~Environment]_vars
        /\ <>[](\A p \in Paths : want[p] # None => src[want[p]] = "ok")
        => <>[]Converged
=============================================================================
