---------------------- MODULE SymlinkPublicationProofs ----------------------
(***************************************************************************)
(* What SymlinkPublication promises for every set of paths, sources, ids    *)
(* and writers, with or without an exchange of names: types, one operation  *)
(* at a time, and that whatever others put into the output survives every   *)
(* step, crash and recovery.                                                *)
(***************************************************************************)
EXTENDS SymlinkPublication, SequenceTheorems, TLAPS

(* Labels at which an operation is carried out, those of operations on a    *)
(* path, those of a deletion and those at which its directory exists.       *)
Working == Labels \ {"idle", "next", "recover", "verify", "notify"}

OnPath == {"symlink", "stage", "resume", "check", "exchange", "exchanged", "swap back",
           "displace", "displaced", "restore", "publish"}

Deleting == {"named", "record", "move", "unlink", "mark", "rmdir", "unrecord"}

Inside == {"record", "move", "unlink", "mark", "rmdir"}

(* Only an action that claims the output has no path.                       *)
Shape ==
    /\ \A r \in journal : r.kind # "prepare" => r.path \in Paths
    /\ \A a \in todo : a.kind # "prepare" => a.path \in Paths
    /\ pc \in Working => op \in journal
    /\ pc \in OnPath => op.kind # "prepare"
    /\ pc \in Deleting => discards # <<>>
    /\ pc \in Inside => priv[Doomed] # None

TypeInv == TypeOK /\ Shape

(* Apply begins a row only when there is none, and what is carried out is   *)
(* the row.                                                                 *)
OneInv == OneOutstanding /\ (pc = "next" => journal = {})

(* A record that allows to act on a directory is of a directory we made.    *)
Ours ==
    \A n \in Private, i \in Inodes :
        meta[n] = [ino |-> i, stage |-> "made"] => priv[n] # None /\ priv[n].by = "us"

(* The directory of the deletion under way is ours, empty before the move   *)
(* and after the deletion, and given up before it is removed.               *)
Held ==
    /\ pc \in Inside => priv[Doomed].by = "us"
    /\ pc \in {"record", "move", "mark", "rmdir"} => priv[Doomed].held = None
    /\ pc = "rmdir" => meta[Doomed].stage = "removing"

WriterInv == Ours /\ Held

Deletions == Seq([name : Private, allowed : SUBSET (Targets \cup {None})])

-----------------------------------------------------------------------------
(* Names of an operation are private, and differ from each other and from   *)
(* every path.                                                              *)
LEMMA NameTypes ==
    /\ Private \subseteq Names /\ Paths \subseteq Names
    /\ \A id \in Ids : Temporary(id) \in Private /\ Quarantine(id) \in Private
    /\ \A id, other \in Ids : Temporary(id) # Quarantine(other)
    /\ \A p \in Paths : p \notin Private
  BY NamesAssumption DEF Names, Private, Temporary, Quarantine

(* What a row says has the types of a row.                                  *)
LEMMA OpType ==
    ASSUME TypeInv, pc \in Working
    PROVE  /\ op \in journal /\ op \in Rows
           /\ op.id \in Ids /\ op.kind \in Kinds
           /\ op.target \in Targets \cup {None} /\ op.previous \in Targets \cup {None}
           /\ op.target \in Entries /\ op.previous \in Entries
           /\ op.kind # "prepare" => op.path \in Paths
           /\ pc \in OnPath => op.path \in Paths
  BY DEF TypeInv, TypeOK, Shape, Rows, Entries

(* A deletion under way has a private name and allows links only.           *)
LEMMA DoomedType ==
    ASSUME TypeInv, pc \in Deleting \/ (pc = "discard" /\ discards # <<>>)
    PROVE  /\ Doomed \in Private /\ Doomed \in Names
           /\ Head(discards).allowed \subseteq Targets \cup {None}
           /\ Tail(discards) \in Deletions
  <1>1. discards \in Deletions /\ discards # <<>>
    BY DEF TypeInv, TypeOK, Shape, Deletions
  <1>2. /\ Head(discards) \in [name : Private, allowed : SUBSET (Targets \cup {None})]
        /\ Tail(discards) \in Deletions
    BY <1>1, HeadTailProperties DEF Deletions
  <1>3. QED
    BY <1>2, NameTypes DEF Doomed

(* A list of one or of two deletions.                                       *)
LEMMA ListTypes ==
    ASSUME NEW n \in Private, NEW A \in SUBSET (Targets \cup {None}),
           NEW k \in Private, NEW B \in SUBSET (Targets \cup {None})
    PROVE  /\ <<[name |-> n, allowed |-> A]>> \in Deletions
           /\ <<[name |-> n, allowed |-> A], [name |-> k, allowed |-> B]>> \in Deletions
  BY DEF Deletions

LEMMA NoDeletions == <<>> \in Deletions
  BY DEF Deletions

(* The plan is made of well-typed actions.                                  *)
LEMMA DeltaType ==
    ASSUME TypeOK
    PROVE  Delta \subseteq Actions /\ \A a \in Delta : a.kind # "prepare" => a.path \in Paths
  <1>1. \A p \in Paths : Desired(p) \in Targets \cup {None} /\ owned[p] \in Targets \cup {None}
    BY DEF TypeOK, Desired
  <1>2. \A p \in Paths : Kind(p) # "unchanged" => Kind(p) \in Kinds
    BY DEF Kind, Kinds
  <1>3. \A p \in Paths : /\ Change(p).kind # "unchanged" => Change(p) \in Actions
                         /\ Change(p).path \in Paths
    BY <1>1, <1>2 DEF Change, Actions
  <1>4. Prepare \in Actions /\ Prepare.kind = "prepare"
    BY DEF Prepare, Actions, Kinds
  <1>5. QED
    BY <1>3, <1>4 DEF Delta

(* Writing an entry leaves a table of entries.                              *)
LEMMA EntryType ==
    ASSUME TypeOK, NEW n, NEW e \in Entries
    PROVE  [entry EXCEPT ![n] = e] \in [Names -> Entries]
  BY DEF TypeOK

LEMMA RenamedType ==
    ASSUME TypeOK, NEW n \in Names, NEW k \in Names
    PROVE  Renamed(n, k) \in [Names -> Entries]
  BY DEF TypeOK, Renamed, Entries

-----------------------------------------------------------------------------
(* What disk and database hold, the journal apart.                          *)
Stored ==
    /\ marker \in {"absent", "partial", "owned"}
    /\ entry \in [Names -> Entries]
    /\ priv \in [Private -> {None} \cup Directories]
    /\ owned \in [Paths -> Targets \cup {None}]
    /\ meta \in [Private -> {None} \cup Records]
    /\ pending \in BOOLEAN

LEMMA StoredSame ==
    ASSUME TypeInv, UNCHANGED <<disk, db>>
    PROVE  Stored' /\ journal' = journal /\ priv' = priv
  BY DEF TypeInv, TypeOK, Stored, disk, db

(* A command that ends keeps the types.                                     *)
LEMMA StopInv ==
    ASSUME TypeInv, Stop, Stored', journal' = journal, UNCHANGED <<intent, history>>
    PROVE  TypeInv'
  <1>1. TypeOK'
    BY NoDeletions DEF TypeInv, TypeOK, Stored, Stop, intent, history, Labels, Deletions
  <1>2. Shape'
    BY DEF TypeInv, Shape, Stop, Working, OnPath, Deleting, Inside, Labels
  <1>3. QED
    BY <1>1, <1>2 DEF TypeInv

LEMMA FailInv ==
    ASSUME TypeInv, Fail, UNCHANGED <<intent, history>>
    PROVE  TypeInv'
  BY StopInv, StoredSame DEF Fail

(* So does a step of the operation under way.                               *)
LEMMA GotoInv ==
    ASSUME TypeInv, NEW l \in Working, Goto(l), Stored', journal' = journal,
           UNCHANGED <<intent, history>>, pc \in Working,
           l \in OnPath => op.kind # "prepare",
           l \in Deleting => discards # <<>>,
           l \in Inside => priv'[Doomed] # None
    PROVE  TypeInv'
  <1>1. TypeOK'
    BY DEF TypeInv, TypeOK, Stored, Goto, local, intent, history, Working
  <1>2. Shape'
    BY DEF TypeInv, Shape, Goto, local, Doomed
  <1>3. QED
    BY <1>1, <1>2 DEF TypeInv

LEMMA DiscardInv ==
    ASSUME TypeInv, NEW list \in Deletions, NEW then \in {"observe", "cancel"},
           Discard(list, then), Stored', journal' = journal,
           UNCHANGED <<intent, history>>, pc \in Working
    PROVE  TypeInv'
  <1>1. TypeOK'
    BY DEF TypeInv, TypeOK, Stored, Discard, intent, history, Labels, Deletions
  <1>2. Shape'
    BY DEF TypeInv, Shape, Discard, OnPath, Deleting, Inside
  <1>3. QED
    BY <1>1, <1>2 DEF TypeInv

-----------------------------------------------------------------------------
(* Every step of the publisher keeps the types: commands and the journal.   *)
LEMMA TypeCommand ==
    ASSUME TypeInv, UNCHANGED <<intent, history>>,
           Command \/ Begin \/ Applied \/ RecoverRow \/ Recovered \/ Cancel
    PROVE  TypeInv'
  <1> USE DEF TypeInv
  <1>1. CASE Apply
    <2>1. TypeOK'
      BY <1>1, DeltaType DEF Apply, TypeOK, disk, db, intent, history, Labels
    <2>2. Shape'
      BY <1>1, DeltaType
      DEF Apply, TypeOK, Shape, disk, db, Working, OnPath, Deleting, Inside
    <2>3. QED BY <2>1, <2>2
  <1>2. CASE Recover \/ Reverify
    <2>1. TypeOK'
      BY <1>2 DEF Recover, Reverify, TypeOK, disk, db, intent, history, Labels
    <2>2. Shape'
      BY <1>2 DEF Recover, Reverify, Shape, disk, db, Working, OnPath, Deleting, Inside
    <2>3. QED BY <2>1, <2>2
  <1>3. CASE Begin
    <2>1. PICK a \in todo, id \in Ids :
             /\ op' = [id |-> id, kind |-> a.kind, path |-> a.path,
                       target |-> a.target, previous |-> a.previous]
             /\ journal' = journal \cup {op'}
             /\ todo' = todo \ {a}
      BY <1>3 DEF Begin
    <2>2. /\ a \in Actions
          /\ a.kind # "prepare" => a.path \in Paths
      BY DEF TypeOK, Shape
    <2>3. op' \in Rows /\ (op'.kind # "prepare" => op'.path \in Paths)
      BY <2>1, <2>2 DEF Rows, Actions
    <2>4. TypeOK'
      BY <1>3, <2>1, <2>3 DEF Begin, TypeOK, disk, intent, history, Labels
    <2>5. Shape'
      BY <1>3, <2>1, <2>3 DEF Begin, Shape, disk, Working, OnPath, Deleting, Inside
    <2>6. QED BY <2>4, <2>5
  <1>4. CASE Applied \/ Recovered
    <2>1. TypeOK'
      BY <1>4 DEF Applied, Recovered, Goto, TypeOK, disk, db, local, intent, history, Labels
    <2>2. Shape'
      BY <1>4 DEF Applied, Recovered, Goto, Shape, disk, db, local, Working, OnPath, Deleting, Inside
    <2>3. QED BY <2>1, <2>2
  <1>5. CASE RecoverRow
    <2>1. PICK o \in journal :
             \/ Fail
             \/ /\ pc' \in {"execute", "cancel"} /\ op' = o
                /\ UNCHANGED <<disk, db, mode, todo, discards, after, made>>
             \/ /\ pc' = "discard" /\ op' = o /\ after' = "cancel"
                /\ discards' = <<[name |-> Temporary(o.id), allowed |-> {o.target}]>>
                /\ UNCHANGED <<disk, db, mode, todo, made>>
      BY <1>5 DEF RecoverRow
    <2>2. o \in Rows /\ o.id \in Ids /\ {o.target} \in SUBSET (Targets \cup {None})
      BY DEF TypeOK, Rows
    <2>3. <<[name |-> Temporary(o.id), allowed |-> {o.target}]>> \in Deletions
      BY <2>2, NameTypes, ListTypes
    <2>4. CASE Fail
      BY <2>4, FailInv
    <2>5. CASE ~Fail
      <3>1. TypeOK'
        BY <2>1, <2>2, <2>3, <2>5 DEF TypeOK, disk, db, intent, history, Labels, Deletions
      <3>2. Shape'
        BY <2>1, <2>5 DEF Shape, disk, db, Working, OnPath, Deleting, Inside
      <3>3. QED BY <3>1, <3>2
    <2>6. QED BY <2>4, <2>5
  <1>6. CASE Cancel
    <2>1. TypeOK'
      BY <1>6 DEF Cancel, Goto, TypeOK, disk, local, intent, history, Labels
    <2>2. Shape'
      BY <1>6 DEF Cancel, Goto, Shape, disk, local, Working, OnPath, Deleting, Inside
    <2>3. QED BY <2>1, <2>2
  <1>7. QED
    BY <1>1, <1>2, <1>3, <1>4, <1>5, <1>6 DEF Command

(* Claiming, creating and replacing.                                        *)
LEMMA TypeReplace ==
    ASSUME TypeInv, UNCHANGED <<intent, history>>,
           \/ Claim \/ WriteMarker \/ PublishedBefore \/ ResumeDisplaced \/ StartLink
           \/ Symlink \/ Stage \/ CheckLeaf \/ ExchangeLeaf \/ VerifyExchanged \/ SwapBack
           \/ Displace \/ VerifyDisplaced \/ Restore \/ Publish \/ StartRemoval \/ Disowned
    PROVE  TypeInv'
  <1> DEFINE Same == UNCHANGED <<disk, db>>
  <1>1. /\ op.id \in Ids
        /\ op.target \in Targets \cup {None} /\ op.previous \in Targets \cup {None}
        /\ op.target \in Entries /\ op.previous \in Entries
        /\ op.kind # "prepare" => op.path \in Names
        /\ pc \in OnPath => op.path \in Names
        /\ Temporary(op.id) \in Private /\ Temporary(op.id) \in Names
        /\ Quarantine(op.id) \in Private /\ Quarantine(op.id) \in Names
        /\ pc \in Working
    <2>1. pc \in Working
      BY DEF Claim, WriteMarker, PublishedBefore, ResumeDisplaced, StartLink, Symlink, Stage,
             CheckLeaf, ExchangeLeaf, VerifyExchanged, SwapBack, Displace, VerifyDisplaced,
             Restore, Publish, StartRemoval, Disowned, Working, Labels
    <2>2. QED BY <2>1, OpType, NameTypes
  <1>2. \A l : l \in {"observe", "claim", "resume", "restore", "symlink", "stage", "publish",
                      "check", "exchange", "displace", "exchanged", "swap back", "displaced"}
               => l \in Working /\ l \notin Deleting /\ l \notin Inside
    BY DEF Working, Labels, Deleting, Inside
  <1>3. Same => Stored' /\ journal' = journal
    BY StoredSame
  <1>4. \A e \in [Names -> Entries] : entry' = e /\ UNCHANGED <<marker, priv, db>>
                                        => Stored' /\ journal' = journal
    BY DEF TypeInv, TypeOK, Stored, db
  <1>5. CASE Claim \/ WriteMarker
    <2>1. CASE Fail
      BY <2>1, FailInv
    <2>2. CASE ~Fail
      <3>1. Stored' /\ journal' = journal
        BY <1>5, <2>2, <1>3 DEF Claim, WriteMarker, TypeInv, TypeOK, Stored, db
      <3>2. \E l \in {"observe", "claim"} : Goto(l)
        BY <1>5, <2>2 DEF Claim, WriteMarker
      <3>3. QED
        BY <3>1, <3>2, <1>1, <1>2, GotoInv DEF OnPath
    <2>3. QED BY <2>1, <2>2
  <1>6. CASE PublishedBefore
    <2>1. Stored' /\ journal' = journal
      BY <1>6, <1>3 DEF PublishedBefore
    <2>2. <<[name |-> Temporary(op.id), allowed |-> {op.previous, op.target}],
            [name |-> Quarantine(op.id), allowed |-> {op.previous}]>> \in Deletions
      BY <1>1, ListTypes
    <2>3. QED
      BY <1>6, <1>1, <1>2, <2>1, <2>2, GotoInv, DiscardInv DEF PublishedBefore, OnPath
  <1>7. CASE ResumeDisplaced \/ StartLink \/ CheckLeaf \/ Disowned
    <2>1. CASE Fail
      BY <2>1, FailInv
    <2>2. CASE ~Fail
      <3>1. Stored' /\ journal' = journal
        BY <1>7, <2>2, <1>3 DEF ResumeDisplaced, StartLink, CheckLeaf, Disowned
      <3>2. op.kind # "prepare"
        BY <1>7, <2>2 DEF ResumeDisplaced, StartLink, CheckLeaf, Disowned, Displaced,
                          TypeInv, Shape, OnPath
      <3>3. \E l \in {"resume", "restore", "symlink", "stage", "exchange", "displace"} : Goto(l)
        BY <1>7, <2>2 DEF ResumeDisplaced, StartLink, CheckLeaf, Disowned
      <3>4. QED
        BY <3>1, <3>2, <3>3, <1>1, <1>2, GotoInv
    <2>3. QED BY <2>1, <2>2
  <1>8. CASE Symlink \/ Stage
    <2>1. CASE Fail
      BY <2>1, FailInv
    <2>2. CASE ~Fail
      <3>1. Stored' /\ journal' = journal
        BY <1>8, <2>2, <1>1, <1>4, EntryType DEF Symlink, Stage, TypeInv
      <3>2. op.kind # "prepare"
        BY <1>8 DEF Symlink, Stage, TypeInv, Shape, OnPath
      <3>3. \E l \in {"observe", "publish", "check"} : Goto(l)
        BY <1>8, <2>2 DEF Symlink, Stage
      <3>4. QED
        BY <3>1, <3>2, <3>3, <1>1, <1>2, GotoInv
    <2>3. QED BY <2>1, <2>2
  <1>9. CASE ExchangeLeaf \/ SwapBack
    <2>1. CASE Fail
      BY <2>1, FailInv
    <2>2. CASE ~Fail
      <3>1. pc \in OnPath /\ op.kind # "prepare" /\ op.path \in Names
        BY <1>9, <1>1 DEF ExchangeLeaf, SwapBack, TypeInv, Shape, OnPath
      <3>2. Swapped \in [Names -> Entries]
        BY <3>1, <1>1 DEF Swapped, TypeInv, TypeOK
      <3>3. Stored' /\ journal' = journal
        BY <1>9, <2>2, <3>2, <1>4 DEF ExchangeLeaf, SwapBack, Swap
      <3>4. Goto("exchanged") \/ Stop
        BY <1>9, <2>2 DEF ExchangeLeaf, SwapBack, Swap
      <3>5. QED
        BY <3>1, <3>3, <3>4, <1>1, <1>2, GotoInv, StopInv
    <2>3. QED BY <2>1, <2>2
  <1>10. CASE VerifyExchanged \/ VerifyDisplaced
    <2>1. Stored' /\ journal' = journal
      BY <1>10, <1>3 DEF VerifyExchanged, VerifyDisplaced
    <2>2. /\ <<[name |-> Temporary(op.id), allowed |-> {op.previous}]>> \in Deletions
          /\ <<[name |-> Quarantine(op.id), allowed |-> {op.previous}]>> \in Deletions
      BY <1>1, ListTypes
    <2>3. op.kind # "prepare"
      BY <1>10 DEF VerifyExchanged, VerifyDisplaced, TypeInv, Shape, OnPath
    <2>4. QED
      BY <1>10, <1>1, <1>2, <2>1, <2>2, <2>3, GotoInv, DiscardInv
      DEF VerifyExchanged, VerifyDisplaced
  <1>11. CASE Displace \/ Restore \/ Publish
    <2>1. CASE Fail
      BY <2>1, FailInv
    <2>2. CASE ~Fail
      <3>1. op.kind # "prepare" /\ op.path \in Names
        BY <1>11, <1>1 DEF Displace, Restore, Publish, TypeInv, Shape, OnPath
      <3>2. /\ Renamed(op.path, Quarantine(op.id)) \in [Names -> Entries]
            /\ Renamed(Quarantine(op.id), op.path) \in [Names -> Entries]
            /\ Renamed(Temporary(op.id), op.path) \in [Names -> Entries]
        BY <3>1, <1>1, RenamedType DEF TypeInv
      <3>3. Stored' /\ journal' = journal
        BY <1>11, <2>2, <3>2, <1>4 DEF Displace, Restore, Publish
      <3>4. <<[name |-> Quarantine(op.id), allowed |-> {op.previous}]>> \in Deletions
        BY <1>1, ListTypes
      <3>5. \/ Goto("displaced") \/ Stop
            \/ Discard(<<[name |-> Quarantine(op.id), allowed |-> {op.previous}]>>, "observe")
        BY <1>11, <2>2 DEF Displace, Restore, Publish
      <3>6. QED
        BY <3>1, <3>3, <3>4, <3>5, <1>1, <1>2, GotoInv, StopInv, DiscardInv
    <2>3. QED BY <2>1, <2>2
  <1>12. CASE StartRemoval
    <2>1. CASE Fail
      BY <2>1, FailInv
    <2>2. CASE ~Fail
      <3>1. Stored' /\ journal' = journal
        BY <1>12, <2>2, <1>3 DEF StartRemoval
      <3>2. <<[name |-> Quarantine(op.id), allowed |-> {op.previous}]>> \in Deletions
        BY <1>1, ListTypes
      <3>3. \/ Goto("check") \/ Goto("observe")
            \/ Discard(<<[name |-> Quarantine(op.id), allowed |-> {op.previous}]>>, "observe")
        BY <1>12, <2>2 DEF StartRemoval
      <3>4. op.kind # "prepare"
        BY <1>12 DEF StartRemoval
      <3>5. QED
        BY <3>1, <3>2, <3>3, <3>4, <1>1, <1>2, GotoInv, DiscardInv
    <2>3. QED BY <2>1, <2>2
  <1>13. QED
    BY <1>5, <1>6, <1>7, <1>8, <1>9, <1>10, <1>11, <1>12

(* Deleting a private entry.                                                *)
LEMMA TypeDelete ==
    ASSUME TypeInv, UNCHANGED <<intent, history>>,
           \/ OpenPrivate \/ Discarded \/ MakePrivate \/ RecordPrivate \/ MovePrivate
           \/ UnlinkPrivate \/ MarkPrivate \/ RemovePrivate \/ ForgetPrivate
    PROVE  TypeInv'
  <1>1. CASE Fail
    BY <1>1, FailInv
  <1>2. CASE Discarded
    <2>1. Stored' /\ journal' = journal
      BY <1>2, StoredSame DEF Discarded
    <2>2. after \in {"observe", "cancel"} /\ pc \in Working
      BY <1>2 DEF Discarded, TypeInv, TypeOK, Working, Labels
    <2>3. after \in Working /\ after \notin OnPath /\ after \notin Deleting /\ after \notin Inside
      BY <2>2 DEF Working, Labels, OnPath, Deleting, Inside
    <2>4. QED
      BY <1>2, <2>1, <2>2, <2>3, GotoInv DEF Discarded
  <1>3. CASE ~Fail /\ ~Discarded
    <2>1. pc \in Deleting \/ (pc = "discard" /\ discards # <<>>)
      BY <1>3 DEF OpenPrivate, MakePrivate, RecordPrivate, MovePrivate, UnlinkPrivate,
                  MarkPrivate, RemovePrivate, ForgetPrivate, Deleting
    <2>2. /\ Doomed \in Private /\ Doomed \in Names
          /\ Tail(discards) \in Deletions /\ discards # <<>>
      BY <2>1, DoomedType DEF TypeInv, Shape
    <2>3. pc \in Working
      BY <2>1 DEF Deleting, Working, Labels
    <2>4. pc \in Inside => priv[Doomed] \in Directories
      BY <2>2 DEF TypeInv, TypeOK, Shape
    <2>5. journal' = journal
      BY <1>3 DEF OpenPrivate, MakePrivate, RecordPrivate, MovePrivate, UnlinkPrivate,
                  MarkPrivate, RemovePrivate, ForgetPrivate, db
    <2>6. CASE OpenPrivate
      <3>1. Stored'
        BY <2>6, <1>3, <2>2 DEF OpenPrivate, TypeInv, TypeOK, Stored, disk, db
      <3>2. CASE Goto("named")
        BY <2>2, <2>3, <2>5, <3>1, <3>2, GotoInv DEF Working, Labels, OnPath, Deleting, Inside
      <3>3. CASE ~Goto("named")
        <4>1. /\ pc' = "unlink" /\ made' = FALSE /\ priv[Doomed] # None
              /\ UNCHANGED <<disk, db, mode, op, todo, discards, after>>
          BY <2>6, <1>3, <3>3 DEF OpenPrivate
        <4>2. TypeOK'
          BY <4>1, <3>1, <2>5 DEF TypeInv, TypeOK, Stored, intent, history, Labels
        <4>3. Shape'
          BY <4>1, <2>2, <2>3 DEF TypeInv, Shape, disk, db, Doomed, OnPath
        <4>4. QED BY <4>2, <4>3 DEF TypeInv
      <3>4. QED BY <3>2, <3>3
    <2>7. CASE MakePrivate
      <3>1. CASE entry[Doomed] = None
        <4>1. NextDiscard /\ UNCHANGED <<disk, db>>
          BY <2>7, <1>3, <3>1 DEF MakePrivate
        <4>2. TypeOK'
          BY <4>1, <2>2 DEF NextDiscard, TypeInv, TypeOK, disk, db, intent, history, Labels, Deletions
        <4>3. Shape'
          BY <4>1, <2>3 DEF NextDiscard, TypeInv, Shape, disk, db, OnPath, Deleting, Inside
        <4>4. QED BY <4>2, <4>3 DEF TypeInv
      <3>2. CASE entry[Doomed] # None
        <4>1. PICK i \in FreeInodes :
                 priv' = [priv EXCEPT ![Doomed] = [ino |-> i, held |-> None, by |-> "us"]]
          BY <2>7, <1>3, <3>2 DEF MakePrivate
        <4>2. /\ pc' = "record" /\ made' = TRUE
              /\ UNCHANGED <<marker, entry, db, mode, op, todo, discards, after>>
          BY <2>7, <1>3, <3>2 DEF MakePrivate
        <4>3. [ino |-> i, held |-> None, by |-> "us"] \in Directories
          BY DEF FreeInodes, Directories, Entries
        <4>4. priv' \in [Private -> {None} \cup Directories] /\ priv'[Doomed] # None
          BY <4>1, <4>3, <2>2, NoneAssumption DEF TypeInv, TypeOK
        <4>5. TypeOK'
          BY <4>2, <4>4 DEF TypeInv, TypeOK, db, intent, history, Labels
        <4>6. Shape'
          BY <4>2, <4>4, <2>2, <2>3 DEF TypeInv, Shape, db, Doomed, OnPath
        <4>7. QED BY <4>5, <4>6 DEF TypeInv
      <3>3. QED BY <3>1, <3>2
    <2>8. CASE RecordPrivate \/ MarkPrivate
      <3>1. pc \in Inside /\ priv[Doomed].ino \in Inodes
        BY <2>8, <2>4 DEF RecordPrivate, MarkPrivate, Inside, Directories
      <3>2. Stored' /\ priv' = priv
        BY <2>8, <3>1 DEF RecordPrivate, MarkPrivate, TypeInv, TypeOK, Stored, disk, Records
      <3>3. \E l \in {"move", "rmdir"} : Goto(l)
        BY <2>8 DEF RecordPrivate, MarkPrivate
      <3>4. QED
        BY <3>1, <3>2, <3>3, <2>2, <2>3, <2>4, <2>5, GotoInv, NoneAssumption
        DEF Working, Labels, OnPath, Deleting, Inside
    <2>9. CASE MovePrivate \/ UnlinkPrivate
      <3>1. pc \in Inside
        BY <2>9 DEF MovePrivate, UnlinkPrivate, Inside
      <3>2. PICK e \in Entries : priv' = [priv EXCEPT ![Doomed].held = e]
        BY <2>9, <1>3, <2>2 DEF MovePrivate, UnlinkPrivate, TypeInv, TypeOK, Entries
      <3>3. [priv[Doomed] EXCEPT !.held = e] \in Directories
        BY <3>1, <2>4 DEF Directories
      <3>4. priv' \in [Private -> {None} \cup Directories] /\ priv'[Doomed] # None
        BY <3>2, <3>3, <2>2, NoneAssumption DEF TypeInv, TypeOK
      <3>5. entry' \in [Names -> Entries]
        BY <2>9, <1>3, EntryType DEF MovePrivate, UnlinkPrivate, TypeInv, TypeOK, Entries
      <3>6. Stored'
        BY <2>9, <1>3, <3>4, <3>5 DEF MovePrivate, UnlinkPrivate, TypeInv, TypeOK, Stored, db
      <3>7. \E l \in {"unlink", "mark"} : Goto(l)
        BY <2>9, <1>3 DEF MovePrivate, UnlinkPrivate
      <3>8. QED
        BY <3>1, <3>4, <3>6, <3>7, <2>2, <2>3, <2>5, GotoInv
        DEF Working, Labels, OnPath, Deleting, Inside
    <2>10. CASE RemovePrivate
      <3>1. Stored'
        BY <2>10, <2>2 DEF RemovePrivate, TypeInv, TypeOK, Stored, db
      <3>2. QED
        BY <2>10, <3>1, <2>2, <2>3, <2>5, GotoInv
        DEF RemovePrivate, Working, Labels, OnPath, Deleting, Inside
    <2>11. CASE ForgetPrivate
      <3>1. Stored'
        BY <2>11, <2>2 DEF ForgetPrivate, TypeInv, TypeOK, Stored, disk
      <3>2. CASE made
        <4>1. NextDiscard /\ disk' = disk
          BY <2>11, <3>2 DEF ForgetPrivate
        <4>2. TypeOK'
          BY <4>1, <3>1, <2>2, <2>5
          DEF NextDiscard, TypeInv, TypeOK, Stored, intent, history, Labels, Deletions
        <4>3. Shape'
          BY <4>1, <2>3, <2>5 DEF NextDiscard, TypeInv, Shape, OnPath, Deleting, Inside
        <4>4. QED BY <4>2, <4>3 DEF TypeInv
      <3>3. CASE ~made
        BY <2>11, <3>3, <3>1, <2>2, <2>3, <2>5, GotoInv
        DEF ForgetPrivate, Working, Labels, OnPath, Deleting, Inside
      <3>4. QED BY <3>2, <3>3
    <2>12. QED
      BY <1>3, <2>6, <2>7, <2>8, <2>9, <2>10, <2>11
  <1>4. QED
    BY <1>1, <1>2, <1>3

(* Acknowledging and verifying.                                             *)
LEMMA TypeSettle ==
    ASSUME TypeInv, UNCHANGED <<intent, history>>, Observe \/ Commit \/ Verify \/ Notify
    PROVE  TypeInv'
  <1>1. CASE Fail
    BY <1>1, FailInv
  <1>2. CASE Observe /\ ~Fail
    <2>1. Goto("commit") /\ Stored' /\ journal' = journal
      BY <1>2, StoredSame DEF Observe
    <2>2. QED
      BY <1>2, <2>1, GotoInv DEF Observe, Working, Labels, OnPath, Deleting, Inside
  <1>3. CASE Commit
    <2>1. op \in journal /\ op.target \in Targets \cup {None}
      BY <1>3, OpType DEF Commit, Working, Labels
    <2>2. owned' \in [Paths -> Targets \cup {None}]
      BY <1>3, <2>1 DEF Commit, TypeInv, TypeOK
    <2>3. pending' \in BOOLEAN
      BY <1>3 DEF Commit
    <2>4. TypeOK'
      BY <1>3, <2>2, <2>3 DEF Commit, Goto, TypeInv, TypeOK, disk, local, intent, history, Labels
    <2>5. Shape'
      BY <1>3 DEF Commit, Goto, TypeInv, Shape, local, Working, OnPath, Deleting, Inside
    <2>6. QED BY <2>4, <2>5 DEF TypeInv
  <1>4. CASE Verify /\ ~Fail
    <2>1. TypeOK'
      BY <1>4 DEF Verify, Goto, TypeInv, TypeOK, disk, db, local, intent, history, Labels
    <2>2. Shape'
      BY <1>4 DEF Verify, Goto, TypeInv, Shape, disk, db, local, Working, OnPath, Deleting, Inside
    <2>3. QED BY <2>1, <2>2 DEF TypeInv
  <1>5. CASE Notify
    <2>1. Stored' /\ journal' = journal
      BY <1>5 DEF Notify, TypeInv, TypeOK, Stored, disk
    <2>2. QED BY <1>5, <2>1, StopInv DEF Notify
  <1>6. QED
    BY <1>1, <1>2, <1>3, <1>4, <1>5

(* What others and a crash do keeps the types.                              *)
LEMMA TouchableNames ==
    ASSUME TypeInv, NEW p \in Paths
    PROVE  Touchable(p) \subseteq Names /\ Touchable(p) \ {p} \subseteq Private
  BY NameTypes DEF Touchable, TypeInv, TypeOK, Rows

LEMMA TypeOthers ==
    ASSUME TypeInv, Environment \/ OperatorClears
    PROVE  TypeInv'
  <1> USE DEF TypeInv
  <1>1. CASE Crash
    <2>1. TypeOK'
      BY <1>1, NoDeletions DEF Crash, TypeOK, disk, db, intent, history, Labels, Deletions
    <2>2. Shape'
      BY <1>1 DEF Crash, Shape, disk, db, Working, OnPath, Deleting, Inside
    <2>3. QED BY <2>1, <2>2
  <1>2. CASE Remap \/ Scan \/ SourceChanges
    <2>1. want' \in [Paths -> Targets \cup {None}] /\ src' \in [Targets -> {"ok", "missing", "changed"}]
      BY <1>2 DEF Remap, Scan, SourceChanges, TypeOK
    <2>2. pending' \in BOOLEAN
      BY <1>2 DEF Remap, Scan, SourceChanges, TypeOK, db
    <2>3. TypeOK'
      BY <1>2, <2>1, <2>2 DEF Remap, Scan, SourceChanges, TypeOK, disk, db, local, history
    <2>4. Shape'
      BY <1>2 DEF Remap, Scan, SourceChanges, Shape, disk, db, local, Doomed
    <2>5. QED BY <2>3, <2>4
  <1>3. CASE OtherWrites
    <2>1. PICK p \in Paths : \E n \in Touchable(p), e \in Entries :
             /\ entry' = [entry EXCEPT ![n] = e]
             /\ alive' = (alive \ {entry[n]}) \cup ({e} \cap Foreigns)
             /\ touched' = touched \cup {p}
      BY <1>3 DEF OtherWrites, Entries
    <2>2. entry' \in [Names -> Entries] /\ alive' \subseteq Foreigns /\ touched' \subseteq Paths
      BY <2>1, EntryType DEF TypeOK
    <2>3. writes' \in 0 .. MaxWrites
      BY <1>3, BoundAssumption DEF OtherWrites, Others, TypeOK
    <2>4. TypeOK'
      BY <1>3, <2>2, <2>3 DEF OtherWrites, TypeOK, db, intent, local
    <2>5. Shape'
      BY <1>3 DEF OtherWrites, Shape, db, local, Doomed
    <2>6. QED BY <2>4, <2>5
  <1>4. CASE OtherMakesDirectory
    <2>1. PICK p \in Paths : \E n \in Touchable(p) \ {p}, i \in FreeInodes, e \in Entries :
             /\ priv[n] = None
             /\ priv' = [priv EXCEPT ![n] = [ino |-> i, held |-> e, by |-> "other"]]
             /\ alive' = alive \cup ({e} \cap Foreigns)
             /\ touched' = touched \cup {p}
      BY <1>4 DEF OtherMakesDirectory, Entries
    <2>2. PICK n \in Touchable(p) \ {p}, i \in FreeInodes, e \in Entries :
             /\ priv[n] = None
             /\ priv' = [priv EXCEPT ![n] = [ino |-> i, held |-> e, by |-> "other"]]
             /\ alive' = alive \cup ({e} \cap Foreigns)
             /\ touched' = touched \cup {p}
      BY <2>1
    <2>3. n \in Private /\ [ino |-> i, held |-> e, by |-> "other"] \in Directories
      BY TouchableNames DEF FreeInodes, Directories
    <2>10. priv' \in [Private -> {None} \cup Directories] /\ alive' \subseteq Foreigns /\ touched' \subseteq Paths
      BY <2>2, <2>3 DEF TypeOK
    <2>4. writes' \in 0 .. MaxWrites
      BY <1>4, BoundAssumption DEF OtherMakesDirectory, Others, TypeOK
    <2>5. TypeOK'
      BY <1>4, <2>10, <2>4 DEF OtherMakesDirectory, TypeOK, db, intent, local
    <2>6. \A k \in Private : priv[k] # None => priv'[k] # None
      BY <2>2, <2>3, NoneAssumption DEF TypeOK
    <2>7. pc \in Inside => Doomed \in Private
      BY DoomedType DEF Inside, Deleting
    <2>8. Shape'
      BY <1>4, <2>6, <2>7 DEF OtherMakesDirectory, Shape, db, local, Doomed
    <2>9. QED BY <2>5, <2>8
  <1>5. CASE OtherRemovesMarker
    <2>1. writes' \in 0 .. MaxWrites
      BY <1>5, BoundAssumption DEF OtherRemovesMarker, Others, TypeOK
    <2>2. TypeOK'
      BY <1>5, <2>1 DEF OtherRemovesMarker, TypeOK, db, intent, local
    <2>3. Shape'
      BY <1>5 DEF OtherRemovesMarker, Shape, db, local, Doomed
    <2>4. QED BY <2>2, <2>3
  <1>6. CASE OperatorClears
    <2>1. /\ marker' \in {"absent", "partial", "owned"}
          /\ priv' \in [Private -> {None} \cup Directories]
          /\ alive' \subseteq Foreigns
      BY <1>6 DEF OperatorClears, TypeOK, Directories, Entries
    <2>2. TypeOK'
      BY <1>6, <2>1 DEF OperatorClears, TypeOK, db, intent, local
    <2>3. Shape'
      BY <1>6 DEF OperatorClears, Shape, db, local, Working, OnPath, Deleting, Inside
    <2>4. QED BY <2>2, <2>3
  <1>7. QED
    BY <1>1, <1>2, <1>3, <1>4, <1>5, <1>6 DEF Environment

LEMMA TypeStep ==
    ASSUME TypeInv, [Next]_vars
    PROVE  TypeInv'
  <1>1. CASE UNCHANGED vars
    BY <1>1 DEF vars, disk, db, intent, local, history, TypeInv, TypeOK, Shape, Doomed
  <1>2. CASE Publisher
    BY <1>2, TypeCommand, TypeReplace, TypeDelete, TypeSettle DEF Publisher, Step, Command
  <1>3. CASE Environment \/ OperatorClears
    BY <1>3, TypeOthers
  <1>4. QED
    BY <1>1, <1>2, <1>3 DEF Next

LEMMA TypeInit ==
    ASSUME Init
    PROVE  TypeInv
  <1>1. TypeOK
    <2>1. discards \in Seq([name : Private, allowed : SUBSET (Targets \cup {None})])
      BY NoDeletions DEF Init, Deletions
    <2>2. writes \in 0 .. MaxWrites
      BY BoundAssumption DEF Init
    <2>3. /\ entry \in [Names -> Entries]
          /\ priv \in [Private -> {None} \cup Directories]
          /\ meta \in [Private -> {None} \cup Records]
      BY DEF Init, Entries
    <2>4. /\ owned \in [Paths -> Targets \cup {None}]
          /\ want \in [Paths -> Targets \cup {None}]
          /\ src \in [Targets -> {"ok", "missing", "changed"}]
      BY DEF Init
    <2>5. QED
      BY <2>1, <2>2, <2>3, <2>4 DEF Init, TypeOK, Labels
  <1>2. Shape
    BY DEF Init, Shape, Working, OnPath, Deleting, Inside
  <1>3. QED BY <1>1, <1>2 DEF TypeInv

(* Every variable holds what the code can hold, for every instance.         *)
THEOREM TypeCorrect == Spec => []TypeOK
  <1>1. Init => TypeInv
    BY TypeInit
  <1>2. TypeInv /\ [Next]_vars => TypeInv'
    BY TypeStep
  <1>3. TypeInv => TypeOK
    BY DEF TypeInv
  <1>4. QED
    BY <1>1, <1>2, <1>3, PTL DEF Spec

-----------------------------------------------------------------------------
(* One operation at a time.                                                 *)
LEMMA OneStep ==
    ASSUME TypeInv, OneInv, [Next]_vars
    PROVE  OneInv'
  <1>1. CASE journal' = journal /\ pc' # "next"
    BY <1>1 DEF OneInv, OneOutstanding
  <1>2. CASE Apply
    BY <1>2 DEF Apply, OneInv, OneOutstanding, db
  <1>3. CASE Begin
    BY <1>3 DEF Begin, OneInv, OneOutstanding
  <1>4. CASE Cancel \/ Commit
    <2>1. op \in journal
      BY <1>4, OpType DEF Cancel, Commit, Working, Labels
    <2>2. journal' = {}
      BY <1>4, <2>1 DEF Cancel, Commit, OneInv, OneOutstanding
    <2>3. QED
      BY <2>2 DEF OneInv, OneOutstanding
  <1>5. CASE UNCHANGED vars
    BY <1>5 DEF vars, db, OneInv, OneOutstanding
  <1>6. CASE Publisher /\ ~Apply /\ ~Begin /\ ~Cancel /\ ~Commit
    <2>1. CASE Recover \/ Reverify
      BY <2>1, <1>1 DEF Recover, Reverify, db
    <2>2. CASE Fail
      BY <2>2, <1>1 DEF Fail, Stop, db
    <2>3. CASE Step /\ ~Fail
      <3>1. CASE Applied \/ RecoverRow \/ Recovered \/ Claim \/ WriteMarker \/ PublishedBefore
        BY <3>1, <2>3, <1>1 DEF Applied, RecoverRow, Recovered, Claim, WriteMarker,
             PublishedBefore, Goto, Discard, db
      <3>2. CASE ResumeDisplaced \/ StartLink \/ Symlink \/ Stage \/ CheckLeaf \/ ExchangeLeaf
        BY <3>2, <2>3, <1>1 DEF ResumeDisplaced, StartLink, Symlink, Stage, CheckLeaf,
             ExchangeLeaf, Swap, Goto, db
      <3>3. CASE VerifyExchanged \/ SwapBack \/ Displace \/ VerifyDisplaced \/ Restore \/ Publish
        BY <3>3, <2>3, <1>1 DEF VerifyExchanged, SwapBack, Swap, Displace, VerifyDisplaced,
             Restore, Publish, Goto, Discard, Stop, db
      <3>4. CASE StartRemoval \/ Disowned \/ OpenPrivate \/ MakePrivate \/ RecordPrivate
        BY <3>4, <2>3, <1>1 DEF StartRemoval, Disowned, OpenPrivate, MakePrivate, RecordPrivate,
             Goto, Discard, NextDiscard, db
      <3>5. CASE MovePrivate \/ UnlinkPrivate \/ MarkPrivate \/ RemovePrivate \/ ForgetPrivate
        BY <3>5, <2>3, <1>1 DEF MovePrivate, UnlinkPrivate, MarkPrivate, RemovePrivate,
             ForgetPrivate, Goto, NextDiscard, db
      <3>6. CASE Discarded \/ Observe \/ Verify \/ Notify
        BY <3>6, <2>3, <1>1 DEF Discarded, Observe, Verify, Notify, Goto, Stop, db, TypeInv, TypeOK
      <3>7. QED
        BY <1>6, <2>3, <3>1, <3>2, <3>3, <3>4, <3>5, <3>6 DEF Step
    <2>4. QED
      BY <1>6, <2>1, <2>2, <2>3 DEF Publisher, Command
  <1>7. CASE Environment \/ OperatorClears
    <2>1. journal' = journal /\ (pc' = pc \/ pc' = "idle")
      BY <1>7 DEF Environment, Crash, Remap, Scan, SourceChanges, OtherWrites,
                  OtherMakesDirectory, OtherRemovesMarker, OperatorClears, db
    <2>2. QED
      BY <2>1 DEF OneInv, OneOutstanding
  <1>8. QED
    BY <1>2, <1>3, <1>4, <1>5, <1>6, <1>7 DEF Next

(* An output never has two operations that are begun and not acknowledged,  *)
(* whatever crashes, refuses or is retried.                                 *)
THEOREM OneOutstandingHolds == Spec => []OneOutstanding
  <1>1. Init => TypeInv /\ OneInv
    BY TypeInit DEF Init, OneInv, OneOutstanding
  <1>2. TypeInv /\ OneInv /\ [Next]_vars => TypeInv' /\ OneInv'
    BY TypeStep, OneStep
  <1>3. OneInv => OneOutstanding
    BY DEF OneInv
  <1>4. QED
    BY <1>1, <1>2, <1>3, PTL DEF Spec

-----------------------------------------------------------------------------
(* Only a deletion acts on private directories and their records.           *)
Deletion ==
    \/ OpenPrivate \/ MakePrivate \/ RecordPrivate \/ MovePrivate
    \/ UnlinkPrivate \/ MarkPrivate \/ RemovePrivate \/ ForgetPrivate

LEMMA Elsewhere ==
    ASSUME TypeInv, Publisher, ~Deletion
    PROVE  priv' = priv /\ meta' = meta /\ pc' \notin Inside
  <1>1. CASE Fail
    BY <1>1 DEF Fail, Stop, disk, db, Inside
  <1>2. CASE Command
    BY <1>2 DEF Command, Apply, Recover, Reverify, disk, db, Inside
  <1>3. CASE Step /\ ~Fail
    <2>1. CASE Begin \/ Applied \/ RecoverRow \/ Recovered \/ Cancel
      BY <2>1, <1>3 DEF Begin, Applied, RecoverRow, Recovered, Cancel, Goto, disk, db, Inside
    <2>2. CASE Claim \/ WriteMarker \/ PublishedBefore \/ ResumeDisplaced \/ StartLink
      BY <2>2, <1>3 DEF Claim, WriteMarker, PublishedBefore, ResumeDisplaced, StartLink,
                        Goto, Discard, disk, db, Inside
    <2>3. CASE Symlink \/ Stage \/ CheckLeaf \/ ExchangeLeaf \/ VerifyExchanged \/ SwapBack
      BY <2>3, <1>3 DEF Symlink, Stage, CheckLeaf, ExchangeLeaf, VerifyExchanged, SwapBack, Swap,
                        Goto, Discard, Stop, disk, db, Inside
    <2>4. CASE Displace \/ VerifyDisplaced \/ Restore \/ Publish \/ StartRemoval \/ Disowned
      BY <2>4, <1>3 DEF Displace, VerifyDisplaced, Restore, Publish, StartRemoval, Disowned,
                        Goto, Discard, Stop, disk, db, Inside
    <2>5. CASE Discarded \/ Observe \/ Commit \/ Verify \/ Notify
      BY <2>5, <1>3 DEF Discarded, Observe, Commit, Verify, Notify, Goto, Stop, disk, db, Inside,
                        TypeInv, TypeOK
    <2>6. QED
      BY <1>3, <2>1, <2>2, <2>3, <2>4, <2>5 DEF Step, Deletion
  <1>4. QED
    BY <1>1, <1>2, <1>3 DEF Publisher

(* A deletion opens a directory only if its record is of one we made, and   *)
(* gives the record up before the directory.                                *)
LEMMA WriterDelete ==
    ASSUME TypeInv, WriterInv, Deletion
    PROVE  WriterInv'
  <1> USE DEF WriterInv
  <1>1. CASE Fail
    BY <1>1 DEF Fail, Stop, Ours, Held, Inside, disk, db
  <1>2. CASE ~Fail
    <2>1. pc \in Deleting \/ (pc = "discard" /\ discards # <<>>)
      BY <1>2 DEF Deletion, OpenPrivate, MakePrivate, RecordPrivate, MovePrivate, UnlinkPrivate,
                  MarkPrivate, RemovePrivate, ForgetPrivate, Deleting
    <2>2. Doomed \in Private
      BY <2>1, DoomedType
    <2>3. /\ priv \in [Private -> {None} \cup Directories]
          /\ meta \in [Private -> {None} \cup Records]
          /\ pc \in Inside => priv[Doomed] \in Directories
      BY <2>2 DEF TypeInv, TypeOK, Shape
    <2>4. CASE OpenPrivate
      <3>1. CASE priv[Doomed] = None
        BY <2>4, <3>1, <1>2, <2>2, <2>3, NoneAssumption
        DEF OpenPrivate, Ours, Held, Goto, Inside, Records, disk
      <3>2. CASE priv[Doomed] # None
        <4>1. Adoptable(Doomed) /\ pc' = "unlink" /\ UNCHANGED <<disk, db, discards>>
          BY <2>4, <3>2, <1>2 DEF OpenPrivate
        <4>2. priv[Doomed].ino \in Inodes
          BY <2>2, <2>3, <3>2 DEF Directories
        <4>3. priv[Doomed].by = "us"
          BY <4>1, <4>2, <2>2 DEF Adoptable, Ours
        <4>4. QED
          BY <4>1, <4>3 DEF Ours, Held, Inside, disk, db, Doomed
      <3>3. QED BY <3>1, <3>2
    <2>5. CASE MakePrivate
      <3>1. CASE entry[Doomed] = None
        BY <2>5, <3>1, <1>2 DEF MakePrivate, NextDiscard, Ours, Held, Inside, disk, db
      <3>2. CASE entry[Doomed] # None
        <4>1. PICK i \in FreeInodes :
                 priv' = [priv EXCEPT ![Doomed] = [ino |-> i, held |-> None, by |-> "us"]]
          BY <2>5, <1>2, <3>2 DEF MakePrivate
        <4>2. pc' = "record" /\ meta' = meta /\ discards' = discards
          BY <2>5, <1>2, <3>2 DEF MakePrivate, db
        <4>3. [ino |-> i, held |-> None, by |-> "us"] # None
          BY NoneAssumption DEF FreeInodes, Directories, Entries
        <4>4. QED
          BY <4>1, <4>2, <4>3, <2>2, <2>3 DEF Ours, Held, Inside, Doomed
      <3>3. QED BY <3>1, <3>2
    <2>6. CASE RecordPrivate
      <3>1. priv[Doomed].by = "us" /\ priv[Doomed].held = None /\ priv[Doomed] # None
        BY <2>6 DEF RecordPrivate, Held, Inside, TypeInv, Shape
      <3>2. QED
        BY <2>6, <3>1, <2>2, <2>3 DEF RecordPrivate, Ours, Held, Goto, Inside, disk, local, Doomed
    <2>7. CASE MovePrivate \/ UnlinkPrivate
      <3>1. priv[Doomed].by = "us" /\ priv[Doomed] \in Directories
        BY <2>7, <2>3 DEF MovePrivate, UnlinkPrivate, Held, Inside
      <3>2. PICK e \in Entries : /\ priv' = [priv EXCEPT ![Doomed].held = e]
                                 /\ pc' = "mark" => e = None
        BY <2>7, <1>2, <2>2, NameTypes
        DEF MovePrivate, UnlinkPrivate, TypeInv, TypeOK, Entries, Goto
      <3>3. priv'[Doomed] \in Directories /\ priv'[Doomed].by = "us" /\ priv'[Doomed].held = e
        BY <3>1, <3>2, <2>2, <2>3 DEF Directories
      <3>4. \A n \in Private : n # Doomed => priv'[n] = priv[n]
        BY <3>2, <2>2, <2>3
      <3>5. pc' \in {"unlink", "mark"} /\ meta' = meta /\ discards' = discards
        BY <2>7, <1>2 DEF MovePrivate, UnlinkPrivate, Goto, db, local
      <3>6. QED
        BY <3>2, <3>3, <3>4, <3>5, <2>2, NoneAssumption DEF Ours, Held, Inside, Doomed
    <2>8. CASE MarkPrivate
      <3>1. priv[Doomed].by = "us" /\ priv[Doomed].held = None
        BY <2>8 DEF MarkPrivate, Held, Inside
      <3>2. QED
        BY <2>8, <3>1, <2>2, <2>3 DEF MarkPrivate, Ours, Held, Goto, Inside, disk, local, Doomed
    <2>9. CASE RemovePrivate
      <3>1. meta[Doomed].stage = "removing"
        BY <2>9 DEF RemovePrivate, Held
      <3>2. QED
        BY <2>9, <3>1, <2>2, <2>3 DEF RemovePrivate, Ours, Held, Goto, Inside, db
    <2>10. CASE ForgetPrivate
      <3>1. pc' \notin Inside /\ priv' = priv /\ meta' = [meta EXCEPT ![Doomed] = None]
        BY <2>10 DEF ForgetPrivate, NextDiscard, Goto, Inside, disk
      <3>2. QED
        BY <3>1, <2>2, <2>3, NoneAssumption DEF Ours, Held, Inside, Records
    <2>11. QED
      BY <2>4, <2>5, <2>6, <2>7, <2>8, <2>9, <2>10 DEF Deletion
  <1>3. QED BY <1>1, <1>2

LEMMA WriterOthers ==
    ASSUME TypeInv, WriterInv, Environment \/ OperatorClears
    PROVE  WriterInv'
  <1> USE DEF WriterInv
  <1>1. CASE Crash
    BY <1>1 DEF Crash, Ours, Held, Inside, disk, db
  <1>2. CASE Remap \/ Scan \/ SourceChanges \/ OtherWrites \/ OtherRemovesMarker
    <2>1. UNCHANGED <<priv, meta, pc, discards>>
      BY <1>2 DEF Remap, Scan, SourceChanges, OtherWrites, OtherRemovesMarker, disk, db, local
    <2>2. QED
      BY <2>1 DEF Ours, Held, Doomed
  <1>3. CASE OtherMakesDirectory
    <2>1. PICK p \in Paths : \E n \in Touchable(p) \ {p}, i \in FreeInodes, e \in Entries :
             /\ priv[n] = None
             /\ priv' = [priv EXCEPT ![n] = [ino |-> i, held |-> e, by |-> "other"]]
      BY <1>3 DEF OtherMakesDirectory, Entries
    <2>2. \A k \in Private : priv[k] # None => priv'[k] = priv[k]
      BY <2>1 DEF TypeInv, TypeOK
    <2>3. pc \in Inside => Doomed \in Private /\ priv[Doomed] # None
      BY DoomedType DEF Inside, Deleting, TypeInv, Shape
    <2>4. UNCHANGED <<meta, pc, discards>>
      BY <1>3 DEF OtherMakesDirectory, db, local
    <2>5. Ours'
      BY <2>2, <2>4 DEF Ours
    <2>6. Held'
      BY <2>2, <2>3, <2>4 DEF Held, Inside, Doomed
    <2>7. QED BY <2>5, <2>6
  <1>4. CASE OperatorClears
    <2>1. pc' = "idle" /\ meta' = meta
      BY <1>4 DEF OperatorClears, db
    <2>2. CASE priv' = priv
      BY <2>1, <2>2 DEF Ours, Held, Inside
    <2>3. CASE \E n \in Private : Refused(n) /\ priv' = [priv EXCEPT ![n] = None]
      <3>1. \A n \in Private, i \in Inodes : Refused(n) => meta[n] # [ino |-> i, stage |-> "made"]
        BY NoneAssumption DEF Refused, Records
      <3>2. QED
        BY <2>1, <2>3, <3>1 DEF Ours, Held, Inside, TypeInv, TypeOK
    <2>4. CASE \E n \in Private : priv[n] # None /\ priv' = [priv EXCEPT ![n].held = None]
      <3>1. PICK n \in Private : priv[n] # None /\ priv' = [priv EXCEPT ![n].held = None]
        BY <2>4
      <3>2. priv[n] \in Directories
        BY <3>1 DEF TypeInv, TypeOK
      <3>3. priv'[n] \in Directories /\ priv'[n].by = priv[n].by
        BY <3>1, <3>2 DEF TypeInv, TypeOK, Directories, Entries
      <3>4. \A k \in Private : k # n => priv'[k] = priv[k]
        BY <3>1 DEF TypeInv, TypeOK
      <3>5. QED
        BY <2>1, <3>3, <3>4, NoneAssumption DEF Ours, Held, Inside
    <2>5. QED
      BY <1>4, <2>2, <2>3, <2>4 DEF OperatorClears
  <1>5. QED
    BY <1>1, <1>2, <1>3, <1>4 DEF Environment

LEMMA WriterStep ==
    ASSUME TypeInv, WriterInv, [Next]_vars
    PROVE  WriterInv'
  <1>1. CASE UNCHANGED vars
    BY <1>1 DEF vars, disk, db, local, WriterInv, Ours, Held, Doomed
  <1>2. CASE Publisher /\ ~Deletion
    <2>1. priv' = priv /\ meta' = meta /\ pc' \notin Inside
      BY <1>2, Elsewhere
    <2>2. QED
      BY <2>1 DEF WriterInv, Ours, Held, Inside
  <1>3. CASE Publisher /\ Deletion
    BY <1>3, WriterDelete
  <1>4. QED
    BY <1>1, <1>2, <1>3, WriterOthers DEF Next

LEMMA WriterInit ==
    ASSUME Init
    PROVE  WriterInv
  BY NoneAssumption DEF Init, WriterInv, Ours, Held, Inside, Records

(* What the publisher does to a directory it did not make: nothing.         *)
LEMMA SquattersStep ==
    ASSUME TypeInv, WriterInv, Publisher,
           NEW n \in Private, priv[n] # None, priv[n].by = "other"
    PROVE  priv'[n] = priv[n]
  <1>1. CASE ~Deletion
    BY <1>1, Elsewhere
  <1>2. CASE OpenPrivate \/ RecordPrivate \/ MarkPrivate \/ ForgetPrivate \/ Fail
    BY <1>2 DEF OpenPrivate, RecordPrivate, MarkPrivate, ForgetPrivate, Fail, disk
  <1>3. CASE MakePrivate
    BY <1>3 DEF MakePrivate, disk, Fail, TypeInv, TypeOK
  <1>4. CASE (MovePrivate \/ UnlinkPrivate \/ RemovePrivate) /\ ~Fail
    <2>1. priv[Doomed].by = "us"
      BY <1>4 DEF MovePrivate, UnlinkPrivate, RemovePrivate, WriterInv, Held, Inside
    <2>2. QED
      BY <1>4, <2>1 DEF MovePrivate, UnlinkPrivate, RemovePrivate, TypeInv, TypeOK
  <1>5. QED
    BY <1>1, <1>2, <1>3, <1>4 DEF Deletion

(* A directory that another made under a private name is never entered,     *)
(* emptied or removed, even when it got the inode of one of ours.           *)
THEOREM SquattersUntouchedHolds == Spec => SquattersUntouched
  <1>1. Init => TypeInv /\ WriterInv
    BY TypeInit, WriterInit
  <1>2. TypeInv /\ WriterInv /\ [Next]_vars => TypeInv' /\ WriterInv'
    BY TypeStep, WriterStep
  <1>3. TypeInv /\ WriterInv /\ [Next]_vars
           => [Publisher => \A n \in Private :
                  priv[n] # None /\ priv[n].by = "other" => priv'[n] = priv[n]]_vars
    BY SquattersStep
  <1>4. QED
    BY <1>1, <1>2, <1>3, PTL DEF Spec, SquattersUntouched

-----------------------------------------------------------------------------
(* Where a foreign entry is: under a name or in a private directory.        *)
Kept(f) ==
    \/ \E n \in Names : entry[n] = f
    \/ \E n \in Private : priv[n] # None /\ priv[n].held = f

(* A rename to a free name, and an exchange, keep every entry.              *)
LEMMA RenameKeeps ==
    ASSUME TypeInv, NEW f \in Foreigns, Kept(f), NEW n \in Names, NEW k \in Names,
           entry[k] = None, n # k, entry' = Renamed(n, k), priv' = priv
    PROVE  Kept(f)'
  <1>1. CASE \E m \in Names : entry[m] = f
    <2>1. PICK m \in Names : entry[m] = f
      BY <1>1
    <2>2. m # k
      BY <2>1, NamesAssumption
    <2>3. entry'[k] = entry[n] /\ (m # n => entry'[m] = f)
      BY <2>2, <2>1 DEF Renamed, TypeInv, TypeOK
    <2>4. QED
      BY <2>1, <2>3 DEF Kept
  <1>2. CASE \E m \in Private : priv[m] # None /\ priv[m].held = f
    BY <1>2 DEF Kept
  <1>3. QED
    BY <1>1, <1>2 DEF Kept

(* The steps that act on entries outside a deletion: a new link goes only   *)
(* where nothing, or a link of the catalog, is.                             *)
LEMMA KeptReplace ==
    ASSUME TypeInv, Publisher, ~Deletion, NEW f \in Foreigns, Kept(f)
    PROVE  Kept(f)'
  <1>1. priv' = priv
    BY Elsewhere
  <1>2. CASE entry' = entry
    BY <1>1, <1>2 DEF Kept
  <1>3. CASE (Symlink \/ Stage) /\ ~Fail
    <2>1. /\ op.path \in Names /\ Temporary(op.id) \in Names
          /\ op.target \notin Foreigns
      BY <1>3, OpType, NameTypes, NamesAssumption
      DEF Symlink, Stage, OnPath, Working, Labels
    <2>2. PICK n \in Names : /\ entry[n] \in {None, op.target}
                             /\ entry' = [entry EXCEPT ![n] = op.target]
      BY <1>3, <2>1 DEF Symlink, Stage, Fail, disk
    <2>3. entry[n] # f
      BY <2>1, <2>2, NamesAssumption
    <2>4. \A m \in Names : entry[m] = f => entry'[m] = f
      BY <2>2, <2>3 DEF TypeInv, TypeOK
    <2>5. QED
      BY <1>1, <2>4 DEF Kept
  <1>4. CASE ExchangeLeaf \/ SwapBack
    <2>1. op.path \in Names /\ Temporary(op.id) \in Names
      BY <1>4, OpType, NameTypes DEF ExchangeLeaf, SwapBack, OnPath, Working, Labels
    <2>2. entry' = entry \/ entry' = Swapped
      BY <1>4 DEF ExchangeLeaf, SwapBack, Swap, Fail, disk
    <2>3. CASE entry' = Swapped
      <3>1. /\ entry'[op.path] = entry[Temporary(op.id)]
            /\ entry'[Temporary(op.id)] = entry[op.path]
            /\ \A m \in Names : m \notin {op.path, Temporary(op.id)} => entry'[m] = entry[m]
        BY <2>1, <2>3 DEF Swapped, TypeInv, TypeOK
      <3>2. QED
        BY <1>1, <2>1, <3>1 DEF Kept
    <2>4. QED
      BY <1>2, <2>2, <2>3
  <1>5. CASE Displace \/ Restore \/ Publish
    <2>1. /\ op.path \in Paths /\ op.path \in Names
          /\ Temporary(op.id) \in Names /\ Quarantine(op.id) \in Names
          /\ op.path # Temporary(op.id) /\ op.path # Quarantine(op.id)
      BY <1>5, OpType, NameTypes DEF Displace, Restore, Publish, OnPath, Working, Labels
    <2>2. \/ entry' = entry
          \/ \E n, k \in Names : n # k /\ entry[k] = None /\ entry' = Renamed(n, k)
      BY <1>5, <2>1 DEF Displace, Restore, Publish, CanRename, Fail, disk
    <2>3. QED
      BY <1>1, <1>2, <2>2, RenameKeeps
  <1>6. CASE /\ ~Symlink /\ ~Stage /\ ~ExchangeLeaf /\ ~SwapBack
             /\ ~Displace /\ ~Restore /\ ~Publish
    <2>1. CASE Fail
      BY <2>1, <1>2 DEF Fail, disk
    <2>2. CASE Command
      BY <2>2, <1>2 DEF Command, Apply, Recover, Reverify, disk
    <2>3. CASE Step /\ ~Fail
      <3>1. CASE Begin \/ Applied \/ RecoverRow \/ Recovered \/ Cancel
        BY <3>1, <2>3, <1>2 DEF Begin, Applied, RecoverRow, Recovered, Cancel, disk
      <3>2. CASE Claim \/ WriteMarker \/ PublishedBefore \/ ResumeDisplaced \/ StartLink
        BY <3>2, <2>3, <1>2 DEF Claim, WriteMarker, PublishedBefore, ResumeDisplaced, StartLink, disk
      <3>3. CASE CheckLeaf \/ VerifyExchanged \/ VerifyDisplaced \/ StartRemoval \/ Disowned
        BY <3>3, <2>3, <1>2 DEF CheckLeaf, VerifyExchanged, VerifyDisplaced, StartRemoval, Disowned, disk
      <3>4. CASE Discarded \/ Observe \/ Commit \/ Verify \/ Notify
        BY <3>4, <2>3, <1>2 DEF Discarded, Observe, Commit, Verify, Notify, disk
      <3>5. QED
        BY <2>3, <1>6, <3>1, <3>2, <3>3, <3>4 DEF Step, Deletion
    <2>4. QED
      BY <2>1, <2>2, <2>3 DEF Publisher
  <1>7. CASE Fail
    BY <1>2, <1>7 DEF Fail, disk
  <1>8. QED
    BY <1>3, <1>4, <1>5, <1>6, <1>7

(* A deletion moves an entry into an empty directory and destroys only      *)
(* links; the directory is empty when it goes.                              *)
LEMMA KeptDelete ==
    ASSUME TypeInv, WriterInv, Deletion, NEW f \in Foreigns, Kept(f)
    PROVE  Kept(f)'
  <1>1. CASE Fail \/ OpenPrivate \/ RecordPrivate \/ MarkPrivate \/ ForgetPrivate
    BY <1>1 DEF Fail, OpenPrivate, RecordPrivate, MarkPrivate, ForgetPrivate, disk, Kept
  <1>2. CASE ~Fail /\ (MakePrivate \/ MovePrivate \/ UnlinkPrivate \/ RemovePrivate)
    <2>1. pc \in Deleting
      BY <1>2 DEF MakePrivate, MovePrivate, UnlinkPrivate, RemovePrivate, Deleting
    <2>2. /\ Doomed \in Private /\ Doomed \in Names
          /\ Head(discards).allowed \subseteq Targets \cup {None}
      BY <2>1, DoomedType
    <2>3. /\ entry \in [Names -> Entries]
          /\ priv \in [Private -> {None} \cup Directories]
          /\ pc \in Inside => priv[Doomed] \in Directories
      BY <2>2 DEF TypeInv, TypeOK, Shape
    <2>4. CASE MakePrivate
      <3>1. entry' = entry /\ \A k \in Private : priv[k] # None => priv'[k] = priv[k]
        BY <2>4, <1>2, <2>2, <2>3 DEF MakePrivate, disk
      <3>2. QED
        BY <3>1 DEF Kept
    <2>5. CASE MovePrivate
      <3>1. priv[Doomed].held = None /\ priv[Doomed] \in Directories
        BY <2>5, <2>3 DEF MovePrivate, WriterInv, Held, Inside
      <3>2. /\ priv'[Doomed].held = entry[Doomed] /\ priv'[Doomed] \in Directories
            /\ \A k \in Private : k # Doomed => priv'[k] = priv[k]
            /\ \A k \in Names : k # Doomed => entry'[k] = entry[k]
        BY <2>5, <3>1, <2>2, <2>3 DEF MovePrivate, Directories
      <3>3. f # None
        BY NamesAssumption
      <3>4. QED
        BY <3>1, <3>2, <3>3, <2>2, NoneAssumption DEF Kept
    <2>6. CASE UnlinkPrivate
      <3>1. /\ priv[Doomed].held # f
            /\ entry' = entry
            /\ \A k \in Private : k # Doomed => priv'[k] = priv[k]
        BY <2>6, <1>2, <2>2, <2>3, NamesAssumption DEF UnlinkPrivate
      <3>2. QED
        BY <3>1 DEF Kept
    <2>7. CASE RemovePrivate
      <3>1. priv[Doomed].held = None
        BY <2>7 DEF RemovePrivate, WriterInv, Held
      <3>2. /\ entry' = entry
            /\ \A k \in Private : k # Doomed => priv'[k] = priv[k]
        BY <2>7, <2>2, <2>3 DEF RemovePrivate
      <3>3. QED
        BY <3>1, <3>2, NamesAssumption DEF Kept
    <2>8. QED
      BY <1>2, <2>4, <2>5, <2>6, <2>7
  <1>3. QED
    BY <1>1, <1>2 DEF Deletion

(* Others add entries where they take entries away themselves; the operator *)
(* takes out what the history then no longer asks for.                      *)
LEMMA KeptOthers ==
    ASSUME TypeInv, ForeignKept, Environment \/ OperatorClears
    PROVE  ForeignKept'
  <1> SUFFICES ASSUME NEW f \in alive'
               PROVE  Kept(f)'
    BY DEF ForeignKept, Kept
  <1>1. \A g \in alive : Kept(g) /\ g \in Foreigns
    BY DEF ForeignKept, Kept, TypeInv, TypeOK
  <1>2. CASE UNCHANGED <<entry, priv, alive>>
    BY <1>1, <1>2 DEF Kept
  <1>3. CASE Crash \/ Remap \/ Scan \/ SourceChanges \/ OtherRemovesMarker
    BY <1>2, <1>3 DEF Crash, Remap, Scan, SourceChanges, OtherRemovesMarker, disk, history
  <1>4. CASE OtherWrites
    <2>1. PICK p \in Paths : \E n \in Touchable(p), e \in {None} \cup Targets \cup (Foreigns \ alive) :
             /\ entry' = [entry EXCEPT ![n] = e]
             /\ alive' = (alive \ {entry[n]}) \cup ({e} \cap Foreigns)
      BY <1>4 DEF OtherWrites
    <2>2. PICK n \in Touchable(p), e \in {None} \cup Targets \cup (Foreigns \ alive) :
             /\ entry' = [entry EXCEPT ![n] = e]
             /\ alive' = (alive \ {entry[n]}) \cup ({e} \cap Foreigns)
      BY <2>1
    <2>3. n \in Names
      BY TouchableNames
    <2>4. priv' = priv /\ entry'[n] = e /\ \A k \in Names : k # n => entry'[k] = entry[k]
      BY <1>4, <2>2, <2>3 DEF OtherWrites, TypeInv, TypeOK
    <2>5. CASE f = e
      BY <2>3, <2>4, <2>5 DEF Kept
    <2>6. CASE f # e
      <3>1. f \in alive /\ f # entry[n]
        BY <2>2, <2>6
      <3>2. QED
        BY <1>1, <3>1, <2>4 DEF Kept
    <2>7. QED BY <2>5, <2>6
  <1>5. CASE OtherMakesDirectory
    <2>1. PICK p \in Paths : \E n \in Touchable(p) \ {p}, i \in FreeInodes, e \in Entries :
             /\ priv[n] = None
             /\ priv' = [priv EXCEPT ![n] = [ino |-> i, held |-> e, by |-> "other"]]
             /\ alive' = alive \cup ({e} \cap Foreigns)
      BY <1>5 DEF OtherMakesDirectory, Entries
    <2>2. PICK n \in Touchable(p) \ {p}, i \in FreeInodes, e \in Entries :
             /\ priv[n] = None
             /\ priv' = [priv EXCEPT ![n] = [ino |-> i, held |-> e, by |-> "other"]]
             /\ alive' = alive \cup ({e} \cap Foreigns)
      BY <2>1
    <2>3. n \in Private /\ [ino |-> i, held |-> e, by |-> "other"] # None
      BY TouchableNames, NoneAssumption DEF FreeInodes, Directories
    <2>4. /\ entry' = entry
          /\ priv'[n] # None /\ priv'[n].held = e
          /\ \A k \in Private : priv[k] # None => priv'[k] = priv[k]
      BY <1>5, <2>2, <2>3 DEF OtherMakesDirectory, TypeInv, TypeOK
    <2>5. CASE f = e
      BY <2>3, <2>4, <2>5 DEF Kept
    <2>6. CASE f # e
      BY <1>1, <2>2, <2>4, <2>6 DEF Kept
    <2>7. QED BY <2>5, <2>6
  <1>6. CASE OperatorClears
    <2>1. CASE priv' = priv /\ alive' = alive
      BY <1>2, <1>6, <2>1 DEF OperatorClears
    <2>2. CASE \E n \in Private : /\ priv[n] # None
                                  /\ \/ priv' = [priv EXCEPT ![n] = None]
                                     \/ priv' = [priv EXCEPT ![n].held = None]
                                  /\ alive' = alive \ {priv[n].held}
      <3>1. PICK n \in Private : /\ priv[n] # None
                                 /\ \A k \in Private : k # n => priv'[k] = priv[k]
                                 /\ alive' = alive \ {priv[n].held}
        BY <2>2 DEF TypeInv, TypeOK
      <3>2. f \in alive /\ f # priv[n].held /\ entry' = entry
        BY <1>6, <3>1 DEF OperatorClears
      <3>3. QED
        BY <1>1, <3>1, <3>2 DEF Kept
    <2>3. QED
      BY <1>6, <2>1, <2>2 DEF OperatorClears
  <1>7. QED
    BY <1>3, <1>4, <1>5, <1>6 DEF Environment

LEMMA KeptStep ==
    ASSUME TypeInv, WriterInv, ForeignKept, [Next]_vars
    PROVE  ForeignKept'
  <1>1. CASE UNCHANGED vars
    BY <1>1 DEF vars, disk, history, ForeignKept
  <1>2. CASE Publisher
    <2>1. alive' = alive /\ alive \subseteq Foreigns
      BY <1>2 DEF Publisher, history, TypeInv, TypeOK
    <2>2. \A f \in alive : Kept(f)
      BY DEF ForeignKept, Kept
    <2>3. \A f \in alive : Kept(f)'
      BY <1>2, <2>1, <2>2, KeptReplace, KeptDelete
    <2>4. QED
      BY <2>1, <2>3 DEF ForeignKept, Kept
  <1>3. CASE Environment \/ OperatorClears
    BY <1>3, KeptOthers
  <1>4. QED
    BY <1>1, <1>2, <1>3 DEF Next

(* Whatever another writer puts into the output, at any moment, stays there *)
(* or in a private directory until he, or the operator, takes it out.       *)
THEOREM ForeignKeptHolds == Spec => []ForeignKept
  <1>1. Init => TypeInv /\ WriterInv /\ ForeignKept
    BY TypeInit, WriterInit DEF Init, ForeignKept
  <1>2. TypeInv /\ WriterInv /\ ForeignKept /\ [Next]_vars
           => TypeInv' /\ WriterInv' /\ ForeignKept'
    BY TypeStep, WriterStep, KeptStep
  <1>3. QED
    BY <1>1, <1>2, PTL DEF Spec

-----------------------------------------------------------------------------
(* The tree where nobody else writes.  What the publisher's variables say   *)
(* about the command under way.                                             *)
Control ==
    /\ pc = "idle" => op = None /\ todo = {} /\ after = "observe"
    /\ mode = "crashed" => pc = "idle"
    /\ todo # {} => mode = "apply"
    /\ pc \in {"recover", "cancel"} \/ after = "cancel" => mode = "recover"

(* An action or a row that changes what its path shows.                     *)
Changing(a) ==
    /\ a.previous # a.target
    /\ \/ a.kind = "create" /\ a.previous = None
       \/ a.kind = "replace" /\ a.previous # None /\ a.target # None
       \/ a.kind = "remove" /\ a.target = None

(* The plan has one action per path, none for the path under way, and what  *)
(* it found on a path is still there.                                       *)
Plan ==
    /\ \A a, b \in todo : a.path = b.path => a = b
    /\ op # None => \A a \in todo : a.path # op.path
    /\ \A a \in todo : a.kind = "prepare" => a.path = None
    /\ \A a \in todo : a.kind # "prepare" /\ a.path \notin touched =>
          Changing(a) /\ entry[a.path] = a.previous /\ owned[a.path] = a.previous

(* An operation was not carried out yet, is between the two links of its    *)
(* path, or was carried out, what it displaced perhaps not yet deleted.     *)
Waiting(o) ==
    /\ entry[o.path] = o.previous /\ entry[Quarantine(o.id)] = None
    /\ entry[Temporary(o.id)] # None => o.kind = "replace" /\ entry[Temporary(o.id)] = o.target

Between(o) == Displaced(o) /\ entry[Temporary(o.id)] \in {None, o.target}

Done(o) ==
    /\ entry[o.path] = o.target
    /\ entry[Quarantine(o.id)] \in {None, o.previous}
    /\ entry[Temporary(o.id)] \in {None, o.previous}

Calm(o) == o # None /\ o.kind # "prepare" /\ o.path \notin touched

RowsInv ==
    \A o \in journal :
        /\ o.kind = "prepare" => o.path = None
        /\ Calm(o) => /\ Changing(o) /\ owned[o.path] = o.previous
                      /\ Waiting(o) \/ Between(o) \/ Done(o)

Lone(o) == entry[Temporary(o.id)] = o.target

(* What each step of an operation relies on.                                *)
Stages ==
    /\ pc = "claim" => op.kind = "prepare"
    /\ pc = "symlink" => op.kind = "create"
    /\ pc \in {"stage", "exchange", "exchanged", "swap back", "resume", "publish"} => op.kind = "replace"
    /\ pc \in {"check", "displace", "displaced", "restore"} => op.kind \in {"replace", "remove"}
    /\ pc = "displace" /\ exchange => op.kind = "remove"
    /\ pc = "discard" \/ pc \in Deleting =>
          /\ op.kind \in {"replace", "remove"}
          /\ \A i \in DOMAIN discards : discards[i].name \in {Temporary(op.id), Quarantine(op.id)}

Progress ==
    Calm(op) =>
        /\ pc \in {"stage", "check", "exchange", "displace", "cancel"} => Waiting(op)
        /\ pc \in {"check", "exchange", "displace"} /\ op.kind = "replace" => Lone(op)
        /\ pc \in {"resume", "restore", "publish"} => Between(op)
        /\ pc = "publish" => Lone(op)
        /\ pc = "exchanged" => Done(op) /\ entry[Temporary(op.id)] = op.previous
        /\ pc # "swap back"
        /\ pc = "displaced" =>
              /\ entry[op.path] = None /\ entry[Quarantine(op.id)] = op.previous
              /\ op.kind = "replace" => Lone(op)
              /\ entry[Temporary(op.id)] \in {None, op.target}
        /\ pc = "discard" \/ pc \in Deleting => IF after = "observe" THEN Done(op) ELSE Waiting(op)
        /\ pc = "commit" => entry[op.path] = op.target

TreeInv == Control /\ Plan /\ RowsInv /\ Stages /\ Progress /\ LedgerMatchesTree

-----------------------------------------------------------------------------
(* The row under way and its private names.                                 *)
LEMMA RowFacts ==
    ASSUME TypeInv, OneInv, pc \in Working
    PROVE  /\ op \in journal /\ op \in Rows /\ op # None /\ journal = {op}
           /\ Temporary(op.id) \in Private /\ Quarantine(op.id) \in Private
           /\ Temporary(op.id) \in Names /\ Quarantine(op.id) \in Names
           /\ Temporary(op.id) # Quarantine(op.id)
           /\ op.kind # "prepare" =>
                 op.path \in Paths /\ op.path \in Names /\ op.path \notin Private
           /\ op.previous \in Targets \cup {None} /\ op.target \in Targets \cup {None}
  <1>1. op \in journal /\ op \in Rows /\ op.id \in Ids
    BY OpType
  <1>2. journal = {op}
    BY <1>1 DEF OneInv, OneOutstanding
  <1>3. QED
    BY <1>1, <1>2, OpType, NameTypes, NoneAssumption

(* A command that ends or is cut off leaves what it did.                    *)
LEMMA StopTree ==
    ASSUME TreeInv, op' = None, todo' = {}, after' = "observe", pc' = "idle",
           UNCHANGED <<entry, owned, journal, touched>>
    PROVE  TreeInv'
  <1>1. Control' /\ Plan' /\ Stages' /\ Progress'
    BY DEF Control, Plan, Stages, Progress, Calm, Deleting
  <1>2. RowsInv' /\ LedgerMatchesTree'
    BY DEF TreeInv, RowsInv, LedgerMatchesTree, Journaled, Calm, Waiting, Between, Displaced, Done
  <1>3. QED
    BY <1>1, <1>2 DEF TreeInv

LEMMA FailTree ==
    ASSUME TreeInv, Fail, UNCHANGED history
    PROVE  TreeInv'
  BY StopTree DEF Fail, Stop, disk, db, history

(* A step that writes no entry and no row keeps what they say.              *)
LEMMA QuietTree ==
    ASSUME TreeInv, UNCHANGED <<entry, owned, journal>>, touched \subseteq touched',
           todo' \subseteq todo, op' \in {op, None} \/ todo' = {}
    PROVE  RowsInv' /\ Plan' /\ LedgerMatchesTree'
  <1>1. RowsInv'
    BY DEF TreeInv, RowsInv, Calm, Waiting, Between, Displaced, Done
  <1>2. Plan'
    BY DEF TreeInv, Plan
  <1>3. LedgerMatchesTree'
    BY DEF TreeInv, LedgerMatchesTree, Journaled
  <1>4. QED
    BY <1>1, <1>2, <1>3

(* The publisher's own variables.                                           *)
LEMMA ControlStep ==
    ASSUME TypeInv, Control, [Next]_vars
    PROVE  Control'
  <1> USE DEF Control
  <1>1. CASE UNCHANGED vars
    BY <1>1 DEF vars, local
  <1>2. CASE Environment \/ OperatorClears
    BY <1>2 DEF Environment, Crash, Remap, Scan, SourceChanges, OtherWrites,
                OtherMakesDirectory, OtherRemovesMarker, OperatorClears, local
  <1>3. CASE Command
    BY <1>3 DEF Command, Apply, Recover, Reverify
  <1>4. CASE Fail
    BY <1>4 DEF Fail, Stop
  <1>5. CASE Step /\ ~Fail
    <2>1. CASE Begin \/ Applied \/ RecoverRow \/ Recovered \/ Cancel
      BY <2>1, <1>5 DEF Begin, Applied, RecoverRow, Recovered, Cancel, Goto, local
    <2>2. CASE Claim \/ WriteMarker \/ PublishedBefore \/ ResumeDisplaced \/ StartLink
      BY <2>2, <1>5 DEF Claim, WriteMarker, PublishedBefore, ResumeDisplaced, StartLink,
                        Goto, Discard, local
    <2>3. CASE Symlink \/ Stage \/ CheckLeaf \/ ExchangeLeaf \/ VerifyExchanged \/ SwapBack
      BY <2>3, <1>5 DEF Symlink, Stage, CheckLeaf, ExchangeLeaf, VerifyExchanged, SwapBack, Swap,
                        Goto, Discard, Stop, local
    <2>4. CASE Displace \/ VerifyDisplaced \/ Restore \/ Publish \/ StartRemoval \/ Disowned
      BY <2>4, <1>5 DEF Displace, VerifyDisplaced, Restore, Publish, StartRemoval, Disowned,
                        Goto, Discard, Stop, local
    <2>5. CASE OpenPrivate \/ MakePrivate \/ RecordPrivate \/ MovePrivate \/ UnlinkPrivate
      BY <2>5, <1>5 DEF OpenPrivate, MakePrivate, RecordPrivate, MovePrivate, UnlinkPrivate,
                        Goto, NextDiscard, local
    <2>6. CASE MarkPrivate \/ RemovePrivate \/ ForgetPrivate \/ Discarded \/ Observe
      BY <2>6, <1>5 DEF MarkPrivate, RemovePrivate, ForgetPrivate, Discarded, Observe,
                        Goto, NextDiscard, local, TypeInv, TypeOK
    <2>7. CASE Commit \/ Verify \/ Notify
      BY <2>7, <1>5 DEF Commit, Verify, Notify, Goto, Stop, local, TypeInv, TypeOK
    <2>8. QED
      BY <1>5, <2>1, <2>2, <2>3, <2>4, <2>5, <2>6, <2>7 DEF Step
  <1>6. QED
    BY <1>1, <1>2, <1>3, <1>4, <1>5 DEF Next, Publisher

(* A list that is shortened names nothing else.                             *)
LEMMA ShorterList ==
    ASSUME TypeInv, discards # <<>>, NEW S, \A i \in DOMAIN discards : discards[i].name \in S
    PROVE  /\ Doomed \in S
           /\ \A i \in DOMAIN Tail(discards) : Tail(discards)[i].name \in S
  <1>1. discards \in Deletions
    BY DEF TypeInv, TypeOK, Deletions
  <1>2. /\ Len(discards) \in Nat /\ DOMAIN discards = 1 .. Len(discards) /\ Len(discards) # 0
        /\ Head(discards) = discards[1] /\ Tail(discards) \in Deletions
        /\ Len(Tail(discards)) = Len(discards) - 1
        /\ \A i \in 1 .. Len(Tail(discards)) : Tail(discards)[i] = discards[i + 1]
    BY <1>1, HeadTailProperties, LenProperties, EmptySeq DEF Deletions
  <1>3. DOMAIN Tail(discards) = 1 .. Len(discards) - 1
    BY <1>2, LenProperties DEF Deletions
  <1>4. QED
    BY <1>2, <1>3 DEF Doomed

(* Only a replacement or a removal deletes, and only its private names.     *)
LEMMA StagesSame ==
    ASSUME Stages, UNCHANGED <<exchange, op, discards>>,
           pc' = pc \/ (pc' \in Deleting /\ (pc = "discard" \/ pc \in Deleting))
    PROVE  Stages'
  BY DEF Stages, Deleting

LEMMA StagesElse ==
    ASSUME pc' \notin {"claim", "symlink", "stage", "exchange", "exchanged", "swap back", "resume", "publish",
                       "check", "displace", "displaced", "restore", "discard"} \cup Deleting
    PROVE  Stages'
  BY DEF Stages, Deleting

LEMMA StagesDiscard ==
    ASSUME op'.kind \in {"replace", "remove"}, pc' = "discard",
           NEW n \in {Temporary(op'.id), Quarantine(op'.id)}, NEW a,
           discards' = <<[name |-> n, allowed |-> a]>>
    PROVE  Stages'
  BY DEF Stages, Deleting

LEMMA StagesDiscards ==
    ASSUME op'.kind = "replace", pc' = "discard", NEW a, NEW b,
           discards' = <<[name |-> Temporary(op'.id), allowed |-> a],
                         [name |-> Quarantine(op'.id), allowed |-> b]>>
    PROVE  Stages'
  BY DEF Stages, Deleting

LEMMA StagesStep ==
    ASSUME TypeInv, OneInv, Stages, [Next]_vars
    PROVE  Stages'
  <1>1. CASE UNCHANGED vars
    BY <1>1, StagesSame DEF vars, local, intent
  <1>2. CASE Crash
    BY <1>2, StagesElse DEF Crash, Deleting
  <1>3. CASE (Environment /\ ~Crash) \/ OperatorClears
    BY <1>3, StagesSame DEF Environment, Remap, Scan, SourceChanges, OtherWrites,
                OtherMakesDirectory, OtherRemovesMarker, OperatorClears, local, intent
  <1>4. CASE Command
    BY <1>4, StagesElse DEF Command, Apply, Recover, Reverify, Deleting
  <1>5. CASE Fail
    BY <1>5, StagesElse DEF Fail, Stop, Deleting
  <1>6. CASE Step /\ ~Fail /\ UNCHANGED exchange
    <2>1. CASE Begin \/ Applied \/ Recovered \/ Cancel \/ WriteMarker
      BY <2>1, <1>6, StagesElse DEF Begin, Applied, Recovered, Cancel, WriteMarker, Goto, Deleting
    <2>14. CASE Claim
      <3>1. CASE pc' = "claim"
        BY <2>14, <1>6, <3>1 DEF Claim, Goto, local, Stages, Deleting
      <3>2. CASE pc' # "claim"
        BY <2>14, <1>6, <3>2, StagesElse DEF Claim, Goto, Deleting
      <3>3. QED
        BY <3>1, <3>2
    <2>2. CASE Symlink \/ Restore \/ Observe \/ Commit \/ Verify \/ Notify \/ Disowned
      BY <2>2, <1>6, StagesElse DEF Symlink, Restore, Observe, Commit, Verify, Notify, Disowned,
                                    Goto, Stop, Deleting
    <2>3. CASE RecoverRow
      <3>1. CASE pc' \in {"execute", "cancel"}
        BY <3>1, StagesElse DEF Deleting
      <3>2. CASE pc' = "discard"
        <4>1. /\ op'.kind = "replace"
              /\ discards' = <<[name |-> Temporary(op'.id), allowed |-> {op'.target}]>>
          BY <2>3, <1>6, <3>2 DEF RecoverRow
        <4>2. QED
          BY <4>1, <3>2, StagesDiscard
      <3>3. QED
        BY <2>3, <1>6, <3>1, <3>2 DEF RecoverRow
    <2>4. CASE PublishedBefore
      <3>1. CASE op.kind = "replace"
        <4>1. op' = op /\ pc' = "discard" /\ op.kind = "replace"
              /\ discards' = <<[name |-> Temporary(op.id), allowed |-> {op.previous, op.target}],
                                [name |-> Quarantine(op.id), allowed |-> {op.previous}]>>
          BY <2>4, <3>1 DEF PublishedBefore, Discard
        <4>2. QED
          BY <4>1, StagesDiscards
      <3>2. CASE op.kind # "replace"
        BY <2>4, <3>2, StagesElse DEF PublishedBefore, Goto, Deleting
      <3>3. QED
        BY <3>1, <3>2
    <2>5. CASE ResumeDisplaced \/ StartLink
      <3>1. pc' \in {"resume", "restore", "symlink", "stage"} /\ op' = op
            /\ (pc' = "symlink" => op.kind = "create")
            /\ (pc' # "symlink" => op.kind = "replace")
        BY <2>5, <1>6 DEF ResumeDisplaced, StartLink, Displaced, Goto, local
      <3>2. QED
        BY <3>1 DEF Stages, Deleting
    <2>6. CASE Stage \/ CheckLeaf \/ ExchangeLeaf \/ Displace
      <3>1. /\ op' = op /\ pc \in {"stage", "resume", "check", "exchange", "displace"}
            /\ pc = "stage" => pc' = "check"
            /\ pc = "resume" => pc' = "publish"
            /\ pc = "exchange" => pc' = "exchanged"
            /\ pc = "displace" => pc' = "displaced"
            /\ pc = "check" => pc' = IF op.kind = "replace" /\ exchange THEN "exchange" ELSE "displace"
        BY <2>6, <1>6 DEF Stage, CheckLeaf, ExchangeLeaf, Swap, Displace, Goto, local
      <3>2. QED
        BY <3>1, <1>6 DEF Stages, Deleting
    <2>7. CASE VerifyExchanged
      <3>1. CASE pc' = "discard"
        BY <2>7, <3>1, StagesDiscard DEF VerifyExchanged, Discard, Goto, Stages
      <3>2. CASE pc' = "swap back" /\ op' = op
        BY <2>7, <3>2 DEF VerifyExchanged, Stages, Deleting
      <3>3. QED
        BY <2>7, <3>1, <3>2 DEF VerifyExchanged, Discard, Goto, local
    <2>8. CASE SwapBack
      BY <2>8, <1>6, StagesElse DEF SwapBack, Swap, Stop, Deleting
    <2>9. CASE VerifyDisplaced
      <3>1. CASE pc' = "discard"
        BY <2>9, <3>1, StagesDiscard DEF VerifyDisplaced, Discard, Goto, Stages
      <3>2. CASE pc' # "discard"
        <4>1. pc = "displaced" /\ op' = op /\ (pc' = "restore" \/ (pc' = "publish" /\ op.kind = "replace"))
          BY <2>9, <3>2 DEF VerifyDisplaced, Discard, Goto, local
        <4>2. QED
          BY <4>1 DEF Stages, Deleting
      <3>3. QED
        BY <3>1, <3>2
    <2>10. CASE Publish
      <3>1. pc = "publish" /\ pc' = "discard" /\ op' = op
            /\ discards' = <<[name |-> Quarantine(op.id), allowed |-> {op.previous}]>>
        BY <2>10, <1>6 DEF Publish, Discard
      <3>2. QED
        BY <3>1, StagesDiscard DEF Stages
    <2>11. CASE StartRemoval
      <3>1. CASE pc' = "discard"
        BY <2>11, <1>6, <3>1, StagesDiscard DEF StartRemoval, Discard, Goto, Stages
      <3>2. CASE pc' = "check" /\ op.kind = "remove" /\ op' = op
        BY <3>2 DEF Stages, Deleting
      <3>3. CASE pc' = "observe"
        BY <3>3, StagesElse DEF Deleting
      <3>4. QED
        BY <2>11, <1>6, <3>1, <3>2, <3>3 DEF StartRemoval, Discard, Goto, local
    <2>12. CASE Deletion
      <3>1. /\ pc = "discard" \/ (pc \in Deleting /\ discards # <<>>)
            /\ pc' \in Deleting \cup {"discard"} /\ op' = op
        BY <2>12, <1>6 DEF Deletion, OpenPrivate, MakePrivate, RecordPrivate, MovePrivate,
             UnlinkPrivate, MarkPrivate, RemovePrivate, ForgetPrivate, Goto, NextDiscard, local,
             Deleting, TypeInv, Shape
      <3>2. \/ discards' = discards
            \/ discards' = Tail(discards) /\ discards # <<>>
        BY <2>12, <1>6 DEF Deletion, OpenPrivate, MakePrivate, RecordPrivate, MovePrivate,
             UnlinkPrivate, MarkPrivate, RemovePrivate, ForgetPrivate, Goto, NextDiscard, local,
             Deleting, TypeInv, Shape
      <3>3. CASE discards' = discards
        BY <3>1, <3>3 DEF Deleting, Stages
      <3>4. CASE discards' = Tail(discards) /\ discards # <<>>
        BY <3>1, <3>4, ShorterList DEF Deleting, Stages
      <3>5. QED
        BY <3>2, <3>3, <3>4
    <2>13. CASE Discarded
      BY <2>13, <1>6, StagesElse DEF Discarded, Goto, Deleting, TypeInv, TypeOK
    <2>15. QED
      BY <1>6, <2>1, <2>2, <2>3, <2>4, <2>5, <2>6, <2>7, <2>8, <2>9, <2>10, <2>11, <2>12, <2>13,
         <2>14 DEF Step, Deletion
  <1>7. QED
    BY <1>1, <1>2, <1>3, <1>4, <1>5, <1>6 DEF Next, Publisher, intent

(* Labels that Progress says something of.                                  *)
Watched ==
    {"stage", "check", "exchange", "displace", "cancel", "resume", "restore", "publish", "exchanged",
     "swap back", "displaced", "discard", "commit"} \cup Deleting

LEMMA ProgressElse ==
    ASSUME pc' \notin Watched
    PROVE  Progress'
  BY DEF Progress, Watched

LEMMA ProgressSame ==
    ASSUME Progress, UNCHANGED <<entry, op, after>>, touched \subseteq touched',
           pc' = pc \/ (pc' \in Deleting \cup {"discard"} /\ (pc = "discard" \/ pc \in Deleting))
    PROVE  Progress'
  <1>1. Calm(op)' => Calm(op)
    BY DEF Calm
  <1>2. CASE pc' = pc
    BY <1>1, <1>2 DEF Progress, Waiting, Between, Displaced, Done, Lone, Deleting
  <1>3. CASE pc' \in Deleting \cup {"discard"} /\ (pc = "discard" \/ pc \in Deleting)
    BY <1>1, <1>3 DEF Progress, Waiting, Done, Deleting
  <1>4. QED
    BY <1>2, <1>3

(* From what a row found on its path one can tell how far it came.          *)
LEMMA HowFar ==
    ASSUME RowsInv, NEW o \in journal, Calm(o)
    PROVE  /\ entry[o.path] = o.previous => Waiting(o)
           /\ entry[o.path] = o.target => Done(o)
           /\ Displaced(o) => Between(o)
  BY DEF RowsInv, Changing, Waiting, Between, Displaced, Done

(* Steps that decide and write no entry, no row and no ledger.              *)
LEMMA DecideTree ==
    ASSUME TypeInv, OneInv, TreeInv,
           \/ Claim \/ WriteMarker \/ PublishedBefore \/ ResumeDisplaced \/ StartLink
           \/ CheckLeaf \/ VerifyExchanged \/ VerifyDisplaced \/ StartRemoval \/ Disowned,
           UNCHANGED <<exchange, history>>, ~Fail
    PROVE  RowsInv' /\ Plan' /\ LedgerMatchesTree' /\ Progress'
  <1>1. pc \in Working /\ UNCHANGED <<entry, owned, journal, todo, op, touched>>
    BY DEF Claim, WriteMarker, PublishedBefore, ResumeDisplaced, StartLink, CheckLeaf,
           VerifyExchanged, VerifyDisplaced, StartRemoval, Disowned, Goto, Discard, local, disk, db,
           history, Working, Labels
  <1>2. RowsInv' /\ Plan' /\ LedgerMatchesTree'
    BY <1>1, QuietTree
  <1>3. op \in journal /\ RowsInv /\ Progress /\ Stages
    BY <1>1, RowFacts DEF TreeInv
  <1> SUFFICES Progress'
    BY <1>2
  <1>4. CASE Claim \/ WriteMarker \/ Disowned
    BY <1>4, ProgressElse DEF Claim, WriteMarker, Disowned, Goto, Watched, Deleting
  <1>5. CASE ~Calm(op)
    BY <1>1, <1>5 DEF Progress, Calm
  <1>6. CASE Calm(op) /\ Calm(op)'
    <2> USE <1>1, <1>3, <1>6
    <2>1. CASE PublishedBefore
      <3>1. Done(op)
        BY <2>1, HowFar DEF PublishedBefore
      <3>2. Done(op)'
        BY <3>1 DEF Done
      <3>3. pc' = "observe" \/ (pc' = "discard" /\ after' = "observe")
        BY <2>1 DEF PublishedBefore, Goto, Discard
      <3>4. QED
        BY <3>2, <3>3 DEF Progress, Deleting
    <2>2. CASE ResumeDisplaced
      <3>1. Between(op)
        BY <2>2, HowFar DEF ResumeDisplaced
      <3>2. Between(op)'
        BY <3>1 DEF Between, Displaced
      <3>3. pc' \in {"resume", "restore"}
        BY <2>2 DEF ResumeDisplaced, Goto
      <3>4. QED
        BY <3>2, <3>3 DEF Progress, Deleting
    <2>3. CASE StartLink
      <3>1. CASE pc' = "symlink"
        BY <3>1, ProgressElse DEF Watched, Deleting
      <3>2. CASE pc' = "stage"
        <4>1. entry[op.path] = op.previous
          BY <2>3, <3>2 DEF StartLink, Goto
        <4>2. Waiting(op)'
          BY <4>1, HowFar DEF Waiting
        <4>3. QED
          BY <3>2, <4>2 DEF Progress, Deleting
      <3>3. QED
        BY <2>3, <3>1, <3>2 DEF StartLink, Goto
    <2>4. CASE CheckLeaf
      <3>1. pc = "check" /\ pc' \in {"exchange", "displace"}
        BY <2>4 DEF CheckLeaf, Goto
      <3>2. Waiting(op)' /\ (op'.kind = "replace" => Lone(op)')
        BY <3>1 DEF Progress, Waiting, Lone
      <3>3. QED
        BY <3>1, <3>2 DEF Progress, Deleting
    <2>5. CASE VerifyExchanged
      <3>1. Done(op) /\ entry[Temporary(op.id)] = op.previous
        BY <2>5 DEF VerifyExchanged, Progress
      <3>2. Done(op)' /\ pc' = "discard" /\ after' = "observe"
        BY <2>5, <3>1 DEF VerifyExchanged, Discard, Done
      <3>3. QED
        BY <3>2 DEF Progress, Deleting
    <2>6. CASE VerifyDisplaced
      <3>1. /\ entry[op.path] = None /\ entry[Quarantine(op.id)] = op.previous
            /\ op.kind = "replace" => Lone(op)
            /\ entry[Temporary(op.id)] \in {None, op.target}
            /\ op.kind \in {"replace", "remove"} /\ Changing(op)
        BY <2>6 DEF VerifyDisplaced, Progress, RowsInv, Stages
      <3>2. CASE op.kind = "replace"
        <4>1. pc' = "publish"
          BY <2>6, <3>1, <3>2 DEF VerifyDisplaced, Goto
        <4>2. Between(op)' /\ Lone(op)'
          BY <3>1, <3>2 DEF Between, Displaced, Lone
        <4>3. QED
          BY <4>1, <4>2 DEF Progress, Deleting
      <3>3. CASE op.kind = "remove"
        <4>1. pc' = "discard" /\ after' = "observe"
          BY <2>6, <3>1, <3>3 DEF VerifyDisplaced, Discard
        <4>2. Done(op)'
          BY <3>1, <3>3 DEF Done, Changing
        <4>3. QED
          BY <4>1, <4>2 DEF Progress, Deleting
      <3>4. QED
        BY <3>1, <3>2, <3>3
    <2>7. CASE StartRemoval
      <3>1. CASE pc' = "check"
        <4>1. entry[op.path] = op.previous /\ op.kind = "remove"
          BY <2>7, <3>1 DEF StartRemoval, Goto, Discard
        <4>2. Waiting(op)'
          BY <4>1, HowFar DEF Waiting
        <4>3. QED
          BY <3>1, <4>1, <4>2 DEF Progress, Deleting
      <3>2. CASE pc' = "discard"
        <4>1. entry[op.path] = None /\ op.kind = "remove" /\ after' = "observe"
          BY <2>7, <3>2 DEF StartRemoval, Goto, Discard
        <4>2. op.target = None
          BY <4>1 DEF RowsInv, Changing
        <4>3. Done(op)'
          BY <4>1, <4>2, HowFar DEF Done
        <4>4. QED
          BY <3>2, <4>1, <4>3 DEF Progress, Deleting
      <3>3. CASE pc' = "observe"
        BY <3>3, ProgressElse DEF Watched, Deleting
      <3>4. QED
        BY <2>7, <3>1, <3>2, <3>3 DEF StartRemoval, Goto, Discard
    <2>8. QED
      BY <1>4, <2>1, <2>2, <2>3, <2>4, <2>5, <2>6, <2>7
  <1>7. Calm(op)' = Calm(op)
    BY <1>1 DEF Calm
  <1>8. QED
    BY <1>5, <1>6, <1>7

(* A step that writes only the names of the operation under way keeps what  *)
(* is known of the rest.                                                    *)
LEMMA WriteTree ==
    ASSUME TypeInv, OneInv, TreeInv, pc \in Working, NEW o, o = op,
           UNCHANGED <<owned, journal, touched>>,
           \/ todo' = todo /\ op' = op
           \/ todo' = {} /\ op' = None,
           \A n \in Names \ {o.path, Temporary(o.id), Quarantine(o.id)} : entry'[n] = entry[n],
           Calm(o) => (Waiting(o) \/ Between(o) \/ Done(o))'
    PROVE  RowsInv' /\ Plan' /\ LedgerMatchesTree'
  <1>1. /\ journal = {o} /\ Temporary(o.id) \in Private /\ Quarantine(o.id) \in Private
        /\ o.kind # "prepare" => o.path \in Paths
    BY RowFacts
  <1>2. \A p \in Paths : p # o.path => entry'[p] = entry[p]
    BY <1>1, NameTypes
  <1>3. RowsInv'
    BY <1>1 DEF TreeInv, RowsInv, Calm, Changing
  <1>4. Plan'
    <2>1. \A a \in todo : a.kind # "prepare" => entry'[a.path] = entry[a.path]
      BY <1>2, RowFacts DEF TypeInv, Shape, TreeInv, Plan
    <2>2. QED
      BY <2>1 DEF TreeInv, Plan, Changing
  <1>5. LedgerMatchesTree'
    BY <1>1, <1>2 DEF TreeInv, LedgerMatchesTree, Journaled
  <1>6. QED
    BY <1>3, <1>4, <1>5

(* Steps of an operation on its path and its private names.                 *)
LEMMA SymlinkTree ==
    ASSUME TypeInv, OneInv, TreeInv, Symlink, UNCHANGED history, ~Fail
    PROVE  RowsInv' /\ Plan' /\ LedgerMatchesTree' /\ Progress'
  <1>1. /\ pc \in Working /\ pc' = "observe" /\ entry[op.path] = None
        /\ entry' = [entry EXCEPT ![op.path] = op.target]
        /\ UNCHANGED <<owned, journal, touched, todo, op>>
    BY DEF Symlink, Goto, local, db, history, Working, Labels
  <1>2. Progress'
    BY <1>1, ProgressElse DEF Watched, Deleting
  <1>3. PICK o : o = op
    OBVIOUS
  <1>4. o.kind = "create"
    BY <1>3 DEF Symlink, TreeInv, Stages
  <1>5. /\ o \in journal /\ o.path \in Names /\ o.path # Temporary(o.id) /\ o.path # Quarantine(o.id)
    BY <1>1, <1>3, <1>4, RowFacts
  <1>6. /\ entry'[o.path] = o.target
        /\ \A n \in Names \ {o.path} : entry'[n] = entry[n]
    BY <1>1, <1>3, <1>5 DEF TypeInv, TypeOK
  <1>7. Calm(o) => Done(o)'
    <2>1. Calm(o) => (Waiting(o) \/ Done(o)) /\ o.previous = None
      BY <1>4, <1>5 DEF TreeInv, RowsInv, Between, Displaced, Changing
    <2>2. QED
      <3>1. SUFFICES ASSUME Calm(o) PROVE Done(o)'
        OBVIOUS
      <3>2. Temporary(o.id) \in Names /\ Quarantine(o.id) \in Names
        BY <1>1, <1>3, RowFacts
      <3>3. Waiting(o)
        BY <2>1, <3>1, <1>1, <1>3, <1>4, <1>5 DEF Waiting, Done, TreeInv, RowsInv, Changing
      <3>4. QED
        BY <3>1, <3>2, <3>3, <1>4, <1>5, <1>6, <2>1 DEF Waiting, Done
  <1>8. QED
    BY <1>1, <1>2, <1>3, <1>6, <1>7, WriteTree

LEMMA StageTree ==
    ASSUME TypeInv, OneInv, TreeInv, Stage, UNCHANGED history, ~Fail
    PROVE  RowsInv' /\ Plan' /\ LedgerMatchesTree' /\ Progress'
  <1>1. /\ pc \in Working /\ UNCHANGED <<owned, journal, touched, todo, op>>
        /\ entry' = [entry EXCEPT ![Temporary(op.id)] = op.target]
        /\ (pc = "stage" /\ pc' = "check") \/ (pc = "resume" /\ pc' = "publish")
    BY DEF Stage, Goto, local, db, history, Working, Labels
  <1>2. PICK o : o = op
    OBVIOUS
  <1>3. /\ Temporary(o.id) \in Names /\ Temporary(o.id) # Quarantine(o.id) /\ o.kind = "replace"
        /\ o.path # Temporary(o.id)
    BY <1>1, <1>2, RowFacts DEF TreeInv, Stages
  <1>4. /\ entry'[Temporary(o.id)] = o.target
        /\ \A n \in Names \ {Temporary(o.id)} : entry'[n] = entry[n]
    BY <1>1, <1>2, <1>3 DEF TypeInv, TypeOK
  <1>5. o.path \in Names /\ Quarantine(o.id) \in Names
    BY <1>1, <1>2, <1>3, RowFacts
  <1>6. ASSUME Calm(o), pc = "stage"
        PROVE  Waiting(o)'
    <2>1. Waiting(o)
      BY <1>2, <1>6 DEF TreeInv, Progress
    <2>2. QED
      BY <2>1, <1>3, <1>4, <1>5 DEF Waiting
  <1>7. ASSUME Calm(o), pc = "resume"
        PROVE  Between(o)'
    <2>1. Between(o)
      BY <1>2, <1>7 DEF TreeInv, Progress
    <2>2. QED
      BY <2>1, <1>3, <1>4, <1>5 DEF Between, Displaced
  <1>8. RowsInv' /\ Plan' /\ LedgerMatchesTree'
    BY <1>1, <1>2, <1>4, <1>6, <1>7, WriteTree
  <1>9. Progress'
    <2>1. Calm(op)' => Calm(o) /\ op' = o
      BY <1>1, <1>2 DEF Calm
    <2>2. QED
      BY <1>1, <1>4, <1>6, <1>7, <2>1 DEF Progress, Lone, Deleting
  <1>10. QED
    BY <1>8, <1>9

LEMMA ExchangeTree ==
    ASSUME TypeInv, OneInv, TreeInv, ExchangeLeaf, UNCHANGED history, ~Fail
    PROVE  RowsInv' /\ Plan' /\ LedgerMatchesTree' /\ Progress'
  <1>1. /\ pc \in Working /\ UNCHANGED <<owned, journal, touched, todo, op>>
        /\ entry' = Swapped /\ pc = "exchange" /\ pc' = "exchanged"
    BY DEF ExchangeLeaf, Swap, Goto, local, db, history, Working, Labels
  <1>2. PICK o : o = op
    OBVIOUS
  <1>3. o.kind = "replace"
    BY <1>1, <1>2 DEF TreeInv, Stages
  <1>4. /\ Temporary(o.id) \in Names /\ Temporary(o.id) # Quarantine(o.id) /\ o.path \in Names
        /\ o.path # Temporary(o.id) /\ Quarantine(o.id) \in Names /\ o.path # Quarantine(o.id)
    BY <1>1, <1>2, <1>3, RowFacts
  <1>5. /\ entry'[Temporary(o.id)] = entry[o.path] /\ entry'[o.path] = entry[Temporary(o.id)]
        /\ \A n \in Names \ {Temporary(o.id), o.path} : entry'[n] = entry[n]
    BY <1>1, <1>2, <1>4 DEF TypeInv, TypeOK, Swapped
  <1>6. Calm(o) => Done(o)' /\ entry'[Temporary(o.id)] = o.previous
    <2>1. Calm(o) => Waiting(o) /\ Lone(o)
      BY <1>1, <1>2, <1>3 DEF TreeInv, Progress
    <2>2. QED
      BY <2>1, <1>4, <1>5 DEF Waiting, Lone, Done
  <1>7. RowsInv' /\ Plan' /\ LedgerMatchesTree'
    BY <1>1, <1>2, <1>5, <1>6, WriteTree
  <1>8. Progress'
    <2>1. Calm(op)' => Calm(o) /\ op' = o
      BY <1>1, <1>2 DEF Calm
    <2>2. QED
      BY <1>1, <1>6, <2>1 DEF Progress, Deleting
  <1>9. QED
    BY <1>7, <1>8

LEMMA SwapBackTree ==
    ASSUME TypeInv, OneInv, TreeInv, SwapBack, UNCHANGED history, ~Fail
    PROVE  RowsInv' /\ Plan' /\ LedgerMatchesTree' /\ Progress'
  <1>1. /\ pc \in Working /\ UNCHANGED <<owned, journal, touched>> /\ todo' = {} /\ op' = None
        /\ entry' = Swapped /\ pc = "swap back" /\ pc' = "idle"
    BY DEF SwapBack, Swap, Stop, db, history, Working, Labels
  <1>2. PICK o : o = op
    OBVIOUS
  <1>3. ~Calm(o)
    BY <1>1, <1>2 DEF TreeInv, Progress
  <1>4. \A n \in Names \ {o.path, Temporary(o.id)} : entry'[n] = entry[n]
    BY <1>1, <1>2 DEF TypeInv, TypeOK, Swapped
  <1>5. RowsInv' /\ Plan' /\ LedgerMatchesTree'
    BY <1>1, <1>2, <1>3, <1>4, WriteTree
  <1>6. QED
    BY <1>1, <1>5, ProgressElse DEF Watched, Deleting

LEMMA DisplaceTree ==
    ASSUME TypeInv, OneInv, TreeInv, Displace, UNCHANGED history, ~Fail
    PROVE  RowsInv' /\ Plan' /\ LedgerMatchesTree' /\ Progress'
  <1>1. /\ pc \in Working /\ UNCHANGED <<owned, journal, touched, todo, op>>
        /\ entry' = Renamed(op.path, Quarantine(op.id)) /\ pc = "displace" /\ pc' = "displaced"
    BY DEF Displace, Goto, local, db, history, Working, Labels
  <1>2. PICK o : o = op
    OBVIOUS
  <1>3. o.kind \in {"replace", "remove"}
    BY <1>1, <1>2 DEF TreeInv, Stages
  <1>4. /\ Temporary(o.id) \in Names /\ Temporary(o.id) # Quarantine(o.id) /\ o.path \in Names
        /\ o.path # Temporary(o.id) /\ Quarantine(o.id) \in Names /\ o.path # Quarantine(o.id)
        /\ o \in journal
    BY <1>1, <1>2, <1>3, RowFacts
  <1>5. /\ entry'[Quarantine(o.id)] = entry[o.path] /\ entry'[o.path] = None
        /\ \A n \in Names \ {Quarantine(o.id), o.path} : entry'[n] = entry[n]
    BY <1>1, <1>2, <1>4 DEF TypeInv, TypeOK, Renamed
  <1>6. Calm(o) => /\ entry'[Quarantine(o.id)] = o.previous
                   /\ entry'[Temporary(o.id)] = entry[Temporary(o.id)]
                   /\ Waiting(o) /\ (o.kind = "replace" => Lone(o)) /\ Changing(o)
    BY <1>1, <1>2, <1>4, <1>5 DEF TreeInv, Progress, Waiting, RowsInv
  <1>7. Calm(o) => (Between(o) \/ Done(o))'
    <2>1. CASE o.kind = "replace"
      BY <2>1, <1>5, <1>6 DEF Between, Displaced, Waiting
    <2>2. CASE o.kind = "remove"
      BY <2>2, <1>5, <1>6 DEF Done, Waiting, Changing
    <2>3. QED
      BY <1>3, <2>1, <2>2
  <1>8. RowsInv' /\ Plan' /\ LedgerMatchesTree'
    BY <1>1, <1>2, <1>5, <1>7, WriteTree
  <1>9. Progress'
    <2>1. Calm(op)' => Calm(o) /\ op' = o
      BY <1>1, <1>2 DEF Calm
    <2>2. Calm(o) => /\ entry'[Temporary(o.id)] \in {None, o.target}
                     /\ o.kind = "replace" => Lone(o)'
      BY <1>6 DEF Waiting, Lone
    <2>3. QED
      BY <1>1, <1>5, <1>6, <2>1, <2>2 DEF Progress, Deleting
  <1>10. QED
    BY <1>8, <1>9

LEMMA RestoreTree ==
    ASSUME TypeInv, OneInv, TreeInv, Restore, UNCHANGED history, ~Fail
    PROVE  RowsInv' /\ Plan' /\ LedgerMatchesTree' /\ Progress'
  <1>1. /\ pc \in Working /\ UNCHANGED <<owned, journal, touched>> /\ todo' = {} /\ op' = None
        /\ entry' = Renamed(Quarantine(op.id), op.path) /\ pc = "restore" /\ pc' = "idle"
    BY DEF Restore, Stop, db, history, Working, Labels
  <1>2. PICK o : o = op
    OBVIOUS
  <1>3. o.kind \in {"replace", "remove"}
    BY <1>1, <1>2 DEF TreeInv, Stages
  <1>4. /\ Temporary(o.id) \in Names /\ Temporary(o.id) # Quarantine(o.id) /\ o.path \in Names
        /\ o.path # Temporary(o.id) /\ Quarantine(o.id) \in Names /\ o.path # Quarantine(o.id)
    BY <1>1, <1>2, <1>3, RowFacts
  <1>5. /\ entry'[o.path] = entry[Quarantine(o.id)] /\ entry'[Quarantine(o.id)] = None
        /\ \A n \in Names \ {Quarantine(o.id), o.path} : entry'[n] = entry[n]
    BY <1>1, <1>2, <1>4 DEF TypeInv, TypeOK, Renamed
  <1>6. Calm(o) => Waiting(o)'
    <2>1. Calm(o) => Between(o)
      BY <1>1, <1>2 DEF TreeInv, Progress
    <2>2. QED
      BY <2>1, <1>4, <1>5 DEF Waiting, Between, Displaced
  <1>7. RowsInv' /\ Plan' /\ LedgerMatchesTree'
    BY <1>1, <1>2, <1>5, <1>6, WriteTree
  <1>8. QED
    BY <1>1, <1>7, ProgressElse DEF Watched, Deleting

LEMMA PublishTree ==
    ASSUME TypeInv, OneInv, TreeInv, Publish, UNCHANGED history, ~Fail
    PROVE  RowsInv' /\ Plan' /\ LedgerMatchesTree' /\ Progress'
  <1>1. /\ pc \in Working /\ UNCHANGED <<owned, journal, touched, todo, op>>
        /\ entry' = Renamed(Temporary(op.id), op.path) /\ pc = "publish" /\ pc' = "discard"
        /\ after' = "observe"
    BY DEF Publish, Discard, db, history, Working, Labels
  <1>2. PICK o : o = op
    OBVIOUS
  <1>3. o.kind = "replace"
    BY <1>1, <1>2 DEF TreeInv, Stages
  <1>4. /\ Temporary(o.id) \in Names /\ Temporary(o.id) # Quarantine(o.id) /\ o.path \in Names
        /\ o.path # Temporary(o.id) /\ Quarantine(o.id) \in Names /\ o.path # Quarantine(o.id)
    BY <1>1, <1>2, <1>3, RowFacts
  <1>5. /\ entry'[o.path] = entry[Temporary(o.id)] /\ entry'[Temporary(o.id)] = None
        /\ \A n \in Names \ {Temporary(o.id), o.path} : entry'[n] = entry[n]
    BY <1>1, <1>2, <1>4 DEF TypeInv, TypeOK, Renamed
  <1>6. Calm(o) => Done(o)'
    <2>1. Calm(o) => Between(o) /\ Lone(o)
      BY <1>1, <1>2 DEF TreeInv, Progress
    <2>2. QED
      BY <2>1, <1>4, <1>5 DEF Between, Displaced, Lone, Done
  <1>7. RowsInv' /\ Plan' /\ LedgerMatchesTree'
    BY <1>1, <1>2, <1>5, <1>6, WriteTree
  <1>8. Progress'
    <2>1. Calm(op)' => Calm(o) /\ op' = o
      BY <1>1, <1>2 DEF Calm
    <2>2. QED
      BY <1>1, <1>6, <2>1 DEF Progress, Deleting
  <1>9. QED
    BY <1>7, <1>8

(* What is deleted has a private name of the operation under way.           *)
LEMMA DoomedName ==
    ASSUME TypeInv, Stages, pc \in Deleting \/ (pc = "discard" /\ discards # <<>>)
    PROVE  Doomed \in {Temporary(op.id), Quarantine(op.id)} /\ op.kind \in {"replace", "remove"}
  <1>1. /\ op.kind \in {"replace", "remove"} /\ discards # <<>>
        /\ \A i \in DOMAIN discards : discards[i].name \in {Temporary(op.id), Quarantine(op.id)}
    BY DEF Stages, TypeInv, Shape, Deleting
  <1>2. QED
    BY <1>1, ShorterList

LEMMA MoveTree ==
    ASSUME TypeInv, OneInv, TreeInv, MovePrivate, UNCHANGED history
    PROVE  RowsInv' /\ Plan' /\ LedgerMatchesTree' /\ Progress'
  <1>1. /\ pc \in Working /\ UNCHANGED <<owned, journal, touched, todo, op, after>>
        /\ entry' = [entry EXCEPT ![Doomed] = None] /\ pc = "move" /\ pc' = "unlink"
    BY DEF MovePrivate, Goto, local, db, history, Working, Labels
  <1>2. PICK o : o = op
    OBVIOUS
  <1>3. Doomed \in {Temporary(o.id), Quarantine(o.id)} /\ o.kind \in {"replace", "remove"}
    BY <1>1, <1>2, DoomedName DEF TreeInv, Deleting
  <1>4. /\ Temporary(o.id) \in Names /\ Temporary(o.id) # Quarantine(o.id) /\ o.path \in Names
        /\ o.path # Temporary(o.id) /\ Quarantine(o.id) \in Names /\ o.path # Quarantine(o.id)
    BY <1>1, <1>2, <1>3, RowFacts
  <1>5. /\ entry'[Doomed] = None /\ \A n \in Names \ {Doomed} : entry'[n] = entry[n]
    BY <1>1, <1>3, <1>4 DEF TypeInv, TypeOK
  <1>6. Calm(o) => IF after = "observe" THEN Done(o) ELSE Waiting(o)
    BY <1>1, <1>2 DEF TreeInv, Progress, Deleting
  <1>7. Done(o) => Done(o)'
    BY <1>3, <1>4, <1>5 DEF Done
  <1>8. Waiting(o) => Waiting(o)'
    BY <1>3, <1>4, <1>5 DEF Waiting
  <1>9. RowsInv' /\ Plan' /\ LedgerMatchesTree'
    BY <1>1, <1>2, <1>3, <1>5, <1>6, <1>7, <1>8, WriteTree
  <1>10. Progress'
    <2>1. Calm(op)' => Calm(o) /\ op' = o
      BY <1>1, <1>2 DEF Calm
    <2>2. QED
      BY <1>1, <1>6, <1>7, <1>8, <2>1 DEF Progress, Deleting
  <1>11. QED
    BY <1>9, <1>10

(* Other steps of a deletion write no entry.                                *)
LEMMA DeleteTree ==
    ASSUME TypeInv, TreeInv, UNCHANGED history, ~Fail,
           \/ OpenPrivate \/ MakePrivate \/ RecordPrivate \/ UnlinkPrivate
           \/ MarkPrivate \/ RemovePrivate \/ ForgetPrivate
    PROVE  RowsInv' /\ Plan' /\ LedgerMatchesTree' /\ Progress'
  <1>1. /\ UNCHANGED <<entry, owned, journal, touched, todo, op, after>>
        /\ pc' \in Deleting \cup {"discard"} /\ (pc = "discard" \/ pc \in Deleting)
    BY DEF OpenPrivate, MakePrivate, RecordPrivate, UnlinkPrivate, MarkPrivate, RemovePrivate,
           ForgetPrivate, Goto, NextDiscard, local, disk, db, history, Deleting
  <1>2. Progress'
    BY <1>1, ProgressSame DEF TreeInv
  <1>3. QED
    BY <1>1, <1>2, QuietTree

(* Recovery carries out, cancels or clears away the row it finds.           *)
LEMMA RecoverTree ==
    ASSUME TypeInv, TreeInv, RecoverRow, UNCHANGED history, ~Fail
    PROVE  RowsInv' /\ Plan' /\ LedgerMatchesTree' /\ Progress'
  <1>1. /\ UNCHANGED <<entry, owned, journal, touched, todo>>
        /\ op' \in journal /\ pc = "recover"
    BY DEF RecoverRow, disk, db, history
  <1>2. todo = {}
    BY <1>1 DEF TreeInv, Control
  <1>3. RowsInv' /\ Plan' /\ LedgerMatchesTree'
    BY <1>1, <1>2, QuietTree
  <1>4. Progress'
    <2>1. CASE pc' = "execute"
      BY <2>1, ProgressElse DEF Watched, Deleting
    <2>2. PICK o \in journal : o = op'
      BY <1>1
    <2>3. pc' # "execute" => /\ pc' = "cancel" \/ (pc' = "discard" /\ after' = "cancel")
                             /\ Unapplied(o) /\ (o.kind = "replace" <=> pc' = "discard")
      BY <2>2 DEF RecoverRow
    <2>4. ASSUME pc' # "execute", Calm(o)
          PROVE  Waiting(o)'
      <3>1. entry[o.path] = o.previous
        BY <2>3, <2>4 DEF Unapplied, TreeInv, RowsInv, Changing
      <3>2. Waiting(o)
        BY <3>1, <2>4, HowFar DEF TreeInv
      <3>3. QED
        BY <3>2, <1>1 DEF Waiting
    <2>5. Calm(op)' => Calm(o)
      BY <2>2, <1>1 DEF Calm
    <2>6. QED
      BY <2>1, <2>2, <2>3, <2>4, <2>5 DEF Progress, Deleting
  <1>5. QED
    BY <1>3, <1>4

(* What the plan says of a path and what it found there.                    *)
LEMMA DeltaPlan ==
    ASSUME ~Blocked, LedgerMatchesTree, journal = {}
    PROVE  /\ \A a, b \in Delta : a.path = b.path => a = b
           /\ \A a \in Delta : a.kind = "prepare" => a.path = None
           /\ \A a \in Delta : a.kind # "prepare" /\ a.path \notin touched =>
                 Changing(a) /\ entry[a.path] = a.previous /\ owned[a.path] = a.previous
  <1>1. \A a \in Delta : a = Prepare \/
            \E p \in Paths : /\ a = Change(p) /\ a.kind # "unchanged"
                             /\ Desired(p) # None \/ owned[p] # None
    BY DEF Delta
  <1>2. Prepare.kind = "prepare" /\ Prepare.path = None /\ None \notin Paths
    BY NamesAssumption DEF Prepare
  <1>3. \A p \in Paths : /\ Change(p).path = p /\ Change(p).kind = Kind(p) /\ Kind(p) # "prepare"
                         /\ Change(p).target = Desired(p) /\ Change(p).previous = owned[p]
    BY DEF Change, Kind
  <1>4. ASSUME NEW p \in Paths \ touched, Kind(p) # "unchanged", Desired(p) # None \/ owned[p] # None
        PROVE  Changing(Change(p)) /\ entry[p] = owned[p]
    <2>1. entry[p] = owned[p]
      BY <1>4 DEF LedgerMatchesTree, Journaled
    <2>2. \/ Kind(p) = "create" /\ Desired(p) # None /\ entry[p] = None
          \/ Kind(p) = "replace" /\ Desired(p) # None /\ entry[p] # None /\ entry[p] # Desired(p)
          \/ Kind(p) = "remove" /\ Desired(p) = None /\ entry[p] # None
      <3>1. CASE Desired(p) # None /\ entry[p] = None
        BY <3>1 DEF Kind
      <3>2. CASE Desired(p) # None /\ entry[p] # None
        BY <1>4, <3>2 DEF Kind
      <3>3. CASE Desired(p) = None /\ entry[p] # None
        BY <3>3 DEF Kind
      <3>4. QED
        BY <1>4, <2>1, <3>1, <3>2, <3>3
    <2>3. QED
      BY <1>3, <2>1, <2>2 DEF Changing
  <1>5. QED
    BY <1>1, <1>2, <1>3, <1>4

LEMMA CommandTree ==
    ASSUME TreeInv, Command, UNCHANGED history
    PROVE  RowsInv' /\ Plan' /\ LedgerMatchesTree' /\ Progress'
  <1>1. /\ UNCHANGED <<entry, owned, journal, touched, op>> /\ op = None
        /\ pc' \in {"next", "recover", "verify"}
    BY DEF Command, Apply, Recover, Reverify, disk, db, history, TreeInv, Control
  <1>2. RowsInv' /\ LedgerMatchesTree'
    BY <1>1 DEF TreeInv, RowsInv, LedgerMatchesTree, Journaled, Calm, Changing, Waiting, Between,
                Displaced, Done
  <1>3. Plan'
    <2>1. CASE todo' = todo
      BY <1>1, <2>1 DEF TreeInv, Plan, Changing
    <2>2. CASE Apply
      BY <1>1, <2>2, DeltaPlan DEF Apply, TreeInv, Plan, Changing
    <2>3. QED
      BY <2>1, <2>2 DEF Command, Recover, Reverify
  <1>4. QED
    BY <1>1, <1>2, <1>3, ProgressElse DEF Watched, Deleting

(* An action of the plan becomes the row, under names that nothing bears.   *)
LEMMA BeginTree ==
    ASSUME TypeInv, OneInv, TreeInv, Begin, UNCHANGED history
    PROVE  RowsInv' /\ Plan' /\ LedgerMatchesTree' /\ Progress'
  <1>1. PICK a \in todo, id \in Ids :
            /\ Unused(id) /\ todo' = todo \ {a}
            /\ op' = [id |-> id, kind |-> a.kind, path |-> a.path,
                      target |-> a.target, previous |-> a.previous]
            /\ journal' = journal \cup {op'}
    BY DEF Begin
  <1>2. /\ journal = {} /\ pc' = "execute" /\ UNCHANGED <<entry, owned, touched>>
    BY DEF Begin, OneInv, disk, history
  <1>3. PICK o : o = op'
    OBVIOUS
  <1>4. /\ journal' = {o} /\ o # None /\ o.id = id /\ o.kind = a.kind /\ o.path = a.path
        /\ o.target = a.target /\ o.previous = a.previous
    <2>1. op' \in Rows
      BY <1>1 DEF TypeInv, TypeOK, Rows, Actions
    <2>2. QED
      BY <1>1, <1>2, <1>3, <2>1, NoneAssumption
  <1>5. entry[Temporary(id)] = None /\ entry[Quarantine(id)] = None
    BY <1>1 DEF Unused
  <1>6. /\ a.kind = "prepare" => a.path = None
        /\ a.kind # "prepare" /\ a.path \notin touched =>
              Changing(a) /\ entry[a.path] = a.previous /\ owned[a.path] = a.previous
    BY DEF TreeInv, Plan
  <1>7. RowsInv'
    <2>1. Calm(o)' => Changing(o) /\ Waiting(o)' /\ owned'[o.path] = o.previous
      BY <1>2, <1>4, <1>5, <1>6 DEF Calm, Changing, Waiting
    <2>2. QED
      BY <1>4, <1>6, <2>1 DEF RowsInv, Changing
  <1>8. Plan'
    BY <1>1, <1>2, <1>3, <1>4 DEF TreeInv, Plan, Changing
  <1>9. LedgerMatchesTree'
    BY <1>2 DEF TreeInv, LedgerMatchesTree, Journaled
  <1>10. QED
    BY <1>2, <1>7, <1>8, <1>9, ProgressElse DEF Watched, Deleting

(* A row is dropped or acknowledged: the path shows what the ledger says.   *)
LEMMA SettleTree ==
    ASSUME TypeInv, OneInv, TreeInv, Cancel \/ Commit, UNCHANGED history
    PROVE  RowsInv' /\ Plan' /\ LedgerMatchesTree' /\ Progress'
  <1>1. /\ pc \in Working /\ UNCHANGED <<entry, touched, todo, op>>
        /\ pc' \in {"next", "recover"}
        /\ journal' = {r \in journal : r.id # op.id}
    BY DEF Cancel, Commit, Goto, local, disk, history, Working, Labels
  <1>2. PICK o : o = op
    OBVIOUS
  <1>3. /\ journal = {o} /\ o # None /\ o \in journal /\ o.path \in Paths \cup {None}
        /\ o.kind # "prepare" => o.path \in Paths
    BY <1>1, <1>2, RowFacts DEF Rows
  <1>4. journal' = {}
    BY <1>1, <1>2, <1>3
  <1>5. /\ o.kind = "prepare" => o.path \notin Paths
        /\ Calm(o) => entry[o.path] = owned'[o.path]
        /\ \A p \in Paths : p # o.path => owned'[p] = owned[p]
    <2>1. o.kind = "prepare" => o.path \notin Paths
      BY <1>3, NamesAssumption DEF TreeInv, RowsInv
    <2>2. CASE Cancel
      BY <1>2, <1>3, <2>1, <2>2 DEF Cancel, TreeInv, Progress, Waiting, RowsInv
    <2>3. CASE Commit
      <3>1. /\ Calm(o) => entry[o.path] = o.target
            /\ o.kind # "prepare" => owned' = [owned EXCEPT ![o.path] = o.target]
            /\ o.kind = "prepare" => owned' = owned
        BY <1>2, <2>3 DEF Commit, TreeInv, Progress
      <3>2. QED
        BY <1>3, <2>1, <3>1 DEF Calm, TypeInv, TypeOK
    <2>4. QED
      BY <2>2, <2>3
  <1>6. LedgerMatchesTree'
    <2>1. ASSUME NEW p \in Paths \ touched
          PROVE  entry'[p] = owned'[p]
      <3>1. CASE p = o.path
        BY <1>1, <1>3, <1>5, <2>1, <3>1 DEF Calm
      <3>2. CASE p # o.path
        BY <1>1, <1>3, <1>5, <2>1, <3>2 DEF TreeInv, LedgerMatchesTree, Journaled
      <3>3. QED
        BY <3>1, <3>2
    <2>2. QED
      BY <1>1, <2>1 DEF LedgerMatchesTree
  <1>7. Plan'
    BY <1>1, <1>2, <1>3, <1>5 DEF TreeInv, Plan, Changing, TypeInv, Shape
  <1>8. RowsInv'
    BY <1>4 DEF RowsInv
  <1>9. QED
    BY <1>1, <1>6, <1>7, <1>8, ProgressElse DEF Watched, Deleting

(* Others write names of one path, which counts as touched from then on.    *)
LEMMA OthersTree ==
    ASSUME TypeInv, OneInv, TreeInv, OtherWrites
    PROVE  RowsInv' /\ Plan' /\ LedgerMatchesTree' /\ Progress'
  <1>1. PICK p \in Paths, n \in Names, e \in Entries :
            /\ n \in Touchable(p) /\ entry' = [entry EXCEPT ![n] = e] /\ touched' = touched \cup {p}
    BY TouchableNames DEF OtherWrites, Entries
  <1>2. UNCHANGED <<owned, journal, todo, op, after, pc>>
    BY DEF OtherWrites, db, local
  <1>3. /\ \A q \in Paths : q # p => entry'[q] = entry[q]
        /\ \A o \in journal : o.path # p =>
              /\ o.path \in Names => entry'[o.path] = entry[o.path]
              /\ entry'[Temporary(o.id)] = entry[Temporary(o.id)]
              /\ entry'[Quarantine(o.id)] = entry[Quarantine(o.id)]
    <2>1. n = p \/ \E r \in journal : r.path = p /\ n \in {Temporary(r.id), Quarantine(r.id)}
      BY <1>1 DEF Touchable
    <2>2. \A r \in journal : r.id \in Ids
      BY DEF TypeInv, TypeOK, Rows
    <2>3. entry \in [Names -> Entries] /\ Paths \subseteq Names /\ Private \subseteq Names
      BY NameTypes DEF TypeInv, TypeOK
    <2>4. \A q \in Paths : q # p => n # q
      BY <2>1, <2>2, NameTypes
    <2>5. ASSUME NEW o \in journal, o.path # p
          PROVE  n = p /\ Temporary(o.id) \in Private /\ Quarantine(o.id) \in Private
      BY <2>1, <2>2, <2>5, NameTypes DEF OneInv, OneOutstanding
    <2>6. QED
      BY <1>1, <2>3, <2>4, <2>5, NameTypes
  <1>4. \A o \in journal : o.kind # "prepare" => o.path \in Names
    BY NameTypes DEF TypeInv, Shape
  <1>5. RowsInv'
    <2>1. ASSUME NEW o \in journal, Calm(o)'
          PROVE  /\ Changing(o) /\ owned'[o.path] = o.previous
                 /\ (Waiting(o) \/ Between(o) \/ Done(o))'
      <3>1. Calm(o) /\ o.path # p
        BY <1>1, <2>1 DEF Calm
      <3>2. QED
        BY <1>2, <1>3, <1>4, <3>1 DEF Calm, TreeInv, RowsInv, Waiting, Between, Displaced, Done
    <2>2. QED
      BY <1>2, <2>1 DEF TreeInv, RowsInv, Changing
  <1>6. Plan'
    <2>1. \A a \in todo : a.kind # "prepare" /\ a.path \notin touched' => entry'[a.path] = entry[a.path]
      BY <1>1, <1>3 DEF TypeInv, Shape
    <2>2. QED
      BY <1>1, <1>2, <2>1 DEF TreeInv, Plan, Changing
  <1>7. LedgerMatchesTree'
    BY <1>1, <1>2, <1>3 DEF TreeInv, LedgerMatchesTree, Journaled
  <1>8. Progress'
    <2>1. CASE pc \notin Watched
      BY <1>2, <2>1, ProgressElse
    <2>2. CASE pc \in Watched /\ Calm(op)'
      <3>1. op \in journal /\ Calm(op) /\ op.path # p /\ op.kind # "prepare"
        BY <1>1, <1>2, <2>2 DEF Calm, Watched, Deleting, Working, Labels, TypeInv, Shape
      <3>2. QED
        BY <1>2, <1>3, <1>4, <3>1
           DEF TreeInv, Progress, Waiting, Between, Displaced, Done, Lone
    <2>3. QED
      BY <2>1, <2>2 DEF Progress
  <1>9. QED
    BY <1>5, <1>6, <1>7, <1>8

(* What the environment does elsewhere, and the publisher's moves between   *)
(* operations.                                                              *)
LEMMA AroundTree ==
    ASSUME TypeInv, TreeInv,
           UNCHANGED <<entry, owned, journal, todo, op, after, pc>>, touched \subseteq touched'
    PROVE  RowsInv' /\ Plan' /\ LedgerMatchesTree' /\ Progress'
  BY QuietTree, ProgressSame DEF TreeInv

LEMMA BetweenTree ==
    ASSUME TypeInv, OneInv, TreeInv, Applied \/ Recovered \/ Discarded \/ Observe \/ Verify,
           UNCHANGED history, ~Fail
    PROVE  RowsInv' /\ Plan' /\ LedgerMatchesTree' /\ Progress'
  <1>1. UNCHANGED <<entry, owned, journal, touched, todo, op, after>>
    BY DEF Applied, Recovered, Discarded, Observe, Verify, Goto, local, disk, db, history
  <1>2. RowsInv' /\ Plan' /\ LedgerMatchesTree'
    BY <1>1, QuietTree
  <1>3. CASE Applied \/ Recovered \/ Verify
    BY <1>2, <1>3, ProgressElse DEF Applied, Recovered, Verify, Goto, Watched, Deleting
  <1>4. CASE Discarded
    <2>1. pc = "discard" /\ pc' = after /\ after \in {"observe", "cancel"}
      BY <1>4 DEF Discarded, Goto, TypeInv, TypeOK
    <2>2. Calm(op)' => Calm(op) /\ (after = "cancel" => Waiting(op)')
      BY <1>1, <2>1 DEF TreeInv, Progress, Calm, Waiting
    <2>3. QED
      BY <1>2, <2>1, <2>2 DEF Progress, Deleting
  <1>5. CASE Observe
    <2>1. pc' = "commit" /\ (op.kind # "prepare" => entry'[op'.path] = op'.target)
      BY <1>1, <1>5 DEF Observe, Goto
    <2>2. QED
      BY <1>1, <1>2, <2>1 DEF Progress, Calm, Deleting
  <1>6. QED
    BY <1>3, <1>4, <1>5

LEMMA TreeStep ==
    ASSUME TypeInv, OneInv, TreeInv, [Next]_vars
    PROVE  TreeInv'
  <1>1. Control' /\ Stages'
    BY ControlStep, StagesStep DEF TreeInv
  <1>2. CASE Publisher
    <2>1. CASE Fail
      BY <1>2, <2>1, FailTree DEF Publisher, history
    <2>2. CASE Notify
      BY <1>2, <2>2, StopTree DEF Publisher, Notify, Stop, disk, history
    <2>3. CASE Command
      BY <1>1, <1>2, <2>3, CommandTree DEF Publisher, TreeInv
    <2>4. CASE \/ Claim \/ WriteMarker \/ PublishedBefore \/ ResumeDisplaced \/ StartLink
               \/ CheckLeaf \/ VerifyExchanged \/ VerifyDisplaced \/ StartRemoval \/ Disowned
      BY <1>1, <1>2, <2>1, <2>4, DecideTree DEF Publisher, TreeInv, intent
    <2>5. CASE Symlink \/ Stage \/ ExchangeLeaf \/ SwapBack
      BY <1>1, <1>2, <2>1, <2>5, SymlinkTree, StageTree, ExchangeTree, SwapBackTree DEF Publisher, TreeInv
    <2>6. CASE Displace \/ Restore \/ Publish \/ MovePrivate
      BY <1>1, <1>2, <2>1, <2>6, DisplaceTree, RestoreTree, PublishTree, MoveTree DEF Publisher, TreeInv
    <2>7. CASE \/ OpenPrivate \/ MakePrivate \/ RecordPrivate \/ UnlinkPrivate
               \/ MarkPrivate \/ RemovePrivate \/ ForgetPrivate
      BY <1>1, <1>2, <2>1, <2>7, DeleteTree DEF Publisher, TreeInv
    <2>8. CASE Begin \/ RecoverRow \/ Cancel \/ Commit
      BY <1>1, <1>2, <2>1, <2>8, BeginTree, RecoverTree, SettleTree DEF Publisher, TreeInv
    <2>9. CASE Applied \/ Recovered \/ Discarded \/ Observe \/ Verify
      BY <1>1, <1>2, <2>1, <2>9, BetweenTree DEF Publisher, TreeInv
    <2>10. QED
      BY <1>2, <2>1, <2>2, <2>3, <2>4, <2>5, <2>6, <2>7, <2>8, <2>9 DEF Publisher, Step
  <1>3. CASE Crash
    BY <1>3, StopTree DEF Crash, disk, db, history
  <1>4. CASE OtherWrites
    BY <1>1, <1>4, OthersTree DEF TreeInv
  <1>5. CASE (Environment /\ ~Crash /\ ~OtherWrites) \/ OperatorClears \/ UNCHANGED vars
    <2>1. /\ UNCHANGED <<entry, owned, journal, todo, op, after, pc>>
          /\ touched \subseteq touched'
      BY <1>5 DEF Environment, Remap, Scan, SourceChanges, OtherMakesDirectory, OtherRemovesMarker,
                  OperatorClears, vars, disk, db, local, history
    <2>2. QED
      BY <1>1, <2>1, AroundTree DEF TreeInv
  <1>6. QED
    BY <1>2, <1>3, <1>4, <1>5 DEF Next, Environment

LEMMA TreeInit ==
    ASSUME Init
    PROVE  TreeInv
  BY DEF Init, TreeInv, Control, Plan, RowsInv, Stages, Progress, LedgerMatchesTree, Names, Deleting

(* Where nobody else wrote and no operation is outstanding the ledger and   *)
(* the tree agree: execute_operation, which is what apply and recover carry *)
(* rows out with, keeps them in step through any crash.                     *)
THEOREM LedgerMatchesTreeHolds == Spec => []LedgerMatchesTree
  <1>1. Init => TypeInv /\ OneInv /\ TreeInv
    BY TypeInit, TreeInit DEF Init, OneInv, OneOutstanding
  <1>2. TypeInv /\ OneInv /\ TreeInv /\ [Next]_vars => (TypeInv /\ OneInv /\ TreeInv)'
    BY TypeStep, OneStep, TreeStep
  <1>3. TreeInv => LedgerMatchesTree
    BY DEF TreeInv
  <1>4. QED
    BY <1>1, <1>2, <1>3, PTL DEF Spec

-----------------------------------------------------------------------------
(* Only these steps of the publisher write an entry.                        *)
Writing ==
    \/ Symlink \/ Stage \/ ExchangeLeaf \/ SwapBack
    \/ Displace \/ Restore \/ Publish \/ MovePrivate

LEMMA WritesEntries ==
    ASSUME Publisher, ~Writing
    PROVE  entry' = entry
  <1>1. CASE Fail
    BY <1>1 DEF Fail, disk
  <1>2. CASE Command
    BY <1>2 DEF Command, Apply, Recover, Reverify, disk
  <1>3. CASE Step /\ ~Fail
    <2>1. CASE Begin \/ Applied \/ RecoverRow \/ Recovered \/ Cancel \/ Observe \/ Commit \/ Verify \/ Notify
      BY <2>1, <1>3 DEF Begin, Applied, RecoverRow, Recovered, Cancel, Observe, Commit, Verify, Notify, disk
    <2>2. CASE \/ Claim \/ WriteMarker \/ PublishedBefore \/ ResumeDisplaced \/ StartLink
               \/ CheckLeaf \/ VerifyExchanged \/ VerifyDisplaced \/ StartRemoval \/ Disowned
      BY <2>2, <1>3 DEF Claim, WriteMarker, PublishedBefore, ResumeDisplaced, StartLink,
           CheckLeaf, VerifyExchanged, VerifyDisplaced, StartRemoval, Disowned, disk
    <2>3. CASE \/ OpenPrivate \/ Discarded \/ MakePrivate \/ RecordPrivate \/ UnlinkPrivate
               \/ MarkPrivate \/ RemovePrivate \/ ForgetPrivate
      BY <2>3, <1>3 DEF OpenPrivate, Discarded, MakePrivate, RecordPrivate, UnlinkPrivate, MarkPrivate,
           RemovePrivate, ForgetPrivate, disk
    <2>4. QED
      BY <1>3, <2>1, <2>2, <2>3 DEF Step, Writing
  <1>4. QED
    BY <1>1, <1>2, <1>3 DEF Publisher

(* What these steps do to the paths.                                        *)
LEMMA WritesPaths ==
    ASSUME TypeInv, Stages, Writing, ~Fail
    PROVE  /\ pc \in Working /\ op \in journal
           /\ \A p \in Paths : p # op.path => entry'[p] = entry[p]
           /\ op.path \in Paths /\ entry'[op.path] # entry[op.path] =>
                 \/ Symlink /\ entry[op.path] = None /\ entry'[op.path] = op.target
                 \/ ExchangeLeaf /\ entry'[op.path] # None /\ entry'[op.path] = entry[Temporary(op.id)]
                 \/ SwapBack /\ entry'[op.path] # None /\ entry'[op.path] = entry[Temporary(op.id)]
                 \/ Displace /\ entry'[op.path] = None
                 \/ Restore /\ entry[op.path] = None /\ entry'[op.path] = entry[Quarantine(op.id)]
                 \/ Publish /\ entry[op.path] = None /\ entry'[op.path] = entry[Temporary(op.id)]
  <1>1. /\ pc \in Working /\ op \in journal /\ op.id \in Ids
        /\ Temporary(op.id) \in Private /\ Quarantine(op.id) \in Private
    BY OpType, NameTypes DEF Writing, Symlink, Stage, ExchangeLeaf, SwapBack, Displace, Restore, Publish,
           MovePrivate, Working, Labels
  <1>2. entry \in [Names -> Entries] /\ Paths \subseteq Names /\ Private \subseteq Names
        /\ \A p \in Paths : p \notin Private
    BY NameTypes DEF TypeInv, TypeOK
  <1>3. CASE Symlink
    BY <1>1, <1>2, <1>3 DEF Symlink
  <1>4. CASE Stage
    BY <1>1, <1>2, <1>4 DEF Stage
  <1>5. CASE ExchangeLeaf \/ SwapBack
    BY <1>1, <1>2, <1>5 DEF ExchangeLeaf, SwapBack, Swap, Swapped
  <1>6. CASE Displace \/ Restore \/ Publish
    BY <1>1, <1>2, <1>6 DEF Displace, Restore, Publish, Renamed, CanRename
  <1>7. CASE MovePrivate
    <2>1. Doomed \in Private
      BY <1>7, DoomedType DEF MovePrivate, Deleting
    <2>2. QED
      BY <1>1, <1>2, <1>7, <2>1 DEF MovePrivate
  <1>8. QED
    BY <1>3, <1>4, <1>5, <1>6, <1>7 DEF Writing

(* With an exchange of names a path that shows a link shows one at every    *)
(* moment but for a removal: replace_leaf never displaces a link without    *)
(* its successor in place.                                                  *)
THEOREM ReplacedAtOnceHolds == Spec => ReplacedAtOnce
  <1>1. Init => TypeInv /\ OneInv /\ Stages
    BY TypeInit, TreeInit DEF Init, OneInv, OneOutstanding, TreeInv
  <1>2. TypeInv /\ OneInv /\ Stages /\ [Next]_vars => (TypeInv /\ OneInv /\ Stages)'
    BY TypeStep, OneStep, StagesStep
  <1>3. TypeInv /\ OneInv /\ Stages /\ [Next]_vars =>
            [Publisher /\ exchange => \A p \in Paths :
                entry[p] # None /\ entry'[p] = None => op.kind = "remove"]_vars
    <2>1. SUFFICES ASSUME TypeInv, Stages, Publisher, exchange, NEW p \in Paths,
                          entry[p] # None, entry'[p] = None
                   PROVE  op.kind = "remove"
      OBVIOUS
    <2>2. Writing /\ ~Fail
      BY <2>1, WritesEntries DEF Fail, disk
    <2>3. p = op.path /\ Displace
      BY <2>1, <2>2, WritesPaths
    <2>4. QED
      BY <2>1, <2>3 DEF Displace, Stages
  <1>4. QED
    BY <1>1, <1>2, <1>3, PTL DEF Spec, ReplacedAtOnce

-----------------------------------------------------------------------------
(* From the last look at its mapping to the link, the source of a link to   *)
(* be made is there for the last scan: scans need the writer lock.          *)
Linking == {"symlink", "stage", "check", "exchange", "displace", "displaced", "resume", "publish"}

Live == Calm(op) /\ pc \in Linking /\ op.target # None => src[op.target] # "missing"

LEMMA LinkingFrom ==
    ASSUME TypeInv, Publisher, pc' \in Linking
    PROVE  /\ op' = op /\ UNCHANGED <<src, touched>>
           /\ \/ pc \in Linking
              \/ pc = "execute" /\ StillWanted(op.path, op.target)
              \/ pc = "execute" /\ op.kind = "remove"
  <1>1. ~Fail /\ ~Command
    BY DEF Fail, Stop, Command, Apply, Recover, Reverify, Linking
  <1>2. ~(Begin \/ Applied \/ RecoverRow \/ Recovered \/ Cancel \/ Observe \/ Commit \/ Verify \/ Notify)
    BY <1>1 DEF Begin, Applied, RecoverRow, Recovered, Cancel, Observe, Commit, Verify, Notify, Goto, Stop,
           Linking
  <1>3. ~(\/ Claim \/ WriteMarker \/ PublishedBefore \/ VerifyExchanged \/ SwapBack \/ Restore
          \/ Publish \/ Disowned)
    BY <1>1 DEF Claim, WriteMarker, PublishedBefore, VerifyExchanged, SwapBack, Swap, Restore,
           Publish, Disowned, Goto, Discard, Stop, Linking
  <1>4. ~(\/ OpenPrivate \/ MakePrivate \/ RecordPrivate \/ MovePrivate \/ UnlinkPrivate
          \/ MarkPrivate \/ RemovePrivate \/ ForgetPrivate)
    BY <1>1 DEF OpenPrivate, MakePrivate, RecordPrivate, MovePrivate, UnlinkPrivate,
           MarkPrivate, RemovePrivate, ForgetPrivate, Goto, NextDiscard, Linking
  <1>5. CASE ResumeDisplaced \/ StartLink \/ StartRemoval
    BY <1>1, <1>5 DEF ResumeDisplaced, StartLink, StartRemoval, Goto, Discard, local, Linking,
           Publisher, intent, history
  <1>6. CASE Symlink \/ Stage \/ CheckLeaf \/ ExchangeLeaf \/ Displace \/ VerifyDisplaced
    BY <1>1, <1>6 DEF Symlink, Stage, CheckLeaf, ExchangeLeaf, Swap, Displace, VerifyDisplaced, Goto,
           Discard, local, Linking, Publisher, intent, history
  <1>7. ~Discarded
    BY DEF Discarded, Goto, TypeInv, TypeOK, Linking
  <1>8. QED
    BY <1>1, <1>2, <1>3, <1>4, <1>5, <1>6, <1>7 DEF Publisher, Step

LEMMA LiveStep ==
    ASSUME TypeInv, OneInv, TreeInv, Live, [Next]_vars
    PROVE  Live'
  <1>1. SUFFICES ASSUME Calm(op)', pc' \in Linking, op'.target # None
                 PROVE  src'[op'.target] # "missing"
    BY DEF Live
  <1>2. CASE Publisher
    <2>1. /\ op' = op /\ src' = src /\ Calm(op)
          /\ pc \in Linking \/ (pc = "execute" /\ StillWanted(op.path, op.target))
                            \/ (pc = "execute" /\ op.kind = "remove")
      BY <1>1, <1>2, LinkingFrom DEF Calm
    <2>2. pc \in Linking => src[op.target] # "missing"
      BY <1>1, <2>1 DEF Live
    <2>3. StillWanted(op.path, op.target) => src[op.target] # "missing"
      BY <1>1, <2>1 DEF StillWanted, Desired
    <2>4. pc = "execute" /\ op.kind = "remove" => op.target = None
      BY <2>1, OpType DEF Working, Labels, TreeInv, RowsInv, Changing
    <2>5. QED
      BY <1>1, <2>1, <2>2, <2>3, <2>4
  <1>3. CASE Crash
    BY <1>1, <1>3 DEF Crash, Linking
  <1>4. CASE SourceChanges
    BY <1>1, <1>4 DEF SourceChanges, local, history, Calm, Live, TypeInv, TypeOK
  <1>5. CASE (Environment /\ ~Crash /\ ~SourceChanges) \/ OperatorClears \/ UNCHANGED vars
    <2>1. pc' = pc /\ op' = op /\ touched \subseteq touched' /\ (src' = src \/ pc = "idle")
      BY <1>5 DEF Environment, Remap, Scan, OtherWrites, OtherMakesDirectory, OtherRemovesMarker,
                  OperatorClears, vars, intent, local, history
    <2>2. QED
      BY <1>1, <2>1 DEF Live, Calm, Linking
  <1>6. QED
    BY <1>2, <1>3, <1>4, <1>5 DEF Next, Environment

(* A row that a crash delayed does not make a link to a source that a scan  *)
(* has found missing since: recovery asks the mapping again                 *)
(* (validate_intent) before it resumes.                                     *)
THEOREM NoDeadLinksHolds == Spec => NoDeadLinks
  <1> DEFINE I == TypeInv /\ OneInv /\ TreeInv /\ Live
  <1>1. Init => I
    BY TypeInit, TreeInit DEF Init, OneInv, OneOutstanding, Live, Linking
  <1>2. I /\ [Next]_vars => I'
    BY TypeStep, OneStep, TreeStep, LiveStep
  <1>3. I /\ [Next]_vars =>
            [Publisher => \A p \in Paths \ touched :
                entry[p] # entry'[p] /\ op # None /\ entry'[p] = op.target /\ entry'[p] # None
                    => src[op.target] # "missing"]_vars
    <2>1. SUFFICES ASSUME I, Publisher, NEW p \in Paths \ touched, entry[p] # entry'[p],
                          op # None, entry'[p] = op.target, entry'[p] # None
                   PROVE  src[op.target] # "missing"
      OBVIOUS
    <2>2. Writing /\ ~Fail
      BY <2>1, WritesEntries DEF Fail, disk
    <2>3. /\ p = op.path /\ op \in journal
          /\ \/ Symlink \/ ExchangeLeaf \/ SwapBack \/ Publish
             \/ Restore /\ entry'[p] = entry[Quarantine(op.id)]
      BY <2>1, <2>2, WritesPaths DEF TreeInv
    <2>4. Calm(op)
      BY <2>1, <2>3 DEF Calm, TreeInv, Stages, Symlink, ExchangeLeaf, SwapBack, Publish, Restore
    <2>5. ~SwapBack
      BY <2>1, <2>4 DEF TreeInv, Progress, SwapBack
    <2>6. ~(Restore /\ entry'[p] = entry[Quarantine(op.id)])
      BY <2>1, <2>3, <2>4 DEF TreeInv, Progress, Restore, Between, Displaced, RowsInv, Changing
    <2>7. pc \in Linking
      BY <2>3, <2>5, <2>6 DEF Linking, Symlink, ExchangeLeaf, Publish
    <2>8. QED
      BY <2>1, <2>4, <2>7 DEF Live
  <1>4. QED
    BY <1>1, <1>2, <1>3, PTL DEF Spec, NoDeadLinks

-----------------------------------------------------------------------------
(* What is left under private names, with an exchange and where nobody else *)
(* wrote: only the old link of a replacement and what a removal took off    *)
(* its path, and only until their deletion, which has them on its list.     *)
Clean(n) == entry[n] = None /\ priv[n] = None /\ meta[n] = None

Excused(n) ==
    \E o \in journal :
        \/ o.kind = "replace" /\ n = Temporary(o.id)
        \/ o.kind = "remove" /\ n = Quarantine(o.id) /\ entry[o.path] = None

Queued(n) == \E i \in DOMAIN discards : discards[i].name = n

Swept ==
    /\ \A n \in Private : Clean(n) \/ Excused(n)
    /\ pc \in {"observe", "commit", "cancel"} => \A n \in Private : Clean(n)
    /\ pc = "discard" \/ pc \in Deleting => \A n \in Private : Clean(n) \/ Queued(n)
    /\ pc = "named" => priv[Doomed] = None /\ meta[Doomed] = None
    /\ pc \in {"record", "move"} => made
    /\ pc \in {"unlink", "mark", "rmdir", "unrecord"} /\ made => entry[Doomed] = None
    /\ pc = "unrecord" => priv[Doomed] = None

Leftovers == exchange /\ touched = {} => Swept

LEMMA SweptElse ==
    ASSUME pc' \notin {"observe", "commit", "cancel", "discard"} \cup Deleting,
           \A n \in Private : Clean(n)' \/ Excused(n)'
    PROVE  Swept'
  BY DEF Swept, Deleting

(* Outside a deletion a step that writes no entry leaves the names as they  *)
(* are.                                                                     *)
LEMMA SweptSame ==
    ASSUME Swept, UNCHANGED <<entry, priv, meta>>, journal \subseteq journal'
    PROVE  \A n \in Private : Clean(n)' \/ Excused(n)'
  BY DEF Swept, Clean, Excused

(* A replacement displaces nothing where names can be exchanged.            *)
LEMMA NeverDisplaced ==
    ASSUME TypeInv, OneInv, TreeInv, Swept, touched = {}
    PROVE  /\ \A o \in journal : ~Displaced(o)
           /\ pc \notin {"resume", "restore", "publish", "swap back"}
           /\ pc \in Working => op \in journal /\ (op.kind # "prepare" => Calm(op) /\ Changing(op))
  <1>1. ASSUME NEW o \in journal, Displaced(o)
        PROVE  FALSE
    <2>1. Quarantine(o.id) \in Private /\ o.kind = "replace" /\ o.id \in Ids /\ o.kind # "prepare"
      BY <1>1, NameTypes DEF TypeInv, TypeOK, Rows, Displaced
    <2>2. Calm(o)
      BY <2>1, NoneAssumption DEF Calm, TypeInv, TypeOK
    <2>3. entry[Quarantine(o.id)] # None
      BY <1>1, <2>1, <2>2 DEF TreeInv, RowsInv, Changing, Displaced
    <2>4. PICK r \in journal : Quarantine(o.id) = Temporary(r.id) \/ r.kind = "remove"
      BY <2>1, <2>3 DEF Swept, Clean, Excused
    <2>5. r = o /\ r.id \in Ids
      BY <1>1 DEF OneInv, OneOutstanding, TypeInv, TypeOK, Rows
    <2>6. QED
      BY <2>1, <2>4, <2>5, NameTypes
  <1>2. pc \in Working => op \in journal /\ (op.kind # "prepare" => Calm(op) /\ Changing(op))
    BY RowFacts DEF Calm, TreeInv, RowsInv
  <1>3. pc \notin {"resume", "restore", "publish", "swap back"}
    <2>1. SUFFICES ASSUME pc \in {"resume", "restore", "publish", "swap back"}
                   PROVE  FALSE
      OBVIOUS
    <2>2. op \in journal /\ op.kind # "prepare" /\ Calm(op)
      BY <1>2, <2>1 DEF TreeInv, Stages, Working, Labels
    <2>3. QED
      BY <1>1, <2>1, <2>2 DEF TreeInv, Progress, Between
  <1>4. QED
    BY <1>1, <1>2, <1>3

(* What is dirty is on the list of the deletion that begins.                *)
LEMMA SweptDiscard ==
    ASSUME pc' = "discard", \A n \in Private : Clean(n)' \/ (Excused(n)' /\ Queued(n)')
    PROVE  Swept'
  BY DEF Swept, Deleting

LEMMA QueuedOne ==
    ASSUME NEW n, NEW a, discards' = <<[name |-> n, allowed |-> a]>>
    PROVE  Queued(n)'
  BY DEF Queued

LEMMA QueuedTwo ==
    ASSUME NEW n, NEW a, NEW m, NEW b,
           discards' = <<[name |-> n, allowed |-> a], [name |-> m, allowed |-> b]>>
    PROVE  Queued(n)' /\ Queued(m)'
  BY DEF Queued

LEMMA QueuedTail ==
    ASSUME TypeInv, discards # <<>>, NEW n, Queued(n), n # Doomed, discards' = Tail(discards)
    PROVE  Queued(n)'
  <1>1. discards \in Deletions
    BY DEF TypeInv, TypeOK, Deletions
  <1>2. /\ Len(discards) \in Nat /\ DOMAIN discards = 1 .. Len(discards) /\ Len(discards) # 0
        /\ Head(discards) = discards[1] /\ Tail(discards) \in Deletions
        /\ Len(Tail(discards)) = Len(discards) - 1
        /\ \A i \in 1 .. Len(Tail(discards)) : Tail(discards)[i] = discards[i + 1]
    BY <1>1, HeadTailProperties, LenProperties, EmptySeq DEF Deletions
  <1>3. DOMAIN Tail(discards) = 1 .. Len(discards) - 1
    BY <1>2, LenProperties DEF Deletions
  <1>4. PICK i \in 1 .. Len(discards) : discards[i].name = n
    BY <1>2 DEF Queued
  <1>5. i # 1
    BY <1>2, <1>4 DEF Doomed
  <1>6. i - 1 \in 1 .. Len(discards) - 1 /\ Tail(discards)[i - 1].name = n
    BY <1>2, <1>4, <1>5
  <1>7. QED
    BY <1>3, <1>6 DEF Queued

(* A row that is neither a replacement nor a removal excuses nothing, and a *)
(* removal nothing as long as its link is in place.                         *)
LEMMA NothingExcused ==
    ASSUME OneInv, Swept, NEW o \in journal, o.kind # "replace",
           o.kind # "remove" \/ entry[o.path] # None
    PROVE  \A n \in Private : Clean(n)
  BY DEF OneInv, OneOutstanding, Swept, Excused

LEMMA SweptDecide ==
    ASSUME TypeInv, OneInv, TreeInv, Swept, touched = {}, exchange, ~Fail,
           \/ Claim \/ WriteMarker \/ PublishedBefore \/ ResumeDisplaced \/ StartLink
           \/ CheckLeaf \/ VerifyExchanged \/ VerifyDisplaced \/ StartRemoval
    PROVE  Swept'
  <1>1. /\ UNCHANGED <<entry, priv, meta, journal, op>> /\ pc \in Working
        /\ op \in journal /\ op \in Rows /\ journal = {op}
        /\ op.kind # "prepare" => Changing(op)
    <2>1. UNCHANGED <<entry, priv, meta, journal, op>> /\ pc \in Working
      BY DEF Claim, WriteMarker, PublishedBefore, ResumeDisplaced, StartLink, CheckLeaf, VerifyExchanged,
           VerifyDisplaced, StartRemoval, Goto, Discard, local, disk, db, Working, Labels
    <2>2. QED
      BY <2>1, RowFacts, NeverDisplaced
  <1>2. \A n \in Private : Clean(n)' \/ Excused(n)'
    BY <1>1, SweptSame
  <1>3. CASE pc' \notin {"observe", "commit", "cancel", "discard"} \cup Deleting
    BY <1>2, <1>3, SweptElse
  <1>4. CASE pc' = "observe"
    <2>1. op.kind \notin {"replace", "remove"}
      <3>1. op.kind # "prepare" => op.kind \in {"create", "replace", "remove"}
        BY <1>1 DEF Changing
      <3>2. CASE Claim \/ WriteMarker
        BY <3>2, <1>1, <1>4 DEF Claim, WriteMarker, TreeInv, Stages
      <3>3. CASE PublishedBefore
        BY <3>3, <1>4 DEF PublishedBefore, Goto, Discard
      <3>4. CASE StartRemoval
        BY <3>4, <1>4 DEF StartRemoval, Goto, Discard
      <3>5. CASE ResumeDisplaced \/ StartLink \/ CheckLeaf \/ VerifyExchanged \/ VerifyDisplaced
        BY <3>5, <1>4 DEF ResumeDisplaced, StartLink, CheckLeaf, VerifyExchanged, VerifyDisplaced,
           Goto, Discard
      <3>6. QED
        BY <3>2, <3>3, <3>4, <3>5
    <2>2. \A n \in Private : Clean(n)
      BY <1>1, <2>1, NothingExcused
    <2>3. QED
      BY <1>1, <1>2, <1>4, <2>2 DEF Swept, Clean, Deleting
  <1>5. CASE pc' = "discard"
    <2>1. \/ op.kind = "replace" /\ Queued(Temporary(op.id))'
          \/ op.kind = "remove" /\ Queued(Quarantine(op.id))'
      <3>1. CASE PublishedBefore
        BY <3>1, <1>1, <1>5, QueuedTwo DEF PublishedBefore, Goto, Discard
      <3>2. CASE VerifyExchanged
        BY <3>2, <1>1, <1>5, QueuedOne DEF VerifyExchanged, Goto, Discard, TreeInv, Stages
      <3>3. CASE VerifyDisplaced
        BY <3>3, <1>1, <1>5, QueuedOne DEF VerifyDisplaced, Goto, Discard, TreeInv, Stages
      <3>4. CASE StartRemoval
        BY <3>4, <1>1, <1>5, QueuedOne DEF StartRemoval, Goto, Discard
      <3>5. QED
        BY <1>5, <3>1, <3>2, <3>3, <3>4 DEF Claim, WriteMarker, ResumeDisplaced, StartLink, CheckLeaf, Goto
    <2>2. \A n \in Private : Excused(n)' => Queued(n)'
      BY <1>1, <2>1 DEF Excused
    <2>3. QED
      BY <1>2, <1>5, <2>2, SweptDiscard
  <1>6. QED
    <2>1. pc' \notin {"commit", "cancel"} \cup Deleting
      BY DEF Claim, WriteMarker, PublishedBefore, ResumeDisplaced, StartLink, CheckLeaf, VerifyExchanged,
           VerifyDisplaced, StartRemoval, Goto, Discard, Deleting
    <2>2. QED
      BY <1>3, <1>4, <1>5, <2>1

LEMMA SweptWrite ==
    ASSUME TypeInv, OneInv, TreeInv, Swept, touched = {}, exchange, ~Fail,
           Symlink \/ Stage \/ ExchangeLeaf \/ Displace
    PROVE  Swept'
  <1>1. /\ UNCHANGED <<priv, meta, journal>> /\ pc \in Working
        /\ pc' \in {"observe", "check", "publish", "exchanged", "displaced"}
        /\ pc' = "observe" => Symlink
    BY DEF Symlink, Stage, ExchangeLeaf, Swap, Displace, Goto, db, Working, Labels
  <1>2. PICK o : o = op
    OBVIOUS
  <1>3. /\ o \in journal /\ journal = {o} /\ entry \in [Names -> Entries]
        /\ Temporary(o.id) \in Names /\ Quarantine(o.id) \in Names /\ o.kind # "prepare"
        /\ o.path \in Names /\ o.path \notin Private /\ Private \subseteq Names
    BY <1>1, <1>2, RowFacts, NameTypes
       DEF TreeInv, Stages, Symlink, Stage, ExchangeLeaf, Displace, TypeInv, TypeOK
  <1>4. CASE Symlink
    <2>1. o.kind = "create" /\ entry' = [entry EXCEPT ![o.path] = o.target]
      BY <1>2, <1>4 DEF Symlink, TreeInv, Stages
    <2>2. \A n \in Private : Clean(n)
      BY <1>3, <2>1, NothingExcused
    <2>3. \A n \in Private : Clean(n)'
      BY <1>1, <1>3, <2>1, <2>2 DEF Clean
    <2>4. QED
      BY <1>1, <2>3 DEF Swept, Deleting
  <1>5. CASE Stage \/ ExchangeLeaf
    <2>1. o.kind = "replace"
      BY <1>2, <1>5 DEF Stage, ExchangeLeaf, TreeInv, Stages
    <2>2. \A n \in Private : n # Temporary(o.id) => entry'[n] = entry[n]
      BY <1>2, <1>3, <1>5 DEF Stage, ExchangeLeaf, Swap, Swapped
    <2>3. \A n \in Private : n # Temporary(o.id) => Clean(n)
      BY <1>3, <2>1 DEF Swept, Excused
    <2>4. \A n \in Private : Clean(n)' \/ Excused(n)'
      BY <1>1, <1>3, <2>1, <2>2, <2>3 DEF Clean, Excused
    <2>5. pc' # "observe"
      BY <1>5 DEF Stage, ExchangeLeaf, Swap, Goto
    <2>6. QED
      BY <1>1, <2>4, <2>5, SweptElse DEF Deleting
  <1>6. CASE Displace
    <2>1. o.kind = "remove" /\ entry' = Renamed(o.path, Quarantine(o.id)) /\ pc' = "displaced"
      BY <1>2, <1>6 DEF Displace, TreeInv, Stages, Goto
    <2>2. /\ entry'[o.path] = None
          /\ \A n \in Private : n # Quarantine(o.id) => entry'[n] = entry[n]
      BY <1>3, <2>1 DEF Renamed
    <2>3. \A n \in Private : n # Quarantine(o.id) => Clean(n)
      BY <1>3, <2>1 DEF Swept, Excused
    <2>4. \A n \in Private : Clean(n)' \/ Excused(n)'
      BY <1>1, <1>3, <2>1, <2>2, <2>3 DEF Clean, Excused
    <2>5. QED
      BY <2>1, <2>4, SweptElse DEF Deleting
  <1>7. QED
    BY <1>4, <1>5, <1>6

(* A deletion works on one name; the rest stays as it is.                   *)
LEMMA SweptDelete ==
    ASSUME TypeInv, OneInv, TreeInv, Swept, ~Fail, Deletion
    PROVE  Swept'
  <1>1. /\ pc = "discard" \/ pc \in Deleting
        /\ discards # <<>> /\ Doomed \in Private /\ Doomed \in Names /\ journal' = journal
        /\ pc \in Working /\ op \in journal /\ op.path \notin Private /\ op.path \in Names
        /\ journal = {op} /\ op.kind # "prepare"
    <2>1. (pc = "discard" \/ pc \in Deleting) /\ discards # <<>> /\ journal' = journal
      BY DEF Deletion, OpenPrivate, MakePrivate, RecordPrivate, MovePrivate, UnlinkPrivate, MarkPrivate,
             RemovePrivate, ForgetPrivate, db, Deleting, TypeInv, Shape
    <2>2. QED
      BY <2>1, DoomedType, DoomedName, RowFacts DEF Deleting, Working, Labels, TreeInv
  <1>2. /\ entry \in [Names -> Entries] /\ priv \in [Private -> {None} \cup Directories]
        /\ meta \in [Private -> {None} \cup Records] /\ Private \subseteq Names
    BY NameTypes DEF TypeInv, TypeOK
  <1>12. PICK d \in Private : d = Doomed
    BY <1>1
  <1>3. /\ \A n \in Private : n # Doomed => UNCHANGED <<entry[n], priv[n], meta[n]>>
        /\ entry'[op.path] = entry[op.path]
    BY <1>1, <1>2 DEF Deletion, OpenPrivate, MakePrivate, RecordPrivate, MovePrivate, UnlinkPrivate,
           MarkPrivate, RemovePrivate, ForgetPrivate, Doomed, disk, db
  <1>4. \A n \in Private : n # d => Clean(n)' = Clean(n)
    BY <1>3, <1>12 DEF Clean
  <1>5. \A n \in Private : Excused(n)' = Excused(n)
    BY <1>1, <1>3 DEF Excused
  <1>6. \A n \in Private : /\ Clean(n) \/ Excused(n)
                           /\ Clean(n) \/ Queued(n)
    BY <1>1 DEF Swept
  <1>7. ~Clean(d)' => ~Clean(d)
    BY <1>1, <1>2, <1>12, NoneAssumption DEF Deletion, OpenPrivate, MakePrivate, RecordPrivate, MovePrivate,
           UnlinkPrivate, MarkPrivate, RemovePrivate, ForgetPrivate, Doomed, disk, db, Clean, TypeInv, Shape,
           Inside, Swept
  <1>8. \A n \in Private : Clean(n)' \/ (Excused(n)' /\ Queued(n))
    <2>1. ASSUME NEW n \in Private, ~Clean(n)'
          PROVE  ~Clean(n)
      BY <1>4, <1>7, <2>1
    <2>2. QED
      BY <1>5, <1>6, <2>1
  <1>9. CASE discards' = discards /\ pc' \in Deleting
    <2>1. \A n \in Private : Clean(n)' \/ (Excused(n)' /\ Queued(n)')
      BY <1>8, <1>9 DEF Queued
    <2>2. Doomed' = Doomed
      BY <1>9 DEF Doomed
    <2>3. pc' = "named" => priv'[Doomed] = None /\ meta'[Doomed] = None
      BY <1>1, <1>2 DEF Deletion, OpenPrivate, MakePrivate, RecordPrivate, MovePrivate,
           UnlinkPrivate, MarkPrivate, RemovePrivate, ForgetPrivate, Doomed, disk, db, Goto, NextDiscard, Swept
    <2>4. pc' \in {"record", "move"} => made'
      BY DEF Deletion, OpenPrivate, MakePrivate, RecordPrivate, MovePrivate,
           UnlinkPrivate, MarkPrivate, RemovePrivate, ForgetPrivate, local, Goto, NextDiscard, Swept
    <2>5. pc' \in {"unlink", "mark", "rmdir", "unrecord"} /\ made' => entry'[Doomed] = None
      BY <1>1, <1>2 DEF Deletion, OpenPrivate, MakePrivate, RecordPrivate, MovePrivate,
           UnlinkPrivate, MarkPrivate, RemovePrivate, ForgetPrivate, Doomed, disk, db, local, Goto,
           NextDiscard, Swept
    <2>6. pc' = "unrecord" => priv'[Doomed] = None
      BY <1>1, <1>2 DEF Deletion, OpenPrivate, MakePrivate, RecordPrivate, MovePrivate,
           UnlinkPrivate, MarkPrivate, RemovePrivate, ForgetPrivate, Doomed, disk, db, Goto, NextDiscard
    <2>7. QED
      BY <1>9, <2>1, <2>2, <2>3, <2>4, <2>5, <2>6 DEF Swept, Deleting
  <1>10. CASE NextDiscard
    <2>1. Clean(d)'
      <3>1. /\ MakePrivate \/ ForgetPrivate
            /\ entry'[d] = None /\ priv'[d] = None /\ meta'[d] = None
        BY <1>1, <1>12, <1>2, <1>10 DEF Deletion, OpenPrivate, MakePrivate, RecordPrivate, MovePrivate,
           UnlinkPrivate, MarkPrivate, RemovePrivate, ForgetPrivate, Doomed, disk, db, Goto, NextDiscard, Swept
      <3>2. QED
        BY <3>1, <1>12 DEF Clean
    <2>2. \A n \in Private : Queued(n) /\ n # d => Queued(n)'
      BY <1>1, <1>10, <1>12, QueuedTail DEF NextDiscard
    <2>3. QED
      BY <1>1, <1>8, <1>10, <2>1, <2>2, SweptDiscard DEF NextDiscard
  <1>11. QED
    <2>1. (discards' = discards /\ pc' \in Deleting) \/ NextDiscard
      BY DEF Deletion, OpenPrivate, MakePrivate, RecordPrivate, MovePrivate, UnlinkPrivate, MarkPrivate,
             RemovePrivate, ForgetPrivate, Goto, local, Deleting
    <2>2. QED
      BY <1>9, <1>10, <2>1

(* Rows begun, dropped, acknowledged and verified.                          *)
LEMMA SweptSettle ==
    ASSUME TypeInv, OneInv, TreeInv, Swept, touched = {}, ~Fail,
           \/ Command \/ Begin \/ Applied \/ RecoverRow \/ Recovered \/ Cancel
           \/ Discarded \/ Observe \/ Commit \/ Verify \/ Notify
    PROVE  Swept'
  <1>1. CASE Cancel \/ Commit
    <2>1. \A n \in Private : Clean(n)
      BY <1>1 DEF Cancel, Commit, Swept
    <2>2. UNCHANGED <<entry, priv>> /\ pc' \in {"next", "recover"} /\ meta' = meta
      BY <1>1 DEF Cancel, Commit, Goto, disk
    <2>3. QED
      BY <2>1, <2>2, SweptElse DEF Clean, Deleting
  <1>2. CASE Begin
    <2>1. UNCHANGED <<entry, priv, meta>> /\ journal \subseteq journal' /\ pc' = "execute"
      BY <1>2 DEF Begin, disk
    <2>2. QED
      BY <2>1, SweptSame, SweptElse DEF Deleting
  <1>3. CASE Command \/ Applied \/ Recovered \/ Verify \/ Notify
    <2>1. UNCHANGED <<entry, priv, meta>> /\ journal \subseteq journal'
          /\ pc' \in {"next", "recover", "verify", "notify", "idle"}
      BY <1>3 DEF Command, Apply, Recover, Reverify, Applied, Recovered, Verify, Notify, Goto, Stop,
                  disk, db, Fail
    <2>2. QED
      BY <2>1, SweptSame, SweptElse DEF Deleting
  <1>4. CASE Discarded \/ Observe
    <2>1. \A n \in Private : Clean(n)
      BY <1>4 DEF Discarded, Observe, Swept, Queued
    <2>2. UNCHANGED <<entry, priv, meta>> /\ pc' \in {"observe", "cancel", "commit"}
      BY <1>4 DEF Discarded, Observe, Goto, disk, db, TypeInv, TypeOK
    <2>3. QED
      BY <2>1, <2>2 DEF Swept, Clean, Deleting
  <1>5. CASE RecoverRow
    <2>1. UNCHANGED <<entry, priv, meta, journal>> /\ op' \in journal /\ pc = "recover"
      BY <1>5 DEF RecoverRow, disk, db
    <2>2. \A n \in Private : Clean(n)' \/ Excused(n)'
      BY <2>1, SweptSame
    <2>3. CASE pc' = "execute"
      BY <2>2, <2>3, SweptElse DEF Deleting
    <2>4. CASE pc' = "cancel"
      <3>1. PICK o \in journal : Unapplied(o) /\ o.kind # "replace"
        BY <1>5, <2>4 DEF RecoverRow
      <3>2. o.kind # "remove" \/ entry[o.path] # None
        <4>1. Calm(o) /\ o.kind \in {"create", "remove"}
          BY <3>1, NoneAssumption DEF Unapplied, Calm, TypeInv, TypeOK
        <4>2. o.kind = "remove" => entry[o.path] = o.previous /\ o.previous # None
          BY <3>1, <4>1 DEF Unapplied, TreeInv, RowsInv, Changing
        <4>3. QED
          BY <4>2
      <3>3. \A n \in Private : Clean(n)
        BY <3>1, <3>2, NothingExcused
      <3>4. QED
        BY <2>1, <2>2, <2>4, <3>3 DEF Swept, Clean, Deleting
    <2>5. CASE pc' = "discard"
      <3>1. PICK o \in journal : /\ o.kind = "replace"
                                 /\ discards' = <<[name |-> Temporary(o.id), allowed |-> {o.target}]>>
        BY <1>5, <2>5 DEF RecoverRow
      <3>2. \A n \in Private : Excused(n)' => n = Temporary(o.id)
        BY <2>1, <3>1 DEF Excused, OneInv, OneOutstanding
      <3>3. QED
        BY <2>2, <2>5, <3>1, <3>2, QueuedOne, SweptDiscard
    <2>6. QED
      BY <1>5, <2>3, <2>4, <2>5 DEF RecoverRow
  <1>6. QED
    BY <1>1, <1>2, <1>3, <1>4, <1>5

LEMMA LeftoversStep ==
    ASSUME TypeInv, OneInv, TreeInv, Leftovers, [Next]_vars
    PROVE  Leftovers'
  <1>1. SUFFICES ASSUME exchange', touched' = {}
                 PROVE  Swept'
    BY DEF Leftovers
  <1>2. exchange' = exchange /\ touched \subseteq touched'
    BY DEF Next, vars, Publisher, Environment, Crash, Remap, Scan, SourceChanges, OtherWrites,
           OtherMakesDirectory, OtherRemovesMarker, OperatorClears, intent, history
  <1>3. Swept /\ touched = {} /\ exchange
    BY <1>1, <1>2 DEF Leftovers
  <1>4. CASE Fail \/ Crash
    <2>1. UNCHANGED <<entry, priv, meta, journal>> /\ pc' = "idle"
      BY <1>4 DEF Fail, Stop, Crash, disk, db
    <2>2. QED
      BY <1>3, <2>1, SweptSame, SweptElse DEF Deleting
  <1>5. CASE Publisher /\ ~Fail
    <2>1. ~(Restore \/ Publish \/ SwapBack \/ Disowned)
      BY <1>3, <1>5, NeverDisplaced DEF Restore, Publish, SwapBack, Disowned
    <2>2. QED
      BY <1>3, <1>5, <2>1, SweptDecide, SweptWrite, SweptDelete, SweptSettle
         DEF Publisher, Step, Deletion
  <1>6. CASE OperatorClears
    <2>1. pc = "idle" /\ UNCHANGED <<pc, entry, meta, journal>>
      BY <1>6 DEF OperatorClears, db
    <2>2. \A n \in Private : priv[n] = None => priv'[n] = None
      BY <1>6 DEF OperatorClears, TypeInv, TypeOK
    <2>3. \A n \in Private : Clean(n)' \/ Excused(n)'
      BY <1>3, <2>1, <2>2 DEF Swept, Clean, Excused
    <2>4. QED
      BY <2>1, <2>3, SweptElse DEF Deleting
  <1>7. CASE OtherWrites \/ OtherMakesDirectory
    BY <1>1, <1>7 DEF OtherWrites, OtherMakesDirectory
  <1>8. CASE Remap \/ Scan \/ SourceChanges \/ OtherRemovesMarker \/ UNCHANGED vars
    <2>1. UNCHANGED <<entry, priv, meta, journal, pc, discards, made>>
      BY <1>8 DEF Remap, Scan, SourceChanges, OtherRemovesMarker, vars, disk, db, local
    <2>2. QED
      BY <1>3, <2>1 DEF Swept, Clean, Excused, Queued, Doomed, Deleting
  <1>9. QED
    BY <1>4, <1>5, <1>6, <1>7, <1>8 DEF Next, Environment

(* Once the last operation is settled nothing is left under a private name: *)
(* no temporary link, no quarantined one, no directory and no record.       *)
THEOREM NoLeftoversHolds == Spec => []NoLeftovers
  <1> DEFINE I == TypeInv /\ OneInv /\ TreeInv /\ Leftovers
  <1>1. Init => I
    <2>1. Init => Swept
      BY NameTypes DEF Init, Swept, Clean, Deleting
    <2>2. QED
      BY <2>1, TypeInit, TreeInit DEF Init, OneInv, OneOutstanding, Leftovers
  <1>2. I /\ [Next]_vars => I'
    BY TypeStep, OneStep, TreeStep, LeftoversStep
  <1>3. I => NoLeftovers
    BY DEF Leftovers, NoLeftovers, Swept, Clean, Excused
  <1>4. QED
    BY <1>1, <1>2, <1>3, PTL DEF Spec

-----------------------------------------------------------------------------
(* What readers of the tree see of a state, by the row that is outstanding. *)
LEMMA ShownIdle ==
    ASSUME \A o \in journal : o.kind = "prepare"
    PROVE  Outstanding = None /\ Shown = [p \in Paths |-> entry[p]]
  BY DEF Outstanding, Shown, Displaced

LEMMA ShownIdleNext ==
    ASSUME \A o \in journal' : o.kind = "prepare"
    PROVE  Outstanding' = None /\ Shown' = [p \in Paths |-> entry'[p]]
  BY DEF Outstanding, Shown, Displaced

LEMMA ShownMoving ==
    ASSUME NEW o, journal = {o}, o.kind # "prepare"
    PROVE  /\ Outstanding = [path |-> o.path, from |-> o.previous, to |-> o.target]
           /\ Shown = [p \in Paths |-> IF p = o.path /\ Displaced(o) THEN o.previous ELSE entry[p]]
  <1>1. (CHOOSE r \in journal : r.kind # "prepare") = o
    OBVIOUS
  <1>2. ASSUME NEW p \in Paths, p = o.path /\ Displaced(o)
        PROVE  (CHOOSE r \in journal : r.path = p /\ Displaced(r)) = o
    BY <1>2
  <1>3. QED
    BY <1>1, <1>2 DEF Outstanding, Shown

LEMMA ShownMovingNext ==
    ASSUME NEW o, journal' = {o}, o.kind # "prepare"
    PROVE  /\ Outstanding' = [path |-> o.path, from |-> o.previous, to |-> o.target]
           /\ Shown' = [p \in Paths |-> IF p = o.path /\ Displaced(o)' THEN o.previous ELSE entry'[p]]
  <1>1. (CHOOSE r \in journal' : r.kind # "prepare") = o
    OBVIOUS
  <1>2. ASSUME NEW p \in Paths, p = o.path /\ Displaced(o)'
        PROVE  (CHOOSE r \in journal' : r.path = p /\ Displaced(r)') = o
    BY <1>2
  <1>3. QED
    BY <1>1, <1>2 DEF Outstanding, Shown

(* Steps that readers do not see.                                           *)
LEMMA Unseen ==
    ASSUME OneInv, UNCHANGED <<journal, owned>>,
           \A p \in Paths : entry'[p] = entry[p],
           \A o \in journal : o.kind # "prepare" => Displaced(o)' = Displaced(o)
    PROVE  UNCHANGED Tree!vars
  <1>1. CASE \A o \in journal : o.kind = "prepare"
    BY <1>1, ShownIdle, ShownIdleNext DEF Tree!vars
  <1>2. CASE \E o \in journal : o.kind # "prepare"
    <2>1. PICK o : journal = {o} /\ o.kind # "prepare"
      BY <1>2 DEF OneInv, OneOutstanding
    <2>2. Displaced(o)' = Displaced(o)
      BY <2>1
    <2>3. Outstanding' = Outstanding
      BY <2>1, ShownMoving, ShownMovingNext
    <2>4. Shown' = Shown
      BY <2>1, <2>2, ShownMoving, ShownMovingNext
    <2>5. QED
      BY <2>3, <2>4 DEF Tree!vars
  <1>3. QED
    BY <1>1, <1>2

(* The row under way, where nobody else wrote.                              *)
LEMMA MovingOp ==
    ASSUME TypeInv, OneInv, TreeInv, touched = {}, pc \in Working, op.kind # "prepare"
    PROVE  /\ journal = {op} /\ op.path \in Paths /\ Calm(op) /\ Changing(op)
           /\ op.target \in Targets \cup {None} /\ op.previous \in Targets \cup {None}
           /\ [path |-> op.path, from |-> op.previous, to |-> op.target] # None
  <1>1. /\ journal = {op} /\ op \in journal /\ op.path \in Paths /\ op # None
        /\ op.target \in Targets \cup {None} /\ op.previous \in Targets \cup {None}
    BY RowFacts
  <1>2. [path |-> op.path, from |-> op.previous, to |-> op.target] \in Moves
    BY <1>1 DEF Moves
  <1>3. QED
    BY <1>1, <1>2, NoneAssumption DEF Calm, TreeInv, RowsInv

(* The step that changes what a path shows, and steps that show it twice.   *)
LEMMA TakeTree ==
    ASSUME TypeInv, OneInv, TreeInv, touched = {}, UNCHANGED <<journal, owned>>,
           pc \in Working, NEW o, o = op, o.kind # "prepare",
           \A p \in Paths : p # o.path => entry'[p] = entry[p],
           Waiting(o) \/ Displaced(o),
           entry'[o.path] = o.target, ~Displaced(o)'
    PROVE  Tree!Take
  <1>1. /\ journal = {o} /\ o.path \in Paths /\ Changing(o)
        /\ [path |-> o.path, from |-> o.previous, to |-> o.target] # None
    BY MovingOp
  <1>2. /\ Outstanding = [path |-> o.path, from |-> o.previous, to |-> o.target]
        /\ Outstanding' = Outstanding
        /\ Shown = [p \in Paths |-> IF p = o.path /\ Displaced(o) THEN o.previous ELSE entry[p]]
        /\ Shown' = [p \in Paths |-> entry'[p]]
    BY <1>1, ShownMoving, ShownMovingNext
  <1>3. Shown[o.path] = o.previous
    BY <1>1, <1>2 DEF Waiting
  <1>4. Shown' = [Shown EXCEPT ![o.path] = o.target]
    BY <1>1, <1>2
  <1>5. QED
    BY <1>1, <1>2, <1>3, <1>4 DEF Tree!Take

LEMMA SeenWrites ==
    ASSUME TypeInv, OneInv, TreeInv, touched = {}, UNCHANGED history, Writing, ~Fail
    PROVE  Tree!Take \/ UNCHANGED Tree!vars
  <1>1. /\ pc \in Working /\ op.kind # "prepare" /\ pc # "swap back"
        /\ journal = {op} /\ op.path \in Paths /\ Calm(op) /\ Changing(op)
        /\ UNCHANGED <<journal, owned>>
    <2>1. pc \in Working /\ UNCHANGED <<journal, owned>> /\ op.kind # "prepare"
      BY DEF Writing, Symlink, Stage, ExchangeLeaf, SwapBack, Swap, Displace, Restore, Publish, MovePrivate,
             db, Working, Labels, TreeInv, Stages, Deleting
    <2>2. journal = {op} /\ op.path \in Paths /\ Calm(op) /\ Changing(op)
      BY <2>1, MovingOp
    <2>3. QED
      BY <2>1, <2>2 DEF TreeInv, Progress
  <1>2. PICK o : o = op
    OBVIOUS
  <1>3. /\ o.path \in Names /\ Temporary(o.id) \in Names /\ Quarantine(o.id) \in Names
        /\ o.path # Temporary(o.id) /\ o.path # Quarantine(o.id) /\ Temporary(o.id) # Quarantine(o.id)
        /\ entry \in [Names -> Entries] /\ o.kind # "prepare" /\ journal = {o} /\ Calm(o) /\ Changing(o)
    BY <1>1, <1>2, RowFacts DEF TypeInv, TypeOK
  <1>4. \A p \in Paths : p # o.path => entry'[p] = entry[p]
    BY <1>2, WritesPaths DEF TreeInv
  <1>5. CASE Symlink
    <2>1. o.kind = "create" /\ entry' = [entry EXCEPT ![o.path] = o.target] /\ entry[o.path] = None
      BY <1>2, <1>5 DEF Symlink, TreeInv, Stages
    <2>2. Waiting(o)
      BY <1>3, <2>1 DEF TreeInv, RowsInv, Between, Displaced, Done, Changing
    <2>3. entry'[o.path] = o.target /\ ~Displaced(o)'
      BY <1>3, <2>1 DEF Displaced
    <2>4. QED
      BY <1>1, <1>2, <1>3, <1>4, <2>2, <2>3, TakeTree
  <1>6. CASE ExchangeLeaf
    <2>1. o.kind = "replace" /\ entry' = Swapped /\ Waiting(o) /\ Lone(o)
      BY <1>2, <1>3, <1>6 DEF ExchangeLeaf, Swap, TreeInv, Stages, Progress
    <2>2. entry'[o.path] = o.target
      BY <1>2, <1>3, <2>1 DEF Swapped, Lone
    <2>3. ~Displaced(o)'
      BY <1>3, <2>1, <2>2 DEF Displaced, Changing
    <2>4. QED
      BY <1>1, <1>2, <1>3, <1>4, <2>1, <2>2, <2>3, TakeTree
  <1>7. CASE Publish
    <2>1. o.kind = "replace" /\ entry' = Renamed(Temporary(o.id), o.path) /\ Between(o) /\ Lone(o)
      BY <1>2, <1>3, <1>7 DEF Publish, TreeInv, Stages, Progress
    <2>2. entry'[o.path] = o.target
      BY <1>3, <2>1 DEF Renamed, Lone
    <2>3. ~Displaced(o)'
      BY <1>3, <2>1, <2>2 DEF Displaced, Changing
    <2>4. QED
      BY <1>1, <1>2, <1>3, <1>4, <2>1, <2>2, <2>3, TakeTree DEF Between
  <1>8. CASE Displace
    <2>1. /\ entry' = Renamed(o.path, Quarantine(o.id)) /\ Waiting(o) /\ o.kind \in {"replace", "remove"}
      BY <1>2, <1>3, <1>8 DEF Displace, TreeInv, Stages, Progress
    <2>2. entry'[o.path] = None /\ entry'[Quarantine(o.id)] = o.previous
      BY <1>3, <2>1 DEF Renamed, Waiting
    <2>3. CASE o.kind = "remove"
      BY <1>1, <1>2, <1>3, <1>4, <2>1, <2>2, <2>3, TakeTree DEF Displaced, Changing
    <2>4. CASE o.kind = "replace"
      <3>1. Displaced(o)'
        BY <2>2, <2>4 DEF Displaced
      <3>2. /\ Shown = [p \in Paths |-> IF p = o.path /\ Displaced(o) THEN o.previous ELSE entry[p]]
            /\ Shown' = [p \in Paths |-> IF p = o.path /\ Displaced(o)' THEN o.previous ELSE entry'[p]]
            /\ Outstanding' = Outstanding
        <4>1. journal = {o} /\ journal' = {o} /\ o.kind # "prepare"
          BY <1>1, <1>2, <1>3
        <4>2. QED
          BY <4>1, ShownMoving, ShownMovingNext
      <3>3. Shown' = Shown
        BY <1>4, <2>1, <3>1, <3>2 DEF Waiting
      <3>4. QED
        BY <1>1, <3>2, <3>3 DEF Tree!vars
    <2>5. QED
      BY <2>1, <2>3, <2>4
  <1>9. CASE Restore
    <2>1. o.kind = "replace" /\ entry' = Renamed(Quarantine(o.id), o.path) /\ Between(o)
      BY <1>2, <1>3, <1>9 DEF Restore, TreeInv, Progress, Between, Displaced
    <2>2. entry'[o.path] = o.previous /\ o.previous # None
      BY <1>3, <2>1 DEF Renamed, Between, Displaced, Changing
    <2>3. Displaced(o) /\ ~Displaced(o)'
      BY <2>1, <2>2 DEF Between, Displaced
    <2>4. /\ Shown = [p \in Paths |-> IF p = o.path /\ Displaced(o) THEN o.previous ELSE entry[p]]
          /\ Shown' = [p \in Paths |-> IF p = o.path /\ Displaced(o)' THEN o.previous ELSE entry'[p]]
          /\ Outstanding' = Outstanding
      <3>1. journal = {o} /\ journal' = {o} /\ o.kind # "prepare"
        BY <1>1, <1>2, <1>3
      <3>2. QED
        BY <3>1, ShownMoving, ShownMovingNext
    <2>5. Shown' = Shown
      BY <1>4, <2>2, <2>3, <2>4
    <2>6. QED
      BY <1>1, <2>4, <2>5 DEF Tree!vars
  <1>10. CASE Stage
    <2>1. entry' = [entry EXCEPT ![Temporary(o.id)] = o.target]
      BY <1>2, <1>10 DEF Stage
    <2>2. entry'[o.path] = entry[o.path] /\ Displaced(o)' = Displaced(o)
      BY <1>3, <2>1 DEF Displaced
    <2>3. QED
      BY <1>1, <1>2, <1>4, <2>2, Unseen
  <1>11. CASE MovePrivate
    <2>1. /\ entry' = [entry EXCEPT ![Doomed] = None] /\ Doomed \in {Temporary(o.id), Quarantine(o.id)}
      BY <1>2, <1>11, DoomedName DEF MovePrivate, TreeInv, Deleting
    <2>2. Done(o) \/ Waiting(o)
      BY <1>2, <1>3, <1>11 DEF MovePrivate, TreeInv, Progress, Deleting
    <2>3. ~Displaced(o) /\ entry'[o.path] = entry[o.path]
      BY <1>3, <2>1, <2>2 DEF Done, Waiting, Displaced, Changing
    <2>4. ~Displaced(o)'
      BY <1>3, <2>2, <2>3 DEF Done, Waiting, Displaced, Changing
    <2>5. Displaced(o)' = Displaced(o)
      BY <2>3, <2>4 DEF Displaced
    <2>6. \A p \in Paths : entry'[p] = entry[p]
      BY <1>4, <2>3
    <2>7. QED
      BY <1>1, <1>2, <2>5, <2>6, Unseen
  <1>12. QED
    BY <1>1, <1>5, <1>6, <1>7, <1>8, <1>9, <1>10, <1>11 DEF Writing, SwapBack

LEMMA SeenBegin ==
    ASSUME TypeInv, OneInv, TreeInv, touched = {}, Begin
    PROVE  UNCHANGED Tree!vars \/ \E p \in Paths, t \in Targets \cup {None} : Tree!Intend(p, t)
  <1>1. PICK a \in todo, id \in Ids :
            /\ op' = [id |-> id, kind |-> a.kind, path |-> a.path,
                      target |-> a.target, previous |-> a.previous]
            /\ journal' = journal \cup {op'}
    BY DEF Begin
  <1>2. journal = {} /\ UNCHANGED <<entry, owned>>
    BY DEF Begin, OneInv, disk
  <1>3. PICK o : o = op'
    OBVIOUS
  <1>4. journal' = {o} /\ o.kind = a.kind /\ o.path = a.path /\ o.target = a.target /\ o.previous = a.previous
    BY <1>1, <1>2, <1>3
  <1>5. Outstanding = None /\ Shown = [p \in Paths |-> entry[p]]
    BY <1>2, ShownIdle
  <1>6. CASE o.kind = "prepare"
    BY <1>2, <1>4, <1>5, <1>6, ShownIdleNext DEF Tree!vars
  <1>7. CASE o.kind # "prepare"
    <2>1. /\ a.path \in Paths /\ Changing(a) /\ entry[a.path] = a.previous
          /\ a.target \in Targets \cup {None}
      BY <1>4, <1>7 DEF TypeInv, TypeOK, Shape, Actions, TreeInv, Plan
    <2>2. ~Displaced(o)'
      BY <1>2, <1>4, <2>1 DEF Displaced, Changing
    <2>3. /\ Outstanding' = [path |-> a.path, from |-> a.previous, to |-> a.target]
          /\ Shown' = Shown
      BY <1>2, <1>4, <1>5, <1>7, <2>2, ShownMovingNext
    <2>4. Shown[a.path] = a.previous /\ a.target # a.previous
      BY <1>5, <2>1 DEF Changing
    <2>5. Tree!Intend(a.path, a.target)
      BY <1>2, <1>5, <2>3, <2>4 DEF Tree!Intend
    <2>6. QED
      BY <2>1, <2>5
  <1>8. QED
    BY <1>6, <1>7

LEMMA SeenSettle ==
    ASSUME TypeInv, OneInv, TreeInv, touched = {}, Cancel \/ Commit
    PROVE  UNCHANGED Tree!vars \/ Tree!Settle \/ Tree!Drop
  <1>1. /\ pc \in Working /\ entry' = entry /\ op \in journal
        /\ journal' = {r \in journal : r.id # op.id}
    BY OpType DEF Cancel, Commit, disk, Working, Labels
  <1>2. journal' = {} /\ journal = {op}
    BY <1>1 DEF OneInv, OneOutstanding
  <1>3. Outstanding' = None /\ Shown' = [p \in Paths |-> entry[p]]
    BY <1>1, <1>2, ShownIdleNext
  <1>4. CASE op.kind = "prepare"
    <2>1. owned' = owned
      BY <1>4 DEF Cancel, Commit
    <2>2. QED
      BY <1>2, <1>3, <1>4, <2>1, ShownIdle DEF Tree!vars
  <1>5. CASE op.kind # "prepare"
    <2>1. /\ op.path \in Paths /\ Calm(op) /\ Changing(op)
          /\ [path |-> op.path, from |-> op.previous, to |-> op.target] # None
      BY <1>1, <1>5, MovingOp
    <2>2. /\ Outstanding = [path |-> op.path, from |-> op.previous, to |-> op.target]
          /\ Shown = [p \in Paths |-> IF p = op.path /\ Displaced(op) THEN op.previous ELSE entry[p]]
      BY <1>2, <1>5, ShownMoving
    <2>3. CASE Cancel
      <3>1. entry[op.path] = op.previous /\ ~Displaced(op) /\ owned' = owned
        BY <2>1, <2>3 DEF Cancel, TreeInv, Progress, Waiting, Displaced, Changing
      <3>2. QED
        BY <1>3, <2>1, <2>2, <3>1 DEF Tree!Drop
    <2>4. CASE Commit
      <3>1. /\ entry[op.path] = op.target /\ ~Displaced(op)
            /\ owned' = [owned EXCEPT ![op.path] = op.target]
        BY <1>5, <2>1, <2>4 DEF Commit, TreeInv, Progress, Displaced, Changing
      <3>2. QED
        BY <1>3, <2>1, <2>2, <3>1 DEF Tree!Settle
    <2>5. QED
      BY <2>3, <2>4
  <1>6. QED
    BY <1>4, <1>5

(* Only these steps change the journal or the ledger.                       *)
LEMMA WritesRows ==
    ASSUME Publisher, ~Begin, ~Cancel, ~Commit
    PROVE  UNCHANGED <<journal, owned>>
  <1>1. CASE Fail
    BY <1>1 DEF Fail, db
  <1>2. CASE Command
    BY <1>2 DEF Command, Apply, Recover, Reverify, db
  <1>3. CASE Step /\ ~Fail
    <2>1. CASE Applied \/ RecoverRow \/ Recovered \/ Observe \/ Verify \/ Notify
      BY <2>1, <1>3 DEF Applied, RecoverRow, Recovered, Observe, Verify, Notify, db
    <2>2. CASE \/ Claim \/ WriteMarker \/ PublishedBefore \/ ResumeDisplaced \/ StartLink
               \/ CheckLeaf \/ VerifyExchanged \/ VerifyDisplaced \/ StartRemoval \/ Disowned
      BY <2>2, <1>3 DEF Claim, WriteMarker, PublishedBefore, ResumeDisplaced, StartLink,
           CheckLeaf, VerifyExchanged, VerifyDisplaced, StartRemoval, Disowned, db
    <2>3. CASE Writing
      BY <2>3, <1>3 DEF Writing, Symlink, Stage, ExchangeLeaf, SwapBack, Swap, Displace, Restore, Publish,
           MovePrivate, db
    <2>4. CASE \/ OpenPrivate \/ Discarded \/ MakePrivate \/ RecordPrivate \/ UnlinkPrivate
               \/ MarkPrivate \/ RemovePrivate \/ ForgetPrivate
      BY <2>4, <1>3 DEF OpenPrivate, Discarded, MakePrivate, RecordPrivate, UnlinkPrivate, MarkPrivate,
           RemovePrivate, ForgetPrivate, db
    <2>5. QED
      BY <1>3, <2>1, <2>2, <2>3, <2>4 DEF Step, Writing
  <1>4. QED
    BY <1>1, <1>2, <1>3 DEF Publisher

LEMMA SeenStep ==
    ASSUME TypeInv, OneInv, TreeInv, touched = {}, touched' = {}, [Next]_vars
    PROVE  [Tree!Next]_(Tree!vars)
  <1>1. CASE entry' = entry /\ journal' = journal /\ owned' = owned
    BY <1>1, Unseen DEF Displaced
  <1>2. CASE Publisher /\ (Begin \/ Cancel \/ Commit)
    BY <1>2, SeenBegin, SeenSettle DEF Tree!Next, Tree!Links
  <1>3. CASE Publisher /\ ~Begin /\ ~Cancel /\ ~Commit
    <2>1. UNCHANGED <<journal, owned>>
      BY <1>3, WritesRows
    <2>2. CASE Writing /\ ~Fail
      BY <1>3, <2>2, SeenWrites DEF Publisher, Tree!Next
    <2>3. CASE ~Writing \/ Fail
      BY <1>1, <1>3, <2>1, <2>3, WritesEntries DEF Fail, disk
    <2>4. QED
      BY <2>2, <2>3
  <1>4. CASE Environment \/ OperatorClears \/ UNCHANGED vars
    <2>1. ~OtherWrites
      BY DEF OtherWrites
    <2>2. UNCHANGED <<entry, journal, owned>>
      BY <1>4, <2>1 DEF Environment, Crash, Remap, Scan, SourceChanges, OtherMakesDirectory,
           OtherRemovesMarker, OperatorClears, vars, disk, db
    <2>3. QED
      BY <1>1, <2>2
  <1>5. QED
    BY <1>2, <1>3, <1>4 DEF Next

(* As long as nobody else writes to the output, every operation is atomic   *)
(* to the readers of its tree and to the ledger, whatever crashes and       *)
(* however often it is taken up again: the code implements PublishedTree.   *)
THEOREM AtomicTreeHolds == Spec /\ [](touched = {}) => AtomicTree
  <1>1. Init => TypeInv /\ OneInv /\ TreeInv
    BY TypeInit, TreeInit DEF Init, OneInv, OneOutstanding
  <1>2. TypeInv /\ OneInv /\ TreeInv /\ [Next]_vars => (TypeInv /\ OneInv /\ TreeInv)'
    BY TypeStep, OneStep, TreeStep
  <1>3. Init => Tree!Init
    <2>1. SUFFICES ASSUME Init PROVE Tree!Init
      OBVIOUS
    <2>2. journal = {} /\ \A p \in Paths : entry[p] = None
      BY <2>1, NameTypes DEF Init
    <2>3. QED
      BY <2>1, <2>2, ShownIdle DEF Tree!Init, Init
  <1>4. TypeInv /\ OneInv /\ TreeInv /\ touched = {} /\ (touched = {})' /\ [Next]_vars
            => [Tree!Next]_(Tree!vars)
    BY SeenStep
  <1>5. QED
    BY <1>1, <1>2, <1>3, <1>4, PTL DEF Spec, AtomicTree, Tree!Spec
=============================================================================
