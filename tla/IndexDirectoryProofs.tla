------------------------ MODULE IndexDirectoryProofs ------------------------
(***************************************************************************)
(* Theorems about IndexDirectory, for every number of writers and every    *)
(* bound: its type invariant; the exclusion the flock gives and the chain  *)
(* of generations that follows from it; and, on a file system that keeps   *)
(* directory changes in order, the completeness of the visible index and   *)
(* of whatever a power loss leaves, that what dead writers leave behind    *)
(* does not add up, and that the directory implements the atomic index.    *)
(*                                                                         *)
(* Theorems about IdentifierHistory and IndexReaders, for every number of  *)
(* readers too: no identifier that the visible generation or one before it *)
(* selected is used again; and a reader that takes no lock returns one     *)
(* generation as it was, and reports an error only for what happened.      *)
(***************************************************************************)
EXTENDS IndexReaders, FiniteSetTheorems, TLAPS

\* The phases of a transaction before the commit point, rollback included.
Uncommitted == {"recover", "opened", "built", "staged", "synced", "named",
                "nameSynced", "manifest", "manifestSynced",
                "rollTemporaries", "rollSegment", "rollSync"}

\* Those that have chosen what to publish.
Planned == {"built", "staged", "synced", "named", "nameSynced", "manifest",
            "manifestSynced", "committed"}

\* An open transaction's identifiers fit the Manifest it will write.
InBounds(w) ==
  pc[w] # "idle" =>
    /\ txn[w].base.generation \in 0 .. MaxGeneration - 1
    /\ txn[w].id \in 1 .. MaxSegmentId - 1
    /\ txn[w].session \in Sessions

TypeInv ==
  /\ TypeOK
  /\ session \in Nat \ {0}
  /\ \A w \in Writers : InBounds(w)

\* Only the holder of the flock is inside a transaction.
Exclusive == \A w \in Writers : pc[w] # "idle" => lock = w

\* Until it commits, a transaction's view of the directory is current.
Current(w) ==
  pc[w] \in Uncommitted =>
    /\ dir.man = txn[w].base
    /\ txn[w].base.generation # 0 => txn[w].protected = txn[w].base.active
    /\ \A i \in txn[w].protected : i < txn[w].id
    /\ txn[w].base.generation # 0 => txn[w].base.next <= txn[w].id

LockInv == Exclusive /\ \A w \in Writers : Current(w)

\* A directory that survives a power loss as it is: its MANIFEST and every
\* segment MANIFEST selects have been fsynced.
Sound(d) ==
  IF d.man.generation = 0 THEN d.man.active = {}
  ELSE /\ ValidManifest(d.man)
       /\ ManifestFile(d.man.by) \in durable
       /\ \A i \in d.man.active :
            d.seg[i] \in Sessions /\ SegmentFile(d.seg[i]) \in durable

\* What a transaction has put on disk by each phase.
Progress(w) ==
  LET t == txn[w] IN
  /\ pc[w] \in Planned =>
       \/ t.target = {t.id}
       \/ t.base.generation # 0 /\ t.target = t.protected \cup {t.id}
  /\ pc[w] \in {"synced", "named", "nameSynced", "manifest", "manifestSynced"} =>
       SegmentFile(t.session) \in durable
  /\ pc[w] \in {"named", "nameSynced", "manifest", "manifestSynced"} =>
       dir.seg[t.id] = t.session
  /\ pc[w] = "manifestSynced" => ManifestFile(t.session) \in durable
  /\ pc[w] = "committed" => dir.man.active = t.target
  /\ pc[w] = "retire" =>
       dir.man.active = t.target /\ t.retire \cap t.target = {}

SoundInv ==
  /\ dir \in images
  /\ \A d \in images : Sound(d)
  /\ \A w \in Writers : Progress(w)

IInv == TypeInv /\ LockInv /\ SoundInv

-----------------------------------------------------------------------------
(* Directory operations keep directories well formed. *)

LEMMA LinkType ==
  \A d \in Directories, i \in Ids, c \in Contents :
    LinkSegment(d, i, c) \in Directories
  BY DEF LinkSegment, Directories

LEMMA UnlinkType ==
  \A d \in Directories, i \in Ids : UnlinkSegment(d, i) \in Directories
  BY LinkType DEF UnlinkSegment, Contents

LEMMA TemporaryType ==
  ASSUME NEW d \in Directories
  PROVE  /\ \A t \in Temporaries : AddTemporary(d, t) \in Directories
         /\ \A T : DropTemporaries(d, T) \in Directories
  BY DEF AddTemporary, DropTemporaries, Directories

LEMMA ManifestType ==
  ASSUME NEW d \in Directories, NEW m \in Manifests
  PROVE  [d EXCEPT !.man = m] \in Directories
  BY DEF Directories

LEMMA SettleType ==
  ASSUME NEW d \in Directories
  PROVE  Settle(d) \in Directories
  <1>1. d.man \in Manifests /\ TornManifest \in Manifests
    BY BoundAssumption DEF Directories, TornManifest, Manifests, Torn
  <1>2. d.tmp \in SUBSET Temporaries
    BY DEF Directories
  <1>3. \A i \in Ids : d.seg[i] \in Contents /\ Torn \in Contents
    BY DEF Directories, Contents
  <1>. QED
    BY <1>1, <1>2, <1>3 DEF Settle, Directories

\* The Manifest an open transaction writes is a Manifest.
LEMMA NewManifestType ==
  ASSUME TypeInv, NEW w \in Writers, pc[w] # "idle"
  PROVE  NewManifest(txn[w]) \in Manifests
  BY BoundAssumption
  DEF TypeInv, TypeOK, InBounds, NewManifest, Manifests, Txns

LEMMA InitialTxn == NoTxn \in Txns
  BY BoundAssumption DEF NoTxn, Txns, NoManifest, Manifests

-----------------------------------------------------------------------------
(* The type invariant. *)

LEMMA InitType == Init => TypeInv
  <1> SUFFICES ASSUME Init PROVE TypeInv
    OBVIOUS
  <1>1. dir \in Directories
    BY BoundAssumption
    DEF Init, Directories, NoManifest, Manifests, Contents, Legacy, Absent
  <1>2. QED
    BY <1>1, InitialTxn, BoundAssumption
    DEF Init, TypeInv, TypeOK, Phases, InBounds

LEMMA StepType == TypeInv /\ [Next]_vars => TypeInv'
  <1> SUFFICES ASSUME TypeInv, [Next]_vars PROVE TypeInv'
    OBVIOUS
  <1> USE DEF TypeInv
  <1>1. ASSUME NEW w \in Writers, Open(w) PROVE TypeInv'
    <2>1. PICK id \in Ids :
            IsNextId(dir, id) /\ txn' = [txn EXCEPT ![w] = Opened(id)]
      BY <1>1 DEF Open
    <2>2. id \in 1 .. MaxSegmentId - 1
      BY <2>1, BoundAssumption DEF IsNextId, Ids
    <2>3. session + 1 \in Sessions
      BY <1>1, BoundAssumption DEF Open, Sessions, TypeOK
    <2>4. Protected(dir) \subseteq Ids
      BY BoundAssumption DEF Protected, SegmentsOf, TypeOK, Directories, Manifests
    <2>5. dir.man \in Manifests /\ dir.man.generation \in 0 .. MaxGeneration - 1
      BY <1>1, BoundAssumption DEF Open, TypeOK, Directories, Manifests
    <2>6. /\ Opened(id) \in Txns
          /\ Opened(id).base = dir.man /\ Opened(id).id = id
          /\ Opened(id).session = session + 1
      <3>1. id \in 0 .. MaxSegmentId /\ session + 1 \in 0 .. MaxSession
        BY <2>2, <2>3, BoundAssumption DEF Sessions
      <3>. QED
        BY <2>4, <2>5, <3>1 DEF Opened, Txns
    <2>7. txn' \in [Writers -> Txns] /\ InBounds(w)'
      BY <2>1, <2>2, <2>3, <2>5, <2>6 DEF TypeOK, InBounds
    <2>8. \A v \in Writers : InBounds(v)'
      BY <1>1, <2>1, <2>7 DEF Open, TypeOK, Goto, InBounds
    <2>9. QED
      BY <1>1, <2>3, <2>7, <2>8 DEF Open, AcquireLock, TypeOK, Goto, Phases, Sessions
  <1>2. ASSUME NEW w \in Writers, RemoveStale(w) PROVE TypeInv'
    <2>1. dir' \in Directories /\ images' \subseteq Directories
      <3>1. ASSUME NEW i \in Ids, ChangeDirectory(LAMBDA d : UnlinkSegment(d, i))
            PROVE  dir' \in Directories /\ images' \subseteq Directories
        BY <3>1, UnlinkType DEF ChangeDirectory, TypeOK
      <3>2. ASSUME NEW t, ChangeDirectory(LAMBDA d : DropTemporaries(d, {t}))
            PROVE  dir' \in Directories /\ images' \subseteq Directories
        BY <3>2, TemporaryType DEF ChangeDirectory, TypeOK
      <3>. QED
        BY <1>2, <3>1, <3>2 DEF RemoveStale, StaleSegments, SegmentsOf, ChangeDirectory
    <2>2. QED
      BY <1>2, <2>1 DEF RemoveStale, TypeOK, InBounds
  <1>3. ASSUME NEW w \in Writers, SyncRecovered(w) PROVE TypeInv'
    BY <1>3 DEF SyncRecovered, SyncDirectory, Goto, TypeOK, Phases, InBounds
  <1>4. ASSUME NEW w \in Writers, RecoverFails(w) PROVE TypeInv'
    BY <1>4, InitialTxn, BoundAssumption
    DEF RecoverFails, Release, TypeOK, Phases, InBounds
  <1>5. ASSUME NEW w \in Writers, Prepare(w) PROVE TypeInv'
    <2>1. PICK target \in Targets(txn[w]), external \in BOOLEAN :
            /\ txn' = [txn EXCEPT ![w].target = target, ![w].external = external]
            /\ IF external THEN UNCHANGED <<dir, images>>
               ELSE ChangeDirectory(LAMBDA d : AddTemporary(d, "build"))
      BY <1>5 DEF Prepare
    <2>2. target \in SUBSET Ids
      <3>1. txn[w] \in Txns /\ txn[w].id # 0
        BY <1>5 DEF Prepare, TypeOK, InBounds
      <3>2. txn[w].protected \subseteq Ids /\ txn[w].id \in Ids
        BY <3>1, BoundAssumption DEF Txns, Ids
      <3>3. target = {txn[w].id} \/ target = txn[w].protected \cup {txn[w].id}
        BY <2>1 DEF Targets
      <3>. QED
        BY <3>2, <3>3
    <2>3. dir' \in Directories /\ images' \subseteq Directories
      BY <2>1, TemporaryType DEF ChangeDirectory, TypeOK, Temporaries
    <2>4. txn' \in [Writers -> Txns]
      <3>1. txn \in [Writers -> Txns] /\ txn[w] \in Txns
        BY <1>5 DEF TypeOK
      <3>2. [txn[w] EXCEPT !.target = target, !.external = external] \in Txns
        BY <2>2, <3>1 DEF Txns
      <3>3. txn' = [txn EXCEPT ![w] = [txn[w] EXCEPT !.target = target,
                                                     !.external = external]]
        BY <2>1, <3>1 DEF Txns
      <3>. QED
        BY <3>1, <3>2, <3>3
    <2>5. \A v \in Writers : /\ txn'[v].base = txn[v].base
                             /\ txn'[v].id = txn[v].id
                             /\ txn'[v].session = txn[v].session
      BY <2>1 DEF TypeOK, Txns
    <2>6. QED
      BY <1>5, <2>3, <2>4, <2>5 DEF Prepare, Goto, TypeOK, Phases, InBounds
  <1>6. ASSUME NEW w \in Writers, Abandon(w) PROVE TypeInv'
    BY <1>6 DEF Abandon, Goto, TypeOK, Phases, InBounds
  <1>7. ASSUME NEW w \in Writers, Stage(w) PROVE TypeInv'
    <2>1. dir' \in Directories /\ images' \subseteq Directories
      BY <1>7, TemporaryType DEF Stage, ChangeDirectory, TypeOK, Temporaries
    <2>2. QED
      BY <1>7, <2>1 DEF Stage, Goto, TypeOK, Phases, InBounds
  <1>8. ASSUME NEW w \in Writers, SyncCandidate(w) \/ SyncManifest(w)
        PROVE TypeInv'
    <2>1. txn[w].session \in 0 .. MaxSession
      BY DEF TypeOK, Txns
    <2>2. durable' \subseteq Files
      BY <1>8, <2>1
      DEF SyncCandidate, SyncManifest, Files, SegmentFile, ManifestFile, TypeOK
    <2>3. QED
      BY <1>8, <2>2
      DEF SyncCandidate, SyncManifest, ReadyToPublish, Goto, TypeOK, Phases, InBounds
  <1>9. ASSUME NEW w \in Writers, NameSegment(w) PROVE TypeInv'
    <2>1. /\ txn[w].id \in Ids /\ txn[w].session \in Contents
      BY <1>9, BoundAssumption DEF NameSegment, InBounds, Ids, Contents
    <2>2. dir' \in Directories /\ images' \subseteq Directories
      BY <1>9, <2>1, LinkType, TemporaryType
      DEF NameSegment, ChangeDirectory, TypeOK
    <2>3. QED
      BY <1>9, <2>2 DEF NameSegment, Goto, TypeOK, Phases, InBounds
  <1>10. ASSUME NEW w \in Writers, SyncName(w) PROVE TypeInv'
    BY <1>10 DEF SyncName, SyncDirectory, Goto, TypeOK, Phases, InBounds
  <1>11. ASSUME NEW w \in Writers, CreateManifest(w) PROVE TypeInv'
    <2>1. dir' \in Directories /\ images' \subseteq Directories
      BY <1>11, TemporaryType DEF CreateManifest, ChangeDirectory, TypeOK, Temporaries
    <2>2. QED
      BY <1>11, <2>1 DEF CreateManifest, Goto, TypeOK, Phases, InBounds
  <1>12. ASSUME NEW w \in Writers, Commit(w) PROVE TypeInv'
    <2>1. NewManifest(txn[w]) \in Manifests
      BY <1>12, NewManifestType DEF Commit
    <2>2. \A d \in Directories :
            DropTemporaries([d EXCEPT !.man = NewManifest(txn[w])], {"manifest"})
              \in Directories
      BY <2>1, ManifestType, TemporaryType
    <2>3. dir' \in Directories /\ images' \subseteq Directories
      BY <1>12, <2>2 DEF Commit, ChangeDirectory, TypeOK
    <2>4. QED
      BY <1>12, <2>3 DEF Commit, Goto, TypeOK, Phases, InBounds
  <1>13. ASSUME NEW w \in Writers, PublishFails(w) \/ SyncCommitFails(w)
         PROVE TypeInv'
    BY <1>13, BoundAssumption
    DEF PublishFails, SyncCommitFails, ReadyToPublish, Fail, Goto, TypeOK, Phases,
        InBounds
  <1>14. ASSUME NEW w \in Writers, SyncCommit(w) PROVE TypeInv'
    <2>1. txn' \in [Writers -> Txns]
      BY <1>14 DEF SyncCommit, Retired, TypeOK, Txns
    <2>2. \A v \in Writers : /\ txn'[v].base = txn[v].base
                             /\ txn'[v].id = txn[v].id
                             /\ txn'[v].session = txn[v].session
      BY <1>14 DEF SyncCommit, TypeOK, Txns
    <2>3. QED
      BY <1>14, <2>1, <2>2
      DEF SyncCommit, SyncDirectory, Goto, TypeOK, Phases, InBounds
  <1>15. ASSUME NEW w \in Writers, Retire(w) \/ RetireFails(w) PROVE TypeInv'
    <2>1. PICK i \in txn[w].retire :
            /\ txn' = [txn EXCEPT ![w].retire = @ \ {i}]
            /\ \/ ChangeDirectory(LAMBDA d : UnlinkSegment(d, i))
               \/ UNCHANGED <<dir, images>>
      BY <1>15 DEF Retire, RetireFails
    <2>2. i \in Ids
      BY DEF TypeOK, Txns
    <2>3. dir' \in Directories /\ images' \subseteq Directories
      BY <2>1, <2>2, UnlinkType DEF ChangeDirectory, TypeOK
    <2>4. txn' \in [Writers -> Txns]
      BY <2>1 DEF TypeOK, Txns
    <2>5. \A v \in Writers : /\ txn'[v].base = txn[v].base
                             /\ txn'[v].id = txn[v].id
                             /\ txn'[v].session = txn[v].session
      BY <2>1 DEF TypeOK, Txns
    <2>6. /\ pc' \in [Writers -> Phases]
          /\ \A v \in Writers : pc'[v] # "idle" => pc[v] # "idle"
          /\ spent' \in [faults : 0 .. MaxFaults, kills : 0 .. MaxKills,
                          losses : 0 .. MaxLosses]
          /\ UNCHANGED <<durable, lock, session>>
      BY <1>15, BoundAssumption
      DEF Retire, RetireFails, ChangeDirectory, Fail, Goto, TypeOK, Phases
    <2>7. QED
      BY <2>3, <2>4, <2>5, <2>6 DEF TypeOK, InBounds
  <1>16. ASSUME NEW w \in Writers, SyncRetired(w) \/ RollbackSync(w) PROVE TypeInv'
    BY <1>16, BoundAssumption
    DEF SyncRetired, RollbackSync, SyncDirectory, Fail, Goto, TypeOK, Phases, InBounds
  <1>17. ASSUME NEW w \in Writers, RollbackTemporaries(w) PROVE TypeInv'
    <2>1. dir' \in Directories /\ images' \subseteq Directories
      BY <1>17, TemporaryType DEF RollbackTemporaries, ChangeDirectory, TypeOK
    <2>2. QED
      BY <1>17, <2>1, BoundAssumption
      DEF RollbackTemporaries, Fail, Goto, TypeOK, Phases, InBounds
  <1>18. ASSUME NEW w \in Writers, RollbackSegment(w) PROVE TypeInv'
    <2>1. txn[w].id \in Ids
      BY <1>18, BoundAssumption DEF RollbackSegment, InBounds, Ids
    <2>2. dir' \in Directories /\ images' \subseteq Directories
      BY <1>18, <2>1, UnlinkType DEF RollbackSegment, ChangeDirectory, TypeOK
    <2>3. QED
      BY <1>18, <2>2, BoundAssumption
      DEF RollbackSegment, Fail, Goto, TypeOK, Phases, InBounds
  <1>19. ASSUME NEW w \in Writers, Finish(w) PROVE TypeInv'
    <2>1. dir' \in Directories /\ images' \subseteq Directories
      BY <1>19, TemporaryType DEF Finish, ChangeDirectory, TypeOK
    <2>2. QED
      BY <1>19, <2>1, InitialTxn DEF Finish, Release, TypeOK, Phases, InBounds
  <1>20. ASSUME NEW w \in Writers, Kill(w) PROVE TypeInv'
    BY <1>20, InitialTxn, BoundAssumption
    DEF Kill, Release, TypeOK, Phases, InBounds
  <1>21. ASSUME PowerLoss PROVE TypeInv'
    <2>1. dir' \in Directories /\ images' \subseteq Directories
      BY <1>21, SettleType DEF PowerLoss, TypeOK
    <2>2. QED
      BY <1>21, <2>1, InitialTxn, BoundAssumption
      DEF PowerLoss, TypeOK, Phases, InBounds
  <1>22. CASE UNCHANGED vars
    BY <1>22 DEF vars, TypeOK, InBounds
  <1>. QED
    BY <1>1, <1>2, <1>3, <1>4, <1>5, <1>6, <1>7, <1>8, <1>9, <1>10, <1>11, <1>12,
       <1>13, <1>14, <1>15, <1>16, <1>17, <1>18, <1>19, <1>20, <1>21, <1>22
    DEF Next, Work

\* Every variable keeps its type, and an identifier or a generation never
\* outgrows the field that stores it: the exhaustion tests of
\* choose_transaction_identifiers are enough.
THEOREM TypeCorrect == Spec => []TypeOK
  <1>1. TypeInv => TypeOK
    BY DEF TypeInv
  <1>. QED
    BY <1>1, InitType, StepType, PTL DEF Spec

-----------------------------------------------------------------------------
(* Exclusion, and the chain of generations. *)

\* What the directory operations leave alone.
LEMMA LinkKeeps ==
  \A d \in Directories, i \in Ids, c \in Contents :
    /\ LinkSegment(d, i, c).man = d.man
    /\ \A j \in Ids : LinkSegment(d, i, c).seg[j] = IF j = i THEN c ELSE d.seg[j]
  BY DEF LinkSegment, Directories

LEMMA UnlinkKeeps ==
  \A d \in Directories, i \in Ids :
    /\ UnlinkSegment(d, i).man = d.man
    /\ \A j \in Ids : j # i => UnlinkSegment(d, i).seg[j] = d.seg[j]
  BY LinkKeeps DEF UnlinkSegment, Contents

LEMMA TemporaryKeeps ==
  \A d \in Directories :
    /\ \A t : AddTemporary(d, t).man = d.man /\ AddTemporary(d, t).seg = d.seg
    /\ \A T : /\ DropTemporaries(d, T).man = d.man
              /\ DropTemporaries(d, T).seg = d.seg
  BY DEF AddTemporary, DropTemporaries, Directories

LEMMA CommitKeeps ==
  \A d \in Directories, m \in Manifests :
    /\ DropTemporaries([d EXCEPT !.man = m], {"manifest"}).man = m
    /\ DropTemporaries([d EXCEPT !.man = m], {"manifest"}).seg = d.seg
  <1> SUFFICES ASSUME NEW d \in Directories, NEW m \in Manifests
               PROVE  /\ DropTemporaries([d EXCEPT !.man = m], {"manifest"}).man = m
                      /\ DropTemporaries([d EXCEPT !.man = m], {"manifest"}).seg
                           = d.seg
    OBVIOUS
  <1>1. /\ [d EXCEPT !.man = m] \in Directories
        /\ [d EXCEPT !.man = m].man = m /\ [d EXCEPT !.man = m].seg = d.seg
    BY DEF Directories
  <1>. QED
    BY <1>1, TemporaryKeeps

\* A writer's step does not touch the other writers' transactions.
LEMMA OthersKept ==
  ASSUME TypeInv, NEW w \in Writers, Open(w) \/ Work(w) \/ Kill(w),
         NEW v \in Writers, v # w
  PROVE  pc'[v] = pc[v] /\ txn'[v] = txn[v]
  <1>1. pc'[v] = pc[v]
    BY DEF TypeInv, TypeOK, Work, Open, RemoveStale, SyncRecovered, RecoverFails,
           Prepare, Abandon, Stage, SyncCandidate, NameSegment, SyncName,
           CreateManifest, SyncManifest, Commit, PublishFails, SyncCommit,
           SyncCommitFails, Retire, RetireFails, SyncRetired,
           RollbackTemporaries, RollbackSegment, RollbackSync, Finish, Kill,
           Goto, Fail, Release, ChangeDirectory
  <1>2. txn'[v] = txn[v]
    BY DEF TypeInv, TypeOK, Work, Open, RemoveStale, SyncRecovered, RecoverFails,
           Prepare, Abandon, Stage, SyncCandidate, NameSegment, SyncName,
           CreateManifest, SyncManifest, Commit, PublishFails, SyncCommit,
           SyncCommitFails, Retire, RetireFails, SyncRetired,
           RollbackTemporaries, RollbackSegment, RollbackSync, Finish, Kill,
           Fail, Release, ChangeDirectory
  <1>. QED
    BY <1>1, <1>2

\* Only the commit point replaces MANIFEST.
LEMMA ManifestKept ==
  ASSUME TypeInv, NEW w \in Writers, Open(w) \/ Work(w) \/ Kill(w), ~ Commit(w)
  PROVE  dir'.man = dir.man
  <1> USE DEF TypeInv, TypeOK
  <1>1. CASE RemoveStale(w)
    <2>1. ASSUME NEW i \in Ids, dir' = UnlinkSegment(dir, i) PROVE dir'.man = dir.man
      BY <2>1, UnlinkKeeps
    <2>2. ASSUME NEW t, dir' = DropTemporaries(dir, {t}) PROVE dir'.man = dir.man
      BY <2>2, TemporaryKeeps
    <2>. QED
      BY <1>1, <2>1, <2>2
      DEF RemoveStale, ChangeDirectory, StaleSegments, SegmentsOf
  <1>2. CASE Prepare(w) \/ Stage(w) \/ CreateManifest(w) \/ RollbackTemporaries(w)
             \/ Finish(w)
    <2>1. \/ dir' = dir
          \/ \E t \in Temporaries : dir' = AddTemporary(dir, t)
          \/ \E T \in SUBSET Temporaries : dir' = DropTemporaries(dir, T)
      <3>1. CASE Prepare(w) \/ Stage(w) \/ CreateManifest(w)
        BY <3>1 DEF Prepare, Stage, CreateManifest, ChangeDirectory, Temporaries
      <3>2. CASE RollbackTemporaries(w)
        BY <3>2 DEF RollbackTemporaries, ChangeDirectory, Temporaries
      <3>3. CASE Finish(w)
        BY <3>3 DEF Finish, ChangeDirectory, Temporaries
      <3>. QED
        BY <1>2, <3>1, <3>2, <3>3
    <2>. QED
      BY <2>1, TemporaryKeeps
  <1>3. CASE NameSegment(w)
    <2>1. txn[w].id \in Ids /\ txn[w].session \in Contents
      BY <1>3, BoundAssumption DEF NameSegment, InBounds, Ids, Contents
    <2>2. LinkSegment(dir, txn[w].id, txn[w].session) \in Directories
      BY <2>1, LinkType
    <2>. QED
      BY <1>3, <2>1, <2>2, LinkKeeps, TemporaryKeeps DEF NameSegment, ChangeDirectory
  <1>4. CASE RollbackSegment(w)
    <2>1. txn[w].id \in Ids
      BY <1>4, BoundAssumption DEF RollbackSegment, InBounds, Ids
    <2>. QED
      BY <1>4, <2>1, UnlinkKeeps DEF RollbackSegment, ChangeDirectory
  <1>5. CASE Retire(w)
    <2>1. PICK i \in txn[w].retire : dir' = UnlinkSegment(dir, i)
      BY <1>5 DEF Retire, ChangeDirectory
    <2>2. i \in Ids
      BY DEF Txns
    <2>. QED
      BY <2>1, <2>2, UnlinkKeeps
  <1>6. CASE \/ Open(w) \/ SyncRecovered(w) \/ RecoverFails(w) \/ Abandon(w)
             \/ SyncCandidate(w) \/ SyncName(w) \/ SyncManifest(w)
             \/ PublishFails(w) \/ SyncCommit(w) \/ SyncCommitFails(w)
             \/ RetireFails(w) \/ SyncRetired(w) \/ RollbackSync(w) \/ Kill(w)
    BY <1>6 DEF Open, SyncRecovered, RecoverFails, Abandon, SyncCandidate, SyncName,
                SyncManifest, PublishFails, SyncCommit, SyncCommitFails, RetireFails,
                SyncRetired, RollbackSync, Kill
  <1>. QED
    BY <1>1, <1>2, <1>3, <1>4, <1>5, <1>6 DEF Work

LEMMA InitLock == Init => LockInv
  BY DEF Init, LockInv, Exclusive, Current, Uncommitted

LEMMA StepExclusive ==
  TypeInv /\ LockInv /\ [Next]_vars => Exclusive'
  <1> SUFFICES ASSUME TypeInv, LockInv, [Next]_vars PROVE Exclusive'
    OBVIOUS
  <1> USE DEF TypeInv, TypeOK, LockInv, Exclusive
  <1>1. ASSUME NEW w \in Writers, Open(w) PROVE Exclusive'
    BY <1>1, WriterAssumption DEF Open, AcquireLock, Goto
  <1>2. ASSUME NEW w \in Writers, RecoverFails(w) \/ Finish(w) \/ Kill(w)
        PROVE  Exclusive'
    <2>1. pc[w] # "idle" /\ pc' = [pc EXCEPT ![w] = "idle"]
      BY <1>2 DEF RecoverFails, Finish, Kill, Release
    <2>. QED
      BY <2>1
  <1>3. ASSUME NEW w \in Writers, Work(w), lock' = lock PROVE Exclusive'
    <2>1. pc[w] # "idle"
      BY <1>3 DEF Work, RemoveStale, SyncRecovered, RecoverFails,
           Prepare, Abandon, Stage, SyncCandidate, NameSegment, SyncName,
           CreateManifest, SyncManifest, Commit, PublishFails, SyncCommit,
           SyncCommitFails, Retire, RetireFails, SyncRetired, ReadyToPublish,
           RollbackTemporaries, RollbackSegment, RollbackSync, Finish,
           ChangeDirectory
    <2>2. \A v \in Writers : v # w => pc'[v] = pc[v]
      BY <1>3, OthersKept
    <2>. QED
      BY <1>3, <2>1, <2>2
  <1>4. ASSUME PowerLoss PROVE Exclusive'
    BY <1>4 DEF PowerLoss
  <1>5. CASE UNCHANGED vars
    BY <1>5 DEF vars
  <1>6. \A w \in Writers : Work(w) => lock' = lock \/ RecoverFails(w) \/ Finish(w)
    BY DEF Work, RemoveStale, SyncRecovered,
           Prepare, Abandon, Stage, SyncCandidate, NameSegment, SyncName,
           CreateManifest, SyncManifest, Commit, PublishFails, SyncCommit,
           SyncCommitFails, Retire, RetireFails, SyncRetired,
           RollbackTemporaries, RollbackSegment, RollbackSync, ChangeDirectory
  <1>. QED
    BY <1>1, <1>2, <1>3, <1>4, <1>5, <1>6 DEF Next

\* While one writer moves, the others are outside their transactions.
LEMMA OthersIdle ==
  ASSUME TypeInv, LockInv, NEW w \in Writers, Open(w) \/ Work(w) \/ Kill(w),
         NEW v \in Writers, v # w
  PROVE  pc'[v] = "idle"
  <1>1. pc[w] # "idle" \/ lock = NoWriter
    BY DEF Open, AcquireLock, Kill, Work, RemoveStale, SyncRecovered, RecoverFails,
           Prepare, Abandon, Stage, SyncCandidate, NameSegment, SyncName,
           CreateManifest, SyncManifest, Commit, PublishFails, SyncCommit,
           SyncCommitFails, Retire, RetireFails, SyncRetired, ReadyToPublish,
           RollbackTemporaries, RollbackSegment, RollbackSync, Finish,
           ChangeDirectory
  <1>2. pc[v] = "idle"
    BY <1>1, WriterAssumption DEF LockInv, Exclusive
  <1>. QED
    BY <1>2, OthersKept

\* A step into an uncommitted phase comes from one, and keeps the transaction's
\* base, identifier and protected segments.
LEMMA UncommittedStep ==
  ASSUME TypeInv, NEW w \in Writers, Work(w), pc'[w] \in Uncommitted
  PROVE  /\ pc[w] \in Uncommitted /\ ~ Commit(w)
         /\ txn'[w].base = txn[w].base /\ txn'[w].id = txn[w].id
         /\ txn'[w].protected = txn[w].protected
  <1> USE DEF TypeInv, TypeOK
  <1>1. CASE \/ RecoverFails(w) \/ SyncCommit(w) \/ SyncCommitFails(w) \/ Commit(w)
             \/ Retire(w) \/ RetireFails(w) \/ SyncRetired(w) \/ Abandon(w)
             \/ RollbackSync(w) \/ Finish(w)
    <2>1. pc'[w] \in {"idle", "retire", "committed", "finish"}
      BY <1>1 DEF RecoverFails, SyncCommit, SyncCommitFails, Commit, Retire,
                  RetireFails, SyncRetired, Abandon, RollbackSync, Finish,
                  ChangeDirectory, Release, Goto, Fail
    <2>. QED
      BY <2>1 DEF Uncommitted
  <1>2. CASE Prepare(w)
    <2>1. PICK target, external :
            txn' = [txn EXCEPT ![w].target = target, ![w].external = external]
      BY <1>2 DEF Prepare
    <2>2. /\ txn'[w].base = txn[w].base /\ txn'[w].id = txn[w].id
          /\ txn'[w].protected = txn[w].protected
      BY <2>1 DEF Txns
    <2>3. pc[w] = "opened" /\ ~ Commit(w)
      BY <1>2 DEF Prepare, Commit
    <2>. QED
      BY <2>2, <2>3 DEF Uncommitted
  <1>3. CASE \/ RemoveStale(w) \/ SyncRecovered(w) \/ Stage(w) \/ SyncCandidate(w)
             \/ NameSegment(w) \/ SyncName(w) \/ CreateManifest(w)
             \/ SyncManifest(w) \/ PublishFails(w)
             \/ RollbackTemporaries(w) \/ RollbackSegment(w)
    <2>1. txn' = txn
      BY <1>3 DEF RemoveStale, SyncRecovered, Stage, SyncCandidate, NameSegment,
                  SyncName, CreateManifest, SyncManifest, PublishFails,
                  RollbackTemporaries, RollbackSegment, ChangeDirectory
    <2>2. pc[w] \in Uncommitted
      BY <1>3 DEF RemoveStale, SyncRecovered, Stage, SyncCandidate, NameSegment,
                  SyncName, CreateManifest, SyncManifest, PublishFails,
                  ReadyToPublish, RollbackTemporaries, RollbackSegment,
                  ChangeDirectory, Uncommitted
    <2>3. ~ Commit(w)
      BY <1>3 DEF RemoveStale, SyncRecovered, Stage, SyncCandidate, NameSegment,
                  SyncName, CreateManifest, SyncManifest, PublishFails,
                  ReadyToPublish, RollbackTemporaries, RollbackSegment,
                  ChangeDirectory, Commit, Goto, Fail, Uncommitted
    <2>. QED
      BY <2>1, <2>2, <2>3
  <1>. QED
    BY <1>1, <1>2, <1>3 DEF Work

LEMMA StepCurrent ==
  TypeInv /\ LockInv /\ [Next]_vars => \A v \in Writers : Current(v)'
  <1> SUFFICES ASSUME TypeInv, LockInv, [Next]_vars, NEW v \in Writers,
                      pc'[v] \in Uncommitted
               PROVE  Current(v)'
    BY DEF Current
  <1>0. pc'[v] # "idle"
    BY DEF Uncommitted
  <1>1. ASSUME NEW w \in Writers, Open(w) PROVE Current(v)'
    <2>1. v = w
      BY <1>0, <1>1, OthersIdle
    <2>2. PICK id \in Ids :
            IsNextId(dir, id) /\ txn' = [txn EXCEPT ![w] = Opened(id)]
      BY <1>1 DEF Open
    <2>3. txn'[w] = Opened(id) /\ dir' = dir
      BY <1>1, <2>2 DEF Open, TypeInv, TypeOK
    <2>4. \A i \in Protected(dir) : i < id
      BY <2>2 DEF IsNextId, Seen
    <2>5. dir.man.generation # 0 =>
            Protected(dir) = dir.man.active /\ dir.man.next <= id
      BY <2>2 DEF IsNextId, Floor, Protected, TypeInv, TypeOK, Directories,
                  Manifests, Ids
    <2>. QED
      BY <2>1, <2>3, <2>4, <2>5 DEF Opened, Current
  <1>2. ASSUME NEW w \in Writers, Work(w) PROVE Current(v)'
    <2>1. v = w
      BY <1>0, <1>2, OthersIdle
    <2>2. /\ pc[w] \in Uncommitted /\ ~ Commit(w)
          /\ txn'[w].base = txn[w].base /\ txn'[w].id = txn[w].id
          /\ txn'[w].protected = txn[w].protected
      BY <1>2, <2>1, UncommittedStep
    <2>3. dir'.man = dir.man
      BY <1>2, <2>2, ManifestKept
    <2>. QED
      BY <2>1, <2>2, <2>3 DEF LockInv, Current
  <1>3. ASSUME NEW w \in Writers, Kill(w) PROVE Current(v)'
    <2>1. pc'[w] = "idle"
      BY <1>3 DEF Kill, Release, TypeInv, TypeOK
    <2>. QED
      BY <1>0, <1>3, <2>1, OthersIdle
  <1>4. ASSUME PowerLoss PROVE Current(v)'
    BY <1>0, <1>4 DEF PowerLoss
  <1>5. CASE UNCHANGED vars
    BY <1>5 DEF vars, LockInv, Current
  <1>. QED
    BY <1>1, <1>2, <1>3, <1>4, <1>5 DEF Next

LEMMA LockInvariant == Spec => [](TypeInv /\ LockInv)
  <1>1. TypeInv /\ LockInv /\ [Next]_vars => LockInv'
    BY StepExclusive, StepCurrent DEF LockInv
  <1>. QED
    BY <1>1, InitType, InitLock, StepType, PTL DEF Spec

\* No update is lost, for any number of writers that open, fail and are killed
\* in any order: a visible generation gives way only to its successor, whose
\* identifiers are later ones.
THEOREM GenerationsChain == Spec => GenerationsAdvance
  <1> DEFINE A == spent'.losses = spent.losses /\ dir'.man # dir.man =>
                    /\ dir'.man.generation = dir.man.generation + 1
                    /\ dir.man.generation # 0 => dir'.man.next > dir.man.next
  <1>1. ASSUME TypeInv, LockInv, [Next]_vars PROVE A
    <2>1. ASSUME NEW w \in Writers, Commit(w) PROVE A
      <3>1. /\ dir.man = txn[w].base
            /\ dir.man.generation # 0 => dir.man.next <= txn[w].id
        BY <1>1, <2>1 DEF Commit, LockInv, Current, Uncommitted
      <3>2. dir'.man = NewManifest(txn[w])
        <4>1. NewManifest(txn[w]) \in Manifests /\ dir \in Directories
          BY <1>1, <2>1, NewManifestType DEF Commit, TypeInv, TypeOK
        <4>2. dir' = DropTemporaries([dir EXCEPT !.man = NewManifest(txn[w])],
                                     {"manifest"})
          BY <2>1 DEF Commit, ChangeDirectory
        <4>. QED
          BY <4>1, <4>2, CommitKeeps
      <3>3. txn[w].id \in Nat /\ dir.man.next \in Nat
        BY <1>1, BoundAssumption
        DEF TypeInv, TypeOK, Directories, Manifests, Txns
      <3>. QED
        BY <3>1, <3>2, <3>3 DEF NewManifest
    <2>2. ASSUME NEW w \in Writers, Open(w) \/ Work(w) \/ Kill(w), ~ Commit(w)
          PROVE  A
      BY <1>1, <2>2, ManifestKept
    <2>3. ASSUME PowerLoss PROVE A
      BY <1>1, <2>3 DEF PowerLoss, TypeInv, TypeOK
    <2>4. CASE UNCHANGED vars
      BY <2>4 DEF vars
    <2>. QED
      BY <1>1, <2>1, <2>2, <2>3, <2>4 DEF Next
  <1>2. A => [A]_vars
    OBVIOUS
  <1>. QED
    BY <1>1, LockInvariant, PTL DEF Spec, GenerationsAdvance

-----------------------------------------------------------------------------
(* Completeness of the visible index and of every crash image, on a file    *)
(* system that keeps directory changes in order.                            *)

\* Before the commit point nothing that MANIFEST selects is at stake.
LEMMA ActiveProtected ==
  ASSUME IInv, NEW w \in Writers, pc[w] \in Uncommitted
  PROVE  /\ dir.man.active \subseteq txn[w].protected
         /\ txn[w].id \notin dir.man.active
  BY DEF IInv, LockInv, Current, SoundInv, Sound, TypeInv, TypeOK, Txns, Ids

\* An ordered change adds one image, a sync leaves one, and the visible
\* directory is an image.
LEMMA ImagesStep ==
  ASSUME Ordered, IInv, NEW w \in Writers, Open(w) \/ Work(w) \/ Kill(w)
  PROVE  /\ images' = images \cup {dir'} \/ images' = {dir'}
         /\ Commit(w) => images' = images \cup {dir'}
  <1>0. dir \in images
    BY DEF IInv, SoundInv
  <1>1. CASE RemoveStale(w)
    BY <1>0, <1>1 DEF RemoveStale, ChangeDirectory, Commit
  <1>2. CASE Prepare(w) \/ Stage(w) \/ CreateManifest(w)
    <2>1. pc[w] # "manifestSynced"
      BY <1>2 DEF Prepare, Stage, CreateManifest, ChangeDirectory
    <2>2. images' = images \cup {dir'}
      BY <1>0, <1>2 DEF Prepare, Stage, CreateManifest, ChangeDirectory
    <2>. QED
      BY <2>1, <2>2 DEF Commit, ChangeDirectory
  <1>3. CASE NameSegment(w)
    BY <1>0, <1>3 DEF NameSegment, ChangeDirectory
  <1>4. CASE Commit(w)
    BY <1>0, <1>4 DEF Commit, ChangeDirectory
  <1>5. CASE Retire(w)
    BY <1>0, <1>5 DEF Retire, ChangeDirectory
  <1>6. CASE RollbackTemporaries(w) \/ RollbackSegment(w) \/ Finish(w)
    BY <1>0, <1>6 DEF RollbackTemporaries, RollbackSegment, Finish, ChangeDirectory
  <1>7. CASE \/ SyncRecovered(w) \/ SyncName(w) \/ SyncCommit(w) \/ SyncRetired(w)
             \/ RollbackSync(w)
    <2>1. images' = images \cup {dir'} \/ images' = {dir'}
      BY <1>0, <1>7
      DEF SyncRecovered, SyncName, SyncCommit, SyncRetired, RollbackSync,
          SyncDirectory
    <2>2. pc[w] # "manifestSynced"
      BY <1>7 DEF SyncRecovered, SyncName, SyncCommit, SyncRetired, RollbackSync
    <2>. QED
      BY <2>1, <2>2 DEF Commit, ChangeDirectory
  <1>8. CASE \/ Open(w) \/ RecoverFails(w) \/ Abandon(w) \/ SyncCandidate(w)
             \/ SyncManifest(w) \/ PublishFails(w) \/ SyncCommitFails(w)
             \/ RetireFails(w) \/ Kill(w)
    BY <1>0, <1>8 DEF Open, RecoverFails, Abandon, SyncCandidate, SyncManifest,
                      PublishFails, SyncCommitFails, RetireFails, Kill
  <1>. QED
    BY <1>1, <1>2, <1>3, <1>4, <1>5, <1>6, <1>7, <1>8 DEF Work

\* No step of a writer touches a segment that MANIFEST selects.
LEMMA SelectedKept ==
  ASSUME IInv, NEW w \in Writers, Open(w) \/ Work(w) \/ Kill(w)
  PROVE  \A i \in dir.man.active : dir'.seg[i] = dir.seg[i]
  <1>0. dir \in Directories /\ dir.man.active \subseteq Ids
    BY DEF IInv, TypeInv, TypeOK, Directories, Manifests
  <1>1. CASE RemoveStale(w)
    <2>1. dir.man.active \subseteq txn[w].protected
      BY <1>1, ActiveProtected DEF RemoveStale, Uncommitted, ChangeDirectory
    <2>2. \/ \E i \in Ids \ txn[w].protected : dir' = UnlinkSegment(dir, i)
          \/ \E t \in dir.tmp : dir' = DropTemporaries(dir, {t})
      BY <1>1 DEF RemoveStale, ChangeDirectory, StaleSegments, SegmentsOf
    <2>3. CASE \E i \in Ids \ txn[w].protected : dir' = UnlinkSegment(dir, i)
      BY <1>0, <2>1, <2>3, UnlinkKeeps
    <2>4. CASE \E t \in dir.tmp : dir' = DropTemporaries(dir, {t})
      BY <1>0, <2>4, TemporaryKeeps
    <2>. QED
      BY <2>2, <2>3, <2>4
  <1>2. CASE NameSegment(w)
    <2>1. txn[w].id \notin dir.man.active
      BY <1>2, ActiveProtected DEF NameSegment, Uncommitted, ChangeDirectory
    <2>2. txn[w].id \in Ids /\ txn[w].session \in Contents
      BY <1>2, BoundAssumption
      DEF NameSegment, IInv, TypeInv, InBounds, Ids, Contents, ChangeDirectory
    <2>3. LinkSegment(dir, txn[w].id, txn[w].session) \in Directories
      BY <1>0, <2>2, LinkType
    <2>4. dir' = DropTemporaries(LinkSegment(dir, txn[w].id, txn[w].session),
                                 {"segment"})
      BY <1>2 DEF NameSegment, ChangeDirectory
    <2>. QED
      BY <1>0, <2>1, <2>2, <2>3, <2>4, LinkKeeps, TemporaryKeeps
  <1>3. CASE RollbackSegment(w)
    <2>1. txn[w].id \notin dir.man.active
      BY <1>3, ActiveProtected DEF RollbackSegment, Uncommitted, ChangeDirectory
    <2>2. txn[w].id \in Ids
      BY <1>3, BoundAssumption
      DEF RollbackSegment, IInv, TypeInv, InBounds, Ids, ChangeDirectory
    <2>3. dir' = dir \/ dir' = UnlinkSegment(dir, txn[w].id)
      BY <1>3 DEF RollbackSegment, ChangeDirectory
    <2>. QED
      BY <1>0, <2>1, <2>2, <2>3, UnlinkKeeps
  <1>4. CASE Retire(w)
    <2>1. PICK i \in txn[w].retire : dir' = UnlinkSegment(dir, i)
      BY <1>4 DEF Retire, ChangeDirectory
    <2>2. pc[w] = "retire"
      BY <1>4 DEF Retire, ChangeDirectory
    <2>3. i \in Ids /\ i \notin dir.man.active
      BY <2>2 DEF IInv, SoundInv, Progress, TypeInv, TypeOK, Txns
    <2>. QED
      BY <1>0, <2>1, <2>3, UnlinkKeeps
  <1>5. CASE Commit(w)
    <2>1. NewManifest(txn[w]) \in Manifests
      BY <1>5, NewManifestType DEF Commit, IInv, ChangeDirectory
    <2>2. dir' = DropTemporaries([dir EXCEPT !.man = NewManifest(txn[w])],
                                 {"manifest"})
      BY <1>5 DEF Commit, ChangeDirectory
    <2>. QED
      BY <1>0, <2>1, <2>2, CommitKeeps
  <1>6. CASE \/ Prepare(w) \/ Stage(w) \/ CreateManifest(w)
             \/ RollbackTemporaries(w) \/ Finish(w)
    <2>1. \/ dir' = dir
          \/ \E t \in Temporaries : dir' = AddTemporary(dir, t)
          \/ \E T \in SUBSET Temporaries : dir' = DropTemporaries(dir, T)
      <3>1. CASE Prepare(w) \/ Stage(w) \/ CreateManifest(w)
        BY <3>1 DEF Prepare, Stage, CreateManifest, ChangeDirectory, Temporaries
      <3>2. CASE RollbackTemporaries(w)
        BY <3>2 DEF RollbackTemporaries, ChangeDirectory, Temporaries
      <3>3. CASE Finish(w)
        BY <3>3 DEF Finish, ChangeDirectory, Temporaries
      <3>. QED
        BY <1>6, <3>1, <3>2, <3>3
    <2>. QED
      BY <1>0, <2>1, TemporaryKeeps
  <1>7. CASE \/ Open(w) \/ SyncRecovered(w) \/ RecoverFails(w) \/ Abandon(w)
             \/ SyncCandidate(w) \/ SyncName(w) \/ SyncManifest(w)
             \/ PublishFails(w) \/ SyncCommit(w) \/ SyncCommitFails(w)
             \/ RetireFails(w) \/ SyncRetired(w) \/ RollbackSync(w) \/ Kill(w)
    BY <1>7 DEF Open, SyncRecovered, RecoverFails, Abandon, SyncCandidate, SyncName,
                SyncManifest, PublishFails, SyncCommit, SyncCommitFails, RetireFails,
                SyncRetired, RollbackSync, Kill
  <1>. QED
    BY <1>1, <1>2, <1>3, <1>4, <1>5, <1>6, <1>7 DEF Work

\* What has been fsynced stays fsynced.
LEMMA DurableGrows ==
  ASSUME NEW w \in Writers, Open(w) \/ Work(w) \/ Kill(w)
  PROVE  durable \subseteq durable'
  BY DEF Open, Kill, Work, RemoveStale, SyncRecovered, RecoverFails,
         Prepare, Abandon, Stage, SyncCandidate, NameSegment, SyncName,
         CreateManifest, SyncManifest, Commit, PublishFails, SyncCommit,
         SyncCommitFails, Retire, RetireFails, SyncRetired,
         RollbackTemporaries, RollbackSegment, RollbackSync, Finish,
         ChangeDirectory

\* The directory after a writer's step is sound.
LEMMA SoundStep ==
  ASSUME IInv, NEW w \in Writers, Open(w) \/ Work(w) \/ Kill(w)
  PROVE  Sound(dir)'
  <1>0. Sound(dir) /\ dir \in Directories
    BY DEF IInv, SoundInv, TypeInv, TypeOK
  <1>1. CASE Commit(w)
    <2>1. pc[w] = "manifestSynced" /\ durable' = durable
      BY <1>1 DEF Commit, ChangeDirectory
    <2>2. NewManifest(txn[w]) \in Manifests
      BY <2>1, NewManifestType DEF IInv
    <2>3. dir' = DropTemporaries([dir EXCEPT !.man = NewManifest(txn[w])],
                                 {"manifest"})
      BY <1>1 DEF Commit, ChangeDirectory
    <2>4. dir'.man = NewManifest(txn[w]) /\ dir'.seg = dir.seg
      BY <1>0, <2>2, <2>3, CommitKeeps
    <2>5. /\ dir.man = txn[w].base
          /\ txn[w].base.generation # 0 => txn[w].protected = txn[w].base.active
          /\ \A i \in txn[w].protected : i < txn[w].id
      BY <2>1 DEF IInv, LockInv, Current, Uncommitted
    <2>6. \/ txn[w].target = {txn[w].id}
          \/ /\ txn[w].base.generation # 0
             /\ txn[w].target = txn[w].protected \cup {txn[w].id}
      BY <2>1 DEF IInv, SoundInv, Progress, Planned
    <2>7. /\ SegmentFile(txn[w].session) \in durable
          /\ ManifestFile(txn[w].session) \in durable
          /\ dir.seg[txn[w].id] = txn[w].session
      BY <2>1 DEF IInv, SoundInv, Progress
    <2>8. /\ txn[w].base.generation \in 0 .. MaxGeneration - 1
          /\ txn[w].id \in 1 .. MaxSegmentId - 1
          /\ txn[w].session \in Sessions
      BY <2>1 DEF IInv, TypeInv, InBounds
    <2>9. \A i \in txn[w].target :
            dir.seg[i] \in Sessions /\ SegmentFile(dir.seg[i]) \in durable
      BY <1>0, <2>5, <2>6, <2>7, <2>8 DEF Sound
    <2>10. ValidManifest(NewManifest(txn[w]))
      <3>1. txn[w].target \subseteq Ids
        BY DEF IInv, TypeInv, TypeOK, Txns
      <3>2. \A i \in txn[w].target : i < txn[w].id + 1
        BY <2>5, <2>6, <2>8, <3>1 DEF Ids
      <3>. QED
        BY <2>6, <2>8, <3>1, <3>2, BoundAssumption DEF ValidManifest, NewManifest
    <2>11. NewManifest(txn[w]).generation # 0
      BY <2>8 DEF NewManifest
    <2>. QED
      BY <2>1, <2>4, <2>7, <2>9, <2>10, <2>11 DEF Sound, NewManifest
  <1>2. CASE ~ Commit(w)
    <2>1. dir'.man = dir.man
      BY <1>2, ManifestKept DEF IInv
    <2>2. \A i \in dir.man.active : dir'.seg[i] = dir.seg[i]
      BY SelectedKept
    <2>3. durable \subseteq durable'
      BY DurableGrows
    <2>. QED
      BY <1>0, <2>1, <2>2, <2>3 DEF Sound
  <1>. QED
    BY <1>1, <1>2

\* What a transaction has put on disk grows with its phases.
LEMMA WriterProgress ==
  ASSUME IInv, NEW w \in Writers, Open(w) \/ Work(w) \/ Kill(w)
  PROVE  Progress(w)'
  <1>0. /\ dir \in Directories /\ pc \in [Writers -> Phases]
        /\ txn \in [Writers -> Txns] /\ Progress(w)
    BY DEF IInv, TypeInv, TypeOK, SoundInv
  <1> USE DEF Goto, Fail
  <1>1. CASE pc'[w] \notin Planned \cup {"retire"}
    BY <1>1 DEF Progress, Planned
  <1>2. CASE Prepare(w)
    <2>1. PICK target \in Targets(txn[w]), external \in BOOLEAN :
            txn' = [txn EXCEPT ![w].target = target, ![w].external = external]
      BY <1>2 DEF Prepare, ChangeDirectory
    <2>2. /\ txn'[w].target = target /\ txn'[w].id = txn[w].id
          /\ txn'[w].base = txn[w].base /\ txn'[w].protected = txn[w].protected
      BY <1>0, <2>1 DEF Txns
    <2>3. pc'[w] = "built"
      BY <1>0, <1>2 DEF Prepare, ChangeDirectory
    <2>. QED
      BY <2>2, <2>3 DEF Targets, Progress
  <1>3. CASE Stage(w)
    BY <1>0, <1>3 DEF Stage, ChangeDirectory, Progress, Planned
  <1>4. CASE SyncCandidate(w)
    BY <1>0, <1>4 DEF SyncCandidate, ReadyToPublish, Progress, Planned
  <1>5. CASE NameSegment(w)
    <2>1. txn[w].id \in Ids /\ txn[w].session \in Contents
      BY <1>5, BoundAssumption
      DEF NameSegment, IInv, TypeInv, InBounds, Ids, Contents, ChangeDirectory
    <2>2. dir' = DropTemporaries(LinkSegment(dir, txn[w].id, txn[w].session),
                                 {"segment"})
      BY <1>5 DEF NameSegment, ChangeDirectory
    <2>3. dir'.seg[txn[w].id] = txn[w].session
      BY <1>0, <2>1, <2>2, LinkKeeps, LinkType, TemporaryKeeps
    <2>. QED
      BY <1>0, <1>5, <2>3 DEF NameSegment, ChangeDirectory, Progress, Planned
  <1>6. CASE SyncName(w)
    BY <1>0, <1>6 DEF SyncName, Progress, Planned
  <1>7. CASE CreateManifest(w)
    <2>1. dir'.seg = dir.seg
      BY <1>0, <1>7, TemporaryKeeps DEF CreateManifest, ChangeDirectory
    <2>. QED
      BY <1>0, <1>7, <2>1 DEF CreateManifest, ChangeDirectory, Progress, Planned
  <1>8. CASE SyncManifest(w)
    BY <1>0, <1>8 DEF SyncManifest, Progress, Planned
  <1>9. CASE Commit(w)
    <2>1. NewManifest(txn[w]) \in Manifests
      BY <1>9, NewManifestType DEF Commit, IInv, ChangeDirectory
    <2>2. dir' = DropTemporaries([dir EXCEPT !.man = NewManifest(txn[w])],
                                 {"manifest"})
      BY <1>9 DEF Commit, ChangeDirectory
    <2>3. dir'.man.active = txn[w].target
      BY <1>0, <2>1, <2>2, CommitKeeps DEF NewManifest
    <2>. QED
      BY <1>0, <1>9, <2>3 DEF Commit, ChangeDirectory, Progress, Planned
  <1>10. CASE SyncCommit(w)
    <2>1. txn'[w].target = txn[w].target /\ txn'[w].retire = Retired(txn[w])
      BY <1>0, <1>10 DEF SyncCommit, Txns
    <2>. QED
      BY <1>0, <1>10, <2>1 DEF SyncCommit, Progress, Planned, Retired
  <1>11. CASE Retire(w)
    <2>1. PICK i \in txn[w].retire :
            /\ dir' = UnlinkSegment(dir, i)
            /\ txn' = [txn EXCEPT ![w].retire = @ \ {i}]
      BY <1>11 DEF Retire, ChangeDirectory
    <2>2. txn'[w].target = txn[w].target /\ txn'[w].retire \subseteq txn[w].retire
      BY <1>0, <2>1 DEF Txns
    <2>3. dir'.man = dir.man
      BY <1>0, <2>1, UnlinkKeeps DEF Txns
    <2>. QED
      BY <1>0, <1>11, <2>2, <2>3 DEF Retire, ChangeDirectory, Progress, Planned
  <1>12. CASE RetireFails(w)
    <2>1. PICK i \in txn[w].retire : txn' = [txn EXCEPT ![w].retire = @ \ {i}]
      BY <1>12 DEF RetireFails
    <2>2. txn'[w].target = txn[w].target /\ txn'[w].retire \subseteq txn[w].retire
      BY <1>0, <2>1 DEF Txns
    <2>. QED
      BY <1>0, <1>12, <2>2 DEF RetireFails, Progress, Planned
  <1>13. CASE RemoveStale(w)
    BY <1>1, <1>13 DEF RemoveStale, ChangeDirectory, Planned
  <1>14. CASE Open(w)
    BY <1>0, <1>1, <1>14 DEF Open, Planned
  <1>15. CASE RecoverFails(w) \/ Finish(w) \/ Kill(w)
    BY <1>0, <1>1, <1>15 DEF RecoverFails, Finish, Kill, Release, Planned,
                             ChangeDirectory
  <1>16. CASE \/ SyncRecovered(w) \/ Abandon(w) \/ PublishFails(w)
              \/ SyncCommitFails(w) \/ SyncRetired(w) \/ RollbackSync(w)
    BY <1>0, <1>1, <1>16 DEF SyncRecovered, Abandon, PublishFails, SyncCommitFails,
                             SyncRetired, RollbackSync, Planned
  <1>17. CASE RollbackTemporaries(w) \/ RollbackSegment(w)
    BY <1>0, <1>1, <1>17 DEF RollbackTemporaries, RollbackSegment, Planned,
                             ChangeDirectory
  <1>. QED
    BY <1>2, <1>3, <1>4, <1>5, <1>6, <1>7, <1>8, <1>9, <1>10, <1>11, <1>12,
       <1>13, <1>14, <1>15, <1>16, <1>17 DEF Work

\* A power loss leaves a sound directory as it is.
LEMMA SettleSound ==
  ASSUME NEW d \in Directories, Sound(d)
  PROVE  Settle(d).man = d.man /\ Sound(Settle(d)) /\ Complete(Settle(d))
  <1>1. Settle(d).man = d.man
    BY DEF Settle, Sound, ValidManifest, Directories, Manifests
  <1>2. ASSUME NEW i \in d.man.active, d.man.generation # 0
        PROVE  /\ d.seg[i] \in Sessions /\ SegmentFile(d.seg[i]) \in durable
               /\ Settle(d).seg[i] = d.seg[i]
    BY <1>2 DEF Settle, Sound, Directories, Manifests
  <1>3. Sound(Settle(d))
    BY <1>1, <1>2 DEF Sound
  <1>. QED
    BY <1>1, <1>2, <1>3 DEF Sound, Complete, Readable

LEMMA InitSound == Init => SoundInv
  <1> SUFFICES ASSUME Init PROVE SoundInv
    OBVIOUS
  <1>1. dir.man = NoManifest /\ images = {dir}
    BY DEF Init
  <1>2. \A w \in Writers : pc[w] = "idle"
    BY DEF Init
  <1>. QED
    BY <1>1, <1>2 DEF SoundInv, Sound, NoManifest, Progress, Planned

LEMMA StepSoundInv ==
  ASSUME Ordered
  PROVE  IInv /\ [Next]_vars => SoundInv'
  <1> SUFFICES ASSUME IInv, [Next]_vars PROVE SoundInv'
    OBVIOUS
  <1>1. ASSUME NEW w \in Writers, Open(w) \/ Work(w) \/ Kill(w) PROVE SoundInv'
    <2>1. dir' \in images' /\ images' \subseteq images \cup {dir'}
      BY <1>1, ImagesStep
    <2>2. Sound(dir)'
      BY <1>1, SoundStep
    <2>3. \A d \in images : Sound(d)'
      BY <1>1, DurableGrows DEF IInv, SoundInv, Sound
    <2>4. \A d \in images' : Sound(d)'
      BY <2>1, <2>2, <2>3 DEF Sound
    <2>5. ASSUME NEW v \in Writers PROVE Progress(v)'
      <3>1. CASE v = w
        BY <1>1, <3>1, WriterProgress
      <3>2. CASE v # w
        BY <1>1, <3>2, OthersIdle DEF IInv, Progress, Planned
      <3>. QED
        BY <3>1, <3>2
    <2>. QED
      BY <2>1, <2>4, <2>5 DEF SoundInv
  <1>2. ASSUME PowerLoss PROVE SoundInv'
    <2>1. PICK d \in images : dir' = Settle(d) /\ images' = {Settle(d)}
      BY <1>2 DEF PowerLoss
    <2>2. Sound(Settle(d))
      BY SettleSound DEF IInv, SoundInv, TypeInv, TypeOK
    <2>3. durable' = durable /\ \A v \in Writers : pc'[v] = "idle"
      BY <1>2 DEF PowerLoss
    <2>. QED
      BY <2>1, <2>2, <2>3 DEF SoundInv, Sound, Progress, Planned
  <1>3. CASE UNCHANGED vars
    BY <1>3 DEF vars, IInv, SoundInv, Sound, Progress
  <1>. QED
    BY <1>1, <1>2, <1>3 DEF Next

LEMMA SoundInvariant ==
  ASSUME Ordered
  PROVE  Spec => []IInv
  <1>1. Init => IInv
    BY InitType, InitLock, InitSound DEF IInv
  <1>2. IInv /\ [Next]_vars => IInv'
    BY StepType, StepExclusive, StepCurrent, StepSoundInv DEF IInv, LockInv
  <1>. QED
    BY <1>1, <1>2, PTL DEF Spec

\* On such a file system a power loss at any instant, after any failures and
\* kills, leaves a complete generation; and no step ever leaves the visible
\* MANIFEST selecting a segment that is missing or damaged.
THEOREM CrashSafety ==
  ASSUME Ordered
  PROVE  Spec => []VisibleComplete /\ []CrashComplete
  <1>1. IInv => VisibleComplete
    BY DEF IInv, SoundInv, VisibleComplete, Sound, Complete, Readable
  <1>2. IInv => CrashComplete
    BY SettleSound DEF IInv, SoundInv, TypeInv, TypeOK, CrashComplete
  <1>. QED
    BY <1>1, <1>2, SoundInvariant, PTL

-----------------------------------------------------------------------------
(* What writers leave behind.                                               *)

\* Recovery is over: until the transaction commits or ends, the directory holds
\* nothing but the protected segments, its own, and its temporaries.
Recovered == Uncommitted \ {"recover"}

OwnSegments(w) ==
  txn[w].protected
    \cup IF pc[w] \in {"opened", "built", "staged", "synced"} THEN {} ELSE {txn[w].id}

OwnTemporaries(p) ==
  CASE p = "opened"                      -> {}
    [] p \in {"staged", "synced"}        -> {"build", "segment"}
    [] p \in {"manifest", "manifestSynced"} -> {"build", "manifest"}
    [] OTHER                             -> {"build"}

Clean(w) ==
  /\ pc[w] \in Uncommitted /\ txn[w].base.generation = 0 => txn[w].protected \subseteq {1}
  /\ pc[w] \in Recovered => SegmentsOf(dir) \subseteq OwnSegments(w)
  /\ pc[w] \in {"opened", "built", "staged", "synced", "named", "nameSynced",
                "manifest", "manifestSynced"} =>
       dir.tmp \subseteq OwnTemporaries(pc[w])

OneOrphan(d) == \A i, j \in Orphans(d) : i = j

CleanInv ==
  /\ \A d \in images : OneOrphan(d)
  /\ \A w \in Writers : Clean(w)

\* A Manifest that selects something sets the floor past it; without one only
\* the first identifier may be below it.
LEMMA OrphansOf ==
  ASSUME NEW d \in Directories, d.man.generation \in Nat
  PROVE  Orphans(d) = IF d.man.generation = 0 THEN SegmentsOf(d) \ {1}
                      ELSE {i \in SegmentsOf(d) : i >= d.man.next}
  <1>1. CASE d.man.generation = 0
    <2>1. SegmentsOf(d) \subseteq Nat \ {0}
      BY BoundAssumption DEF SegmentsOf, Ids
    <2>2. Floor(d) = IF 1 \in SegmentsOf(d) THEN 2 ELSE 1
      BY <1>1 DEF Floor, Protected
    <2>. QED
      BY <1>1, <2>1, <2>2 DEF Orphans
  <1>2. CASE d.man.generation # 0
    BY <1>2 DEF Orphans, Floor
  <1>. QED
    BY <1>1, <1>2

\* So, under the same Manifest, fewer segments mean no more orphans.
LEMMA OrphansShrink ==
  ASSUME NEW d \in Directories, NEW e \in Directories, d.man.generation \in Nat,
         e.man = d.man, SegmentsOf(e) \subseteq SegmentsOf(d), OneOrphan(d)
  PROVE  OneOrphan(e)
  <1>1. Orphans(e) \subseteq Orphans(d)
    BY OrphansOf
  <1>. QED
    BY <1>1 DEF OneOrphan

LEMMA GenerationIsNat ==
  ASSUME IInv, NEW d \in images
  PROVE  d \in Directories /\ d.man.generation \in Nat
  <1>1. d \in Directories /\ Sound(d)
    BY DEF IInv, SoundInv, TypeInv, TypeOK
  <1>. QED
    BY <1>1, BoundAssumption DEF Sound, ValidManifest

\* What each operation does to the temporaries.
LEMMA TemporaryOf ==
  /\ \A d \in Directories : /\ \A t : AddTemporary(d, t).tmp = d.tmp \cup {t}
                            /\ \A T : DropTemporaries(d, T).tmp = d.tmp \ T
  /\ \A d \in Directories, i \in Ids, c \in Contents :
       LinkSegment(d, i, c).tmp = d.tmp
  BY DEF AddTemporary, DropTemporaries, LinkSegment, Directories

\* Only NameSegment adds a segment, the transaction's own.
LEMMA SegmentsStep ==
  ASSUME IInv, NEW w \in Writers, Open(w) \/ Work(w) \/ Kill(w)
  PROVE  /\ SegmentsOf(dir') \subseteq SegmentsOf(dir) \cup {txn[w].id}
         /\ ~ NameSegment(w) => SegmentsOf(dir') \subseteq SegmentsOf(dir)
  <1>0. dir \in Directories
    BY DEF IInv, TypeInv, TypeOK
  <1>1. ASSUME NEW i \in Ids, dir' = UnlinkSegment(dir, i)
        PROVE  SegmentsOf(dir') \subseteq SegmentsOf(dir)
    <2>1. \A j \in Ids : dir'.seg[j] = IF j = i THEN Absent ELSE dir.seg[j]
      BY <1>0, <1>1, LinkKeeps DEF UnlinkSegment, Contents
    <2>. QED
      BY <2>1 DEF SegmentsOf
  <1>2. CASE RemoveStale(w)
    <2>1. \/ \E i \in Ids : dir' = UnlinkSegment(dir, i)
          \/ \E t \in dir.tmp : dir' = DropTemporaries(dir, {t})
      BY <1>2 DEF RemoveStale, ChangeDirectory, StaleSegments, SegmentsOf
    <2>2. CASE \E t \in dir.tmp : dir' = DropTemporaries(dir, {t})
      BY <1>0, <2>2, TemporaryKeeps DEF SegmentsOf
    <2>. QED
      BY <1>1, <2>1, <2>2
  <1>3. CASE NameSegment(w)
    <2>1. txn[w].id \in Ids /\ txn[w].session \in Contents
      BY <1>3, BoundAssumption
      DEF NameSegment, IInv, TypeInv, InBounds, Ids, Contents
    <2>2. LinkSegment(dir, txn[w].id, txn[w].session) \in Directories
      BY <1>0, <2>1, LinkType
    <2>3. dir' = DropTemporaries(LinkSegment(dir, txn[w].id, txn[w].session),
                                 {"segment"})
      BY <1>3 DEF NameSegment, ChangeDirectory
    <2>4. \A j \in Ids : j # txn[w].id => dir'.seg[j] = dir.seg[j]
      BY <1>0, <2>1, <2>2, <2>3, LinkKeeps, TemporaryKeeps
    <2>. QED
      BY <1>3, <2>4 DEF SegmentsOf
  <1>4. CASE RollbackSegment(w)
    <2>1. txn[w].id \in Ids
      BY <1>4, BoundAssumption DEF RollbackSegment, IInv, TypeInv, InBounds, Ids
    <2>2. dir' = dir \/ dir' = UnlinkSegment(dir, txn[w].id)
      BY <1>4 DEF RollbackSegment, ChangeDirectory
    <2>. QED
      BY <1>1, <2>1, <2>2
  <1>5. CASE Retire(w)
    <2>1. PICK i \in txn[w].retire : dir' = UnlinkSegment(dir, i)
      BY <1>5 DEF Retire, ChangeDirectory
    <2>2. i \in Ids
      BY DEF IInv, TypeInv, TypeOK, Txns
    <2>. QED
      BY <1>1, <2>1, <2>2
  <1>6. CASE Commit(w)
    <2>1. NewManifest(txn[w]) \in Manifests
      BY <1>6, NewManifestType DEF Commit, IInv
    <2>2. dir' = DropTemporaries([dir EXCEPT !.man = NewManifest(txn[w])],
                                 {"manifest"})
      BY <1>6 DEF Commit, ChangeDirectory
    <2>3. dir'.seg = dir.seg
      BY <1>0, <2>1, <2>2, CommitKeeps
    <2>. QED
      BY <2>3 DEF SegmentsOf
  <1>7. CASE \/ Prepare(w) \/ Stage(w) \/ CreateManifest(w)
             \/ RollbackTemporaries(w) \/ Finish(w)
    <2>1. \/ dir' = dir
          \/ \E t : dir' = AddTemporary(dir, t)
          \/ \E T : dir' = DropTemporaries(dir, T)
      BY <1>7 DEF Prepare, Stage, CreateManifest, RollbackTemporaries, Finish,
                  ChangeDirectory
    <2>2. dir'.seg = dir.seg
      BY <1>0, <2>1, TemporaryKeeps
    <2>. QED
      BY <2>2 DEF SegmentsOf
  <1>8. CASE \/ Open(w) \/ SyncRecovered(w) \/ RecoverFails(w) \/ Abandon(w)
             \/ SyncCandidate(w) \/ SyncName(w) \/ SyncManifest(w)
             \/ PublishFails(w) \/ SyncCommit(w) \/ SyncCommitFails(w)
             \/ RetireFails(w) \/ SyncRetired(w) \/ RollbackSync(w) \/ Kill(w)
    BY <1>8 DEF Open, SyncRecovered, RecoverFails, Abandon, SyncCandidate, SyncName,
                SyncManifest, PublishFails, SyncCommit, SyncCommitFails, RetireFails,
                SyncRetired, RollbackSync, Kill
  <1>. QED
    BY <1>2, <1>3, <1>4, <1>5, <1>6, <1>7, <1>8 DEF Work

\* The commit point finds the segments the transaction protects and its own.
LEMMA CommitClean ==
  ASSUME IInv, NEW w \in Writers, Clean(w), Commit(w)
  PROVE  /\ dir'.man = NewManifest(txn[w])
         /\ SegmentsOf(dir') \subseteq txn[w].protected \cup {txn[w].id}
         /\ SegmentsOf(dir') \subseteq Accounted(dir.man, dir'.man)
         /\ dir'.tmp \subseteq {"build"}
  <1> DEFINE t == txn[w]
             m == NewManifest(t)
  <1>0. /\ pc[w] = "manifestSynced" /\ dir \in Directories /\ m \in Manifests
        /\ dir' = DropTemporaries([dir EXCEPT !.man = m], {"manifest"})
    BY NewManifestType DEF Commit, ChangeDirectory, IInv, TypeInv, TypeOK
  <1>1. dir'.man = m /\ dir'.seg = dir.seg
    BY <1>0, CommitKeeps
  <1>2. /\ SegmentsOf(dir) \subseteq t.protected \cup {t.id}
        /\ dir.tmp \subseteq {"build", "manifest"}
        /\ t.base.generation = 0 => t.protected \subseteq {1}
    BY <1>0 DEF Clean, Recovered, Uncommitted, OwnSegments, OwnTemporaries
  <1>3. /\ dir.man = t.base
        /\ t.base.generation # 0 => t.protected = t.base.active
    BY <1>0 DEF IInv, LockInv, Current, Uncommitted
  <1>4. t.id \in t.target
    BY <1>0 DEF IInv, SoundInv, Progress, Planned
  <1>5. SegmentsOf(dir') \subseteq t.protected \cup {t.id}
    BY <1>1, <1>2 DEF SegmentsOf
  <1>6. dir'.tmp \subseteq {"build"}
    <2> DEFINE e == [dir EXCEPT !.man = m]
    <2>1. e \in Directories /\ e.tmp = dir.tmp
      BY <1>0, ManifestType DEF Directories
    <2>2. dir' = DropTemporaries(e, {"manifest"})
      BY <1>0
    <2> HIDE DEF e
    <2>3. dir'.tmp = e.tmp \ {"manifest"}
      BY <2>1, <2>2, TemporaryOf
    <2>. QED
      BY <1>2, <2>1, <2>3
  <1>7. SegmentsOf(dir') \subseteq Accounted(dir.man, dir'.man)
    BY <1>1, <1>2, <1>3, <1>4, <1>5 DEF Accounted, NewManifest
  <1>. QED
    BY <1>1, <1>5, <1>6, <1>7

\* The directory after a writer's step has at most one orphan.
LEMMA OrphanStep ==
  ASSUME Ordered, IInv, IInv', CleanInv,
         NEW w \in Writers, Open(w) \/ Work(w) \/ Kill(w)
  PROVE  OneOrphan(dir')
  <1> DEFINE t == txn[w]
  <1>0. /\ dir \in Directories /\ dir.man.generation \in Nat
        /\ dir' \in Directories /\ dir'.man.generation \in Nat /\ OneOrphan(dir)
        /\ Clean(w)
    <2>1. dir \in images /\ dir' \in images'
      BY DEF IInv, SoundInv
    <2>2. dir' \in Directories /\ dir'.man.generation \in Nat
      <3>1. dir' \in Directories /\ Sound(dir)'
        BY <2>1 DEF IInv, SoundInv, TypeInv, TypeOK
      <3>. QED
        BY <3>1, BoundAssumption DEF Sound, ValidManifest
    <2>. QED
      BY <2>1, <2>2, GenerationIsNat DEF CleanInv
  <1>1. CASE Commit(w)
    <2>1. dir'.man = NewManifest(t) /\ SegmentsOf(dir') \subseteq t.protected \cup {t.id}
      BY <1>0, <1>1, CommitClean
    <2>2. /\ \A i \in t.protected : i < t.id
          /\ t.id \in Nat /\ t.protected \subseteq Nat /\ t.base.generation \in Nat
      <3>1. \A i \in t.protected : i < t.id
        BY <1>1 DEF Commit, IInv, LockInv, Current, Uncommitted
      <3>2. t.id \in Nat /\ t.protected \subseteq Nat /\ t.base.generation \in Nat
        BY <1>1, BoundAssumption
        DEF Commit, IInv, TypeInv, TypeOK, InBounds, Txns, Ids
      <3>. QED
        BY <3>1, <3>2
    <2>3. dir'.man.generation # 0 /\ dir'.man.next = t.id + 1
      BY <2>1, <2>2 DEF NewManifest
    <2>4. \A i \in SegmentsOf(dir') : ~ (i >= t.id + 1)
      BY <2>1, <2>2
    <2>5. Orphans(dir') = {}
      BY <1>0, <2>3, <2>4, OrphansOf
    <2>. QED
      BY <2>5 DEF OneOrphan
  <1>2. CASE NameSegment(w)
    <2>1. dir'.man = dir.man
      BY <1>2, ManifestKept DEF IInv, NameSegment, Commit
    <2>2. /\ SegmentsOf(dir) \subseteq t.protected
          /\ dir.man.generation = 0 => t.protected \subseteq {1}
          /\ dir.man.generation # 0 => t.protected = dir.man.active
      BY <1>0, <1>2
      DEF NameSegment, Clean, Recovered, Uncommitted, OwnSegments, IInv, LockInv,
          Current
    <2>3. dir.man.generation # 0 => \A i \in dir.man.active : i < dir.man.next
      BY DEF IInv, SoundInv, Sound, ValidManifest
    <2>4. \A i \in SegmentsOf(dir') : i \in t.protected \/ i = t.id
      BY <2>2, SegmentsStep
    <2>5. \A i \in Orphans(dir') : i = t.id
      <3>1. CASE dir.man.generation = 0
        BY <1>0, <2>1, <2>2, <2>4, <3>1, OrphansOf
      <3>2. CASE dir.man.generation # 0
        <4>1. ASSUME NEW i \in Orphans(dir'), i # t.id PROVE FALSE
          <5>1. i \in SegmentsOf(dir') /\ i >= dir.man.next
            BY <1>0, <2>1, <3>2, <4>1, OrphansOf
          <5>2. i < dir.man.next
            BY <2>2, <2>3, <2>4, <3>2, <4>1, <5>1
          <5>3. i \in Nat /\ dir.man.next \in Nat
            BY <1>0, <5>1, BoundAssumption DEF SegmentsOf, Ids, Directories, Manifests
          <5>. QED
            BY <5>1, <5>2, <5>3
        <4>. QED
          BY <4>1
      <3>. QED
        BY <3>1, <3>2
    <2>. QED
      BY <2>5 DEF OneOrphan
  <1>3. CASE ~ Commit(w) /\ ~ NameSegment(w)
    <2>1. dir'.man = dir.man
      BY <1>3, ManifestKept DEF IInv
    <2>2. SegmentsOf(dir') \subseteq SegmentsOf(dir)
      BY <1>3, SegmentsStep
    <2>. QED
      BY <1>0, <2>1, <2>2, OrphansShrink
  <1>. QED
    BY <1>1, <1>2, <1>3

\* What the phases of a transaction say of the directory.
LEMMA CleanStep ==
  ASSUME IInv, NEW w \in Writers, Clean(w), Open(w) \/ Work(w) \/ Kill(w)
  PROVE  Clean(w)'
  <1> DEFINE t == txn[w]
             Own == {"opened", "built", "staged", "synced", "named", "nameSynced",
                     "manifest", "manifestSynced"}
  <1>0. /\ dir \in Directories /\ pc \in [Writers -> Phases]
        /\ txn \in [Writers -> Txns]
    BY DEF IInv, TypeInv, TypeOK
  <1> USE DEF Goto, Fail
  <1>1. CASE Open(w)
    <2>1. /\ dir' = dir /\ txn'[w].protected = Protected(dir)
          /\ txn'[w].base = dir.man
      BY <1>0, <1>1 DEF Open, Opened
    <2>2. dir.man.generation = 0 => Protected(dir) \subseteq {1}
      BY DEF Protected
    <2>3. \/ pc'[w] = "recover"
          \/ /\ pc'[w] = "opened" /\ dir.tmp = {}
             /\ SegmentsOf(dir) \subseteq Protected(dir)
      BY <1>0, <1>1 DEF Open, StaleSegments
    <2>4. pc'[w] = "recover" => Clean(w)'
      BY <2>1, <2>2 DEF Clean, Recovered, Uncommitted
    <2>5. pc'[w] = "opened" => OwnSegments(w)' = txn'[w].protected
      BY DEF OwnSegments
    <2>. QED
      BY <2>1, <2>2, <2>3, <2>4, <2>5 DEF Clean, SegmentsOf
  <1>2. CASE pc'[w] \notin Uncommitted
    BY <1>2 DEF Clean, Recovered, Uncommitted
  <1>3. CASE Work(w) /\ pc'[w] \in Uncommitted
    <2>1. /\ pc[w] \in Uncommitted /\ txn'[w].base = t.base /\ txn'[w].id = t.id
          /\ txn'[w].protected = t.protected
      BY <1>3, UncommittedStep DEF IInv
    <2>2. t.base.generation = 0 => t.protected \subseteq {1}
      BY <2>1 DEF Clean
    <2>3. pc'[w] \in Recovered => SegmentsOf(dir') \subseteq OwnSegments(w)'
      <3>1. CASE SyncRecovered(w)
        <4>1. SegmentsOf(dir') \subseteq t.protected
          BY <3>1 DEF SyncRecovered, StaleSegments
        <4>. QED
          BY <2>1, <4>1 DEF OwnSegments
      <3>2. CASE NameSegment(w)
        <4>1. pc[w] = "synced" /\ pc'[w] = "named"
          BY <1>0, <3>2 DEF NameSegment, ChangeDirectory
        <4>2. SegmentsOf(dir) \subseteq t.protected
          BY <4>1 DEF Clean, Recovered, Uncommitted, OwnSegments
        <4>3. OwnSegments(w)' = t.protected \cup {t.id}
          BY <2>1, <4>1 DEF OwnSegments
        <4>. QED
          BY <4>2, <4>3, SegmentsStep
      <3>3. CASE ~ SyncRecovered(w) /\ ~ NameSegment(w) /\ pc'[w] \in Recovered
        <4>1. /\ pc[w] # "recover"
              /\ pc'[w] \in {"opened", "built", "staged", "synced"} =>
                   pc[w] \in {"opened", "built", "staged", "synced"}
          BY <1>0, <1>3, <2>1, <3>3
          DEF Work, RemoveStale, RecoverFails, Prepare, Abandon, Stage,
              SyncCandidate, ReadyToPublish, SyncName, CreateManifest, SyncManifest,
              Commit, PublishFails, SyncCommit, SyncCommitFails, Retire,
              RetireFails, SyncRetired, RollbackTemporaries, RollbackSegment,
              RollbackSync, Finish, Release, ChangeDirectory, Recovered, Uncommitted
        <4>2. SegmentsOf(dir) \subseteq OwnSegments(w)
          BY <2>1, <4>1 DEF Clean, Recovered
        <4>3. OwnSegments(w) \subseteq OwnSegments(w)'
          BY <2>1, <4>1 DEF OwnSegments
        <4>. QED
          BY <3>3, <4>2, <4>3, SegmentsStep
      <3>. QED
        BY <3>1, <3>2, <3>3
    <2>4. ASSUME pc'[w] \in Own PROVE dir'.tmp \subseteq OwnTemporaries(pc'[w])
      <3>1. CASE SyncRecovered(w)
        BY <1>0, <3>1 DEF SyncRecovered, OwnTemporaries
      <3>2. CASE Prepare(w)
        <4>1. pc[w] = "opened" /\ pc'[w] = "built"
          BY <1>0, <3>2 DEF Prepare
        <4>2. dir.tmp = {}
          BY <4>1 DEF Clean, OwnTemporaries
        <4>3. dir'.tmp \subseteq dir.tmp \cup {"build"}
          BY <1>0, <3>2, TemporaryOf DEF Prepare, ChangeDirectory
        <4>. QED
          BY <4>1, <4>2, <4>3 DEF OwnTemporaries
      <3>3. CASE Stage(w)
        <4>1. pc[w] = "built" /\ pc'[w] = "staged"
          BY <1>0, <3>3 DEF Stage, ChangeDirectory
        <4>2. dir.tmp \subseteq {"build"}
          BY <4>1 DEF Clean, OwnTemporaries
        <4>3. dir'.tmp = dir.tmp \cup {"segment"}
          BY <1>0, <3>3, TemporaryOf DEF Stage, ChangeDirectory
        <4>. QED
          BY <4>1, <4>2, <4>3 DEF OwnTemporaries
      <3>4. CASE SyncCandidate(w)
        <4>1. pc[w] \in {"built", "staged"} /\ pc'[w] = "synced" /\ dir' = dir
          BY <1>0, <3>4 DEF SyncCandidate, ReadyToPublish
        <4>2. dir.tmp \subseteq {"build", "segment"}
          BY <4>1 DEF Clean, OwnTemporaries
        <4>. QED
          BY <4>1, <4>2 DEF OwnTemporaries
      <3>5. CASE NameSegment(w)
        <4>1. pc[w] = "synced" /\ pc'[w] = "named"
          BY <1>0, <3>5 DEF NameSegment, ChangeDirectory
        <4>2. dir.tmp \subseteq {"build", "segment"}
          BY <4>1 DEF Clean, OwnTemporaries
        <4>3. t.id \in Ids /\ t.session \in Contents
          BY <4>1, BoundAssumption DEF IInv, TypeInv, InBounds, Ids, Contents
        <4>4. /\ LinkSegment(dir, t.id, t.session) \in Directories
              /\ LinkSegment(dir, t.id, t.session).tmp = dir.tmp
          BY <1>0, <4>3, LinkType, TemporaryOf
        <4>5. dir'.tmp = dir.tmp \ {"segment"}
          BY <3>5, <4>4, TemporaryOf DEF NameSegment, ChangeDirectory
        <4>. QED
          BY <4>1, <4>2, <4>5 DEF OwnTemporaries
      <3>6. CASE SyncName(w)
        <4>1. pc[w] = "named" /\ pc'[w] = "nameSynced" /\ dir' = dir
          BY <1>0, <3>6 DEF SyncName
        <4>. QED
          BY <4>1 DEF Clean, OwnTemporaries
      <3>7. CASE CreateManifest(w)
        <4>1. pc[w] = "nameSynced" /\ pc'[w] = "manifest"
          BY <1>0, <3>7 DEF CreateManifest, ChangeDirectory
        <4>2. dir.tmp \subseteq {"build"}
          BY <4>1 DEF Clean, OwnTemporaries
        <4>3. dir'.tmp = dir.tmp \cup {"manifest"}
          BY <1>0, <3>7, TemporaryOf DEF CreateManifest, ChangeDirectory
        <4>. QED
          BY <4>1, <4>2, <4>3 DEF OwnTemporaries
      <3>8. CASE SyncManifest(w)
        <4>1. pc[w] = "manifest" /\ pc'[w] = "manifestSynced" /\ dir' = dir
          BY <1>0, <3>8 DEF SyncManifest
        <4>. QED
          BY <4>1 DEF Clean, OwnTemporaries
      <3>9. CASE \/ RemoveStale(w) \/ RecoverFails(w) \/ Abandon(w) \/ Commit(w)
                 \/ PublishFails(w) \/ SyncCommit(w) \/ SyncCommitFails(w)
                 \/ Retire(w) \/ RetireFails(w) \/ SyncRetired(w)
                 \/ RollbackTemporaries(w) \/ RollbackSegment(w)
                 \/ RollbackSync(w) \/ Finish(w)
        BY <1>0, <2>4, <3>9
        DEF RemoveStale, RecoverFails, Abandon, Commit, PublishFails, SyncCommit,
            SyncCommitFails, Retire, RetireFails, SyncRetired, RollbackTemporaries,
            RollbackSegment, RollbackSync, Finish, Release, ChangeDirectory
      <3>. QED
        BY <1>3, <3>1, <3>2, <3>3, <3>4, <3>5, <3>6, <3>7, <3>8, <3>9 DEF Work
    <2>. QED
      BY <2>1, <2>2, <2>3, <2>4 DEF Clean, SegmentsOf
  <1>4. CASE Kill(w)
    BY <1>0, <1>2, <1>4 DEF Kill, Release, Uncommitted
  <1>. QED
    BY <1>1, <1>2, <1>3, <1>4

LEMMA InitClean == Init => CleanInv
  <1> SUFFICES ASSUME Init PROVE CleanInv
    OBVIOUS
  <1>1. \A w \in Writers : Clean(w)
    BY DEF Init, Clean, Recovered, Uncommitted
  <1>2. SegmentsOf(dir) \subseteq {1} /\ dir.man.generation = 0 /\ images = {dir}
    BY BoundAssumption DEF Init, SegmentsOf, Absent, NoManifest
  <1>3. dir \in Directories
    BY InitType DEF TypeInv, TypeOK
  <1>4. Orphans(dir) = {}
    BY <1>2, <1>3, OrphansOf
  <1>. QED
    BY <1>1, <1>2, <1>4 DEF CleanInv, OneOrphan

LEMMA StepClean ==
  ASSUME Ordered
  PROVE  IInv /\ IInv' /\ CleanInv /\ [Next]_vars => CleanInv'
  <1> SUFFICES ASSUME IInv, IInv', CleanInv, [Next]_vars PROVE CleanInv'
    OBVIOUS
  <1>1. ASSUME NEW w \in Writers, Open(w) \/ Work(w) \/ Kill(w) PROVE CleanInv'
    <2>1. images' \subseteq images \cup {dir'}
      <3>1. dir' \in images'
        BY DEF IInv, SoundInv
      <3>. QED
        BY <1>1, <3>1, ImagesStep
    <2>2. \A d \in images' : OneOrphan(d)
      BY <1>1, <2>1, OrphanStep DEF CleanInv
    <2>3. ASSUME NEW v \in Writers PROVE Clean(v)'
      <3>1. CASE v = w
        BY <1>1, <3>1, CleanStep DEF CleanInv
      <3>2. CASE v # w
        <4>1. pc'[v] = "idle"
          BY <1>1, <3>2, OthersIdle DEF IInv
        <4>. QED
          BY <4>1 DEF Clean, Recovered, Uncommitted
      <3>. QED
        BY <3>1, <3>2
    <2>. QED
      BY <2>2, <2>3 DEF CleanInv, OneOrphan
  <1>2. ASSUME PowerLoss PROVE CleanInv'
    <2>1. PICK d \in images : dir' = Settle(d) /\ images' = {Settle(d)}
      BY <1>2 DEF PowerLoss
    <2>2. d \in Directories /\ d.man.generation \in Nat /\ Settle(d).man = d.man
          /\ Settle(d) \in Directories
      BY GenerationIsNat, SettleSound, SettleType DEF IInv, SoundInv
    <2>3. SegmentsOf(Settle(d)) = SegmentsOf(d)
      <3>1. \A i \in Ids : Settle(d).seg[i] = Absent <=> d.seg[i] = Absent
        BY DEF Settle, Torn, Absent, Sessions
      <3>. QED
        BY <3>1 DEF SegmentsOf
    <2>4. OneOrphan(Settle(d))
      BY <2>2, <2>3, OrphansShrink DEF CleanInv
    <2>5. \A v \in Writers : pc'[v] = "idle"
      BY <1>2 DEF PowerLoss
    <2>6. \A v \in Writers : Clean(v)'
      BY <2>5 DEF Clean, Recovered, Uncommitted
    <2>. QED
      BY <2>1, <2>4, <2>6 DEF CleanInv, OneOrphan
  <1>3. CASE UNCHANGED vars
    BY <1>3 DEF vars, CleanInv, OneOrphan, Orphans, SegmentsOf, Clean, OwnSegments
  <1>. QED
    BY <1>1, <1>2, <1>3 DEF Next

\* Leftovers do not accumulate: whatever number of writers is killed or fails,
\* in whatever rollbacks and cleanups, the directory and everything a power
\* loss may bring back hold one orphaned segment at most, and a new generation
\* starts with nothing but the segments it selects or replaces.
THEOREM LeftoversStayBounded ==
  ASSUME Ordered
  PROVE  Spec => LeftoversBounded
  <1> DEFINE B == \A d \in images : \A i, j \in Orphans(d) : i = j
             A == spent'.losses = spent.losses /\ dir'.man # dir.man =>
                    /\ SegmentsOf(dir') \subseteq Accounted(dir.man, dir'.man)
                    /\ dir'.tmp \subseteq {"build"}
  <1>1. CleanInv => B
    BY DEF CleanInv, OneOrphan
  <1>2. ASSUME IInv, CleanInv, [Next]_vars PROVE [A]_vars
    <2>1. ASSUME NEW w \in Writers, Commit(w) PROVE A
      BY <1>2, <2>1, CommitClean DEF CleanInv
    <2>2. ASSUME NEW w \in Writers, Open(w) \/ Work(w) \/ Kill(w), ~ Commit(w)
          PROVE  A
      BY <1>2, <2>2, ManifestKept DEF IInv
    <2>3. ASSUME PowerLoss PROVE A
      BY <1>2, <2>3 DEF PowerLoss, IInv, TypeInv, TypeOK
    <2>4. CASE UNCHANGED vars
      BY <2>4
    <2>. QED
      BY <1>2, <2>1, <2>2, <2>3, <2>4 DEF Next
  <1>3. Init => CleanInv
    BY InitClean
  <1>4. IInv /\ IInv' /\ CleanInv /\ [Next]_vars => CleanInv'
    BY StepClean
  <1>5. Spec => []CleanInv
    BY <1>3, <1>4, SoundInvariant, PTL DEF Spec
  <1>. QED
    BY <1>1, <1>2, <1>5, SoundInvariant, PTL DEF Spec, LeftoversBounded

-----------------------------------------------------------------------------
(* The atomic index.                                                        *)

Views == {View(d) : d \in images}

\* A power loss changes nothing of what a sound directory shows.
LEMMA ViewSettled ==
  ASSUME NEW d \in Directories, Sound(d)
  PROVE  View(Settle(d)) = View(d)
  <1>1. Settle(d).man = d.man
    BY SettleSound
  <1>2. ASSUME NEW i \in d.man.active PROVE Settle(d).seg[i] = d.seg[i]
    <2>1. i \in Ids /\ d.seg[i] \in Sessions /\ SegmentFile(d.seg[i]) \in durable
      BY <1>2 DEF Sound, Directories, Manifests
    <2>. QED
      BY <2>1 DEF Settle
  <1>. QED
    BY <1>1, <1>2 DEF View

\* So what a power loss may bring back is what the possible images show now.
LEMMA SurvivorsAreViews ==
  IInv => {View(Settle(d)) : d \in images} = Views
  <1> SUFFICES ASSUME IInv PROVE {View(Settle(d)) : d \in images} = Views
    OBVIOUS
  <1>1. \A d \in images : View(Settle(d)) = View(d)
    BY ViewSettled DEF IInv, TypeInv, TypeOK, SoundInv
  <1>. QED
    BY <1>1 DEF Views

\* A writer's step short of the commit point shows readers nothing new, and at
\* most narrows what a power loss brings back to what is visible.
LEMMA HiddenStep ==
  ASSUME Ordered, IInv, NEW w \in Writers, Open(w) \/ Work(w) \/ Kill(w),
         ~ Commit(w)
  PROVE  View(dir') = View(dir) /\ (Views' = Views \/ Views' = {View(dir)})
  <1>1. View(dir') = View(dir)
    <2>1. dir'.man = dir.man
      BY ManifestKept DEF IInv
    <2>. QED
      BY <2>1, SelectedKept DEF View
  <1>2. images' = images \cup {dir'} \/ images' = {dir'}
    BY ImagesStep
  <1>3. View(dir) \in Views
    BY DEF IInv, SoundInv, Views
  <1>. QED
    BY <1>1, <1>2, <1>3 DEF Views

\* Renaming MANIFEST publishes the successor of what was visible.
LEMMA CommitPublishes ==
  ASSUME Ordered, IInv, NEW w \in Writers, Commit(w)
  PROVE  \E keep \in SUBSET dir.man.active, id \in Ids, c \in Sessions :
           /\ \A i \in dir.man.active : i < id
           /\ View(dir') = Atomic!Successor(View(dir), keep, id, c)
           /\ Views' = Views \cup {View(dir')}
  <1> DEFINE t == txn[w]
  <1>0. dir \in Directories /\ pc[w] = "manifestSynced"
    BY DEF Commit, IInv, TypeInv, TypeOK
  <1>1. dir'.man = NewManifest(t) /\ dir'.seg = dir.seg
    <2>1. NewManifest(t) \in Manifests
      BY <1>0, NewManifestType DEF IInv
    <2>2. dir' = DropTemporaries([dir EXCEPT !.man = NewManifest(t)], {"manifest"})
      BY DEF Commit, ChangeDirectory
    <2>. QED
      BY <1>0, <2>1, <2>2, CommitKeeps
  <1>2. /\ dir.man = t.base
        /\ t.base.generation # 0 => t.protected = t.base.active
        /\ \A i \in t.protected : i < t.id
    BY <1>0 DEF IInv, LockInv, Current, Uncommitted
  <1>3. dir.man.active \subseteq t.protected /\ t.id \notin dir.man.active
    BY <1>0, ActiveProtected DEF Uncommitted
  <1>4. /\ t.target = {t.id} \/ (t.base.generation # 0
                                 /\ t.target = t.protected \cup {t.id})
        /\ dir.seg[t.id] = t.session
    BY <1>0 DEF IInv, SoundInv, Progress, Planned
  <1>5. t.id \in Ids /\ t.session \in Sessions
    BY <1>0, BoundAssumption DEF IInv, TypeInv, InBounds, Ids
  <1> DEFINE keep == t.target \ {t.id}
  <1>6. keep \subseteq dir.man.active /\ t.target = keep \cup {t.id}
    BY <1>2, <1>4
  <1>7. View(dir') = Atomic!Successor(View(dir), keep, t.id, t.session)
    <2>1. \A i \in keep \cup {t.id} :
            dir'.seg[i] = IF i = t.id THEN t.session ELSE View(dir).segments[i]
      BY <1>1, <1>4, <1>6 DEF View
    <2>2. /\ dir'.man.generation = View(dir).generation + 1
          /\ dir'.man.active = keep \cup {t.id}
      BY <1>1, <1>2, <1>6 DEF View, NewManifest
    <2>. QED
      BY <2>1, <2>2 DEF View, Atomic!Successor
  <1>8. Views' = Views \cup {View(dir')}
    BY ImagesStep DEF Views, Work
  <1>. QED
    BY <1>2, <1>3, <1>5, <1>6, <1>7, <1>8

LEMMA InitAtomic == Init => Atomic!Init
  <1> SUFFICES ASSUME Init PROVE Atomic!Init
    OBVIOUS
  <1>1. dir.man = NoManifest /\ images = {dir}
    BY DEF Init
  <1>2. Settle(dir).man = NoManifest
    BY <1>1 DEF Settle, NoManifest
  <1>3. \A d : d.man = NoManifest => View(d) = Atomic!Empty
    <2>1. \A f : [i \in {} |-> f[i]] = <<>>
      OBVIOUS
    <2>. QED
      BY <2>1 DEF View, NoManifest, Atomic!Empty
  <1>. QED
    BY <1>1, <1>2, <1>3 DEF Atomic!Init

\* Each step of the directory is a step of the atomic index, or hidden.
LEMMA StepAtomic ==
  ASSUME Ordered
  PROVE  IInv /\ IInv' /\ [Next]_vars => [Atomic!Next]_(Atomic!avars)
  <1> SUFFICES ASSUME IInv, IInv', [Next]_vars PROVE [Atomic!Next]_(Atomic!avars)
    OBVIOUS
  <1>1. {View(Settle(d)) : d \in images} = Views
    BY SurvivorsAreViews
  <1>2. {View(Settle(d)) : d \in images}' = Views'
    <2>1. (IInv => {View(Settle(d)) : d \in images} = Views)'
      BY SurvivorsAreViews, PTL
    <2>. QED
      BY <2>1
  <1>3. DOMAIN View(dir).segments = dir.man.active
    BY DEF View
  <1>4. ASSUME NEW w \in Writers, Commit(w) PROVE Atomic!Publish
    BY <1>1, <1>2, <1>3, <1>4, CommitPublishes DEF Atomic!Publish
  <1>5. ASSUME NEW w \in Writers, Open(w) \/ Work(w) \/ Kill(w), ~ Commit(w)
        PROVE  Atomic!MakeDurable \/ UNCHANGED Atomic!avars
    BY <1>1, <1>2, <1>5, HiddenStep DEF Atomic!MakeDurable, Atomic!avars
  <1>6. ASSUME PowerLoss PROVE Atomic!PowerLoss
    <2>1. PICK d \in images : dir' = Settle(d) /\ images' = {Settle(d)}
      BY <1>6 DEF PowerLoss
    <2>2. Views' = {View(dir')}
      BY <2>1 DEF Views
    <2>. QED
      BY <1>2, <2>1, <2>2 DEF Atomic!PowerLoss
  <1>7. CASE UNCHANGED vars
    BY <1>1, <1>2, <1>7 DEF vars, Views, Atomic!avars
  <1>. QED
    BY <1>4, <1>5, <1>6, <1>7 DEF Next, Atomic!Next

\* The directory implements the atomic index: whatever writers do and however
\* they fail, what is visible and what a power loss brings back change only as
\* if generations were published in one step and lost in none.
THEOREM AtomicRefinement ==
  ASSUME Ordered
  PROVE  Spec => ImplementsAtomicIndex
  BY InitAtomic, StepAtomic, SoundInvariant, PTL
  DEF Spec, ImplementsAtomicIndex, Atomic!Spec

-----------------------------------------------------------------------------
(* Identifiers and readers.                                                 *)

\* A Manifest numbers its next identifier past those it selects.
Numbered(m) ==
  /\ m.generation = 0 => m.next = 0
  /\ m.generation \notin Nat => m.active = {}
  /\ \A i \in m.active : i < m.next

\* The identifiers selected up to the generation of m are below its next one.
Below(m) == \A c \in committed : c[1] <= m.generation => c[2] < m.next

\* No power loss brings back a generation newer than the visible one, and of
\* each that it may bring back every identifier that was selected so far is
\* below the next one; a transaction publishes no identifier but its own and
\* those it protects.
HistoryInv ==
  /\ committed \subseteq Nat \X Ids
  /\ Selections(dir.man) \subseteq committed
  /\ \A c \in committed : c[1] <= dir.man.generation
  /\ \A d \in images \cup {dir} :
       /\ Numbered(d.man) /\ Below(d.man)
       /\ d.man.generation <= dir.man.generation
  /\ \A w \in Writers : txn[w].target \subseteq txn[w].protected \cup {txn[w].id}

-----------------------------------------------------------------------------
(* What a reader holds. *)

Stations == {"idle", "look", "absent", "open", "size", "read", "reopen",
             "resize", "done"}

Outcomes == {"none", "index", "rebuild", "changing", "damaged", "inconsistent"}

PartialIndexes == UNION {[S -> Contents] : S \in SUBSET Ids}

ReaderRecords ==
  [at : Stations, attempt : 0 .. 3, man : Manifests, now : Manifests,
   pass : {1, 2}, todo : SUBSET Ids, got : [{1, 2} -> PartialIndexes],
   outcome : Outcomes]

AllViews == [generation : -1 .. MaxGeneration, segments : PartialIndexes]

ReadersTypeOK ==
  /\ rd \in [Readers -> ReaderRecords]
  /\ window \in [Readers -> SUBSET AllViews]
  /\ \A r \in Readers : IsFiniteSet(window[r])

\* The reader has a Manifest in hand.
Holding == {"size", "read", "reopen", "resize"}

\* View v is of the Manifest the reader x holds, and each segment it selects
\* is as v has it or gone.
ViewHeld(x, v) ==
  /\ v.generation = x.man.generation /\ DOMAIN v.segments = x.man.active
  /\ \A i \in x.man.active : dir.seg[i] = v.segments[i] \/ dir.seg[i] = Absent

\* Every segment read so far is as v has it.
ReadFrom(x, v) ==
  /\ x.todo \subseteq x.man.active
  /\ DOMAIN x.got[x.pass] = x.man.active \ x.todo
  /\ \A i \in x.man.active \ x.todo : x.got[x.pass][i] = v.segments[i]
  /\ IF x.pass = 2 THEN x.got[1] = v.segments ELSE DOMAIN x.got[2] = {}

\* The reader's Manifest is the visible one or an earlier one.
NotAhead(x) ==
  /\ x.man.generation <= dir.man.generation
  /\ x.man.generation = dir.man.generation => x.man = dir.man

Upto(win, g) == {v \in win : v.generation <= g}

\* Every attempt but the first was caused by a new generation.
Counted(x, win) ==
  /\ x.at \in {"look", "open"} => Cardinality(win) >= x.attempt
  /\ x.at = "absent" => Cardinality(Upto(win, 0)) >= x.attempt
  /\ x.at \in Holding => Cardinality(Upto(win, x.man.generation)) >= x.attempt

Justified(x, win) ==
  /\ x.outcome = "index" =>
       /\ x.got[1] = x.got[2]
       /\ [generation |-> x.man.generation, segments |-> x.got[1]] \in win
  /\ x.outcome = "rebuild" => \E v \in win : v.generation = 0
  /\ x.outcome = "changing" => Cardinality(win) > 3
  /\ x.outcome # "damaged"

\* Reader x began when the oldest view of win was visible.
Follows(x, win) ==
  /\ x.at \notin {"idle", "done"} =>
       /\ View(dir) \in win
       /\ \A v \in win : v.generation <= dir.man.generation
       /\ x.outcome = "none"
  /\ x.at \in Holding =>
       /\ x.man.active \subseteq Used
       /\ NotAhead(x)
       /\ \E v \in win : ViewHeld(x, v) /\ (x.at = "read" => ReadFrom(x, v))
  /\ x.at \in {"reopen", "resize"} => x.man.generation < dir.man.generation
  /\ x.at = "resize" => x.man.generation < x.now.generation
  /\ x.at = "idle" => x.outcome = "none"
  /\ Counted(x, win)
  /\ Justified(x, win)

ReadersInv ==
  /\ ReadersTypeOK
  /\ \A r \in Readers : Follows(rd[r], window[r])

RInv == IInv /\ HistoryInv /\ ReadersInv

-----------------------------------------------------------------------------
(* Identifiers. *)

\* Short of the commit point, no image gets a Manifest it did not have.
LEMMA ImageManifests ==
  ASSUME TypeInv, NEW w \in Writers, Open(w) \/ Work(w) \/ Kill(w), ~ Commit(w)
  PROVE  \A e \in images' : \E d \in images \cup {dir} : e.man = d.man
  <1> DEFINE From(e) == \E d \in images \cup {dir} : e.man = d.man
  <1>0. dir \in Directories /\ images \subseteq Directories
    BY DEF TypeInv, TypeOK
  <1>1. CASE RemoveStale(w)
    <2>1. \/ \E i \in Ids :
               images' \subseteq images \cup {UnlinkSegment(d, i) : d \in images \cup {dir}}
          \/ \E t \in dir.tmp :
               images' \subseteq images \cup {DropTemporaries(d, {t}) : d \in images \cup {dir}}
      BY <1>1 DEF RemoveStale, ChangeDirectory, StaleSegments, SegmentsOf
    <2>2. ASSUME NEW i \in Ids, NEW e \in {UnlinkSegment(d, i) : d \in images \cup {dir}}
          PROVE  From(e)
      BY <1>0, UnlinkKeeps
    <2>3. ASSUME NEW t, NEW e \in {DropTemporaries(d, {t}) : d \in images \cup {dir}}
          PROVE  From(e)
      BY <1>0, TemporaryKeeps
    <2>. QED
      BY <2>1, <2>2, <2>3
  <1>2. CASE Prepare(w)
    BY <1>0, <1>2, TemporaryKeeps DEF Prepare, ChangeDirectory
  <1>3. CASE Stage(w)
    BY <1>0, <1>3, TemporaryKeeps DEF Stage, ChangeDirectory
  <1>4. CASE CreateManifest(w)
    BY <1>0, <1>4, TemporaryKeeps DEF CreateManifest, ChangeDirectory
  <1>5. CASE NameSegment(w)
    <2>1. txn[w].id \in Ids /\ txn[w].session \in Contents
      BY <1>5, BoundAssumption DEF NameSegment, TypeInv, InBounds, Ids, Contents
    <2>2. \A d \in Directories :
            DropTemporaries(LinkSegment(d, txn[w].id, txn[w].session),
                            {"segment"}).man = d.man
      BY <2>1, LinkType, LinkKeeps, TemporaryKeeps
    <2>. QED
      BY <1>0, <1>5, <2>2 DEF NameSegment, ChangeDirectory
  <1>6. CASE Retire(w)
    <2>1. PICK i \in txn[w].retire : ChangeDirectory(LAMBDA d : UnlinkSegment(d, i))
      BY <1>6 DEF Retire
    <2>2. i \in Ids
      BY DEF TypeInv, TypeOK, Txns
    <2>. QED
      BY <1>0, <2>1, <2>2, UnlinkKeeps DEF ChangeDirectory
  <1>7. CASE RollbackTemporaries(w)
    BY <1>0, <1>7, TemporaryKeeps DEF RollbackTemporaries, ChangeDirectory
  <1>8. CASE RollbackSegment(w)
    <2>1. txn[w].id \in Ids
      BY <1>8, BoundAssumption DEF RollbackSegment, TypeInv, InBounds, Ids
    <2>. QED
      BY <1>0, <1>8, <2>1, UnlinkKeeps DEF RollbackSegment, ChangeDirectory
  <1>9. CASE Finish(w)
    BY <1>0, <1>9, TemporaryKeeps DEF Finish, ChangeDirectory
  <1>10. CASE \/ SyncRecovered(w) \/ SyncName(w) \/ SyncCommit(w) \/ SyncRetired(w)
              \/ RollbackSync(w)
    BY <1>10 DEF SyncRecovered, SyncName, SyncCommit, SyncRetired, RollbackSync,
                 SyncDirectory
  <1>11. CASE \/ Open(w) \/ RecoverFails(w) \/ Abandon(w) \/ SyncCandidate(w)
              \/ SyncManifest(w) \/ PublishFails(w) \/ SyncCommitFails(w)
              \/ RetireFails(w) \/ Kill(w)
    BY <1>11 DEF Open, RecoverFails, Abandon, SyncCandidate, SyncManifest,
                 PublishFails, SyncCommitFails, RetireFails, Kill
  <1>. QED
    BY <1>1, <1>2, <1>3, <1>4, <1>5, <1>6, <1>7, <1>8, <1>9, <1>10, <1>11 DEF Work

\* A transaction selects no identifier but its own and the protected ones.
LEMMA TargetsStep ==
  ASSUME TypeInv, HistoryInv, NEW w \in Writers, Open(w) \/ Work(w) \/ Kill(w)
  PROVE  txn'[w].target \subseteq txn'[w].protected \cup {txn'[w].id}
  <1>0. /\ txn \in [Writers -> Txns]
        /\ txn[w].target \subseteq txn[w].protected \cup {txn[w].id}
    BY DEF TypeInv, TypeOK, HistoryInv
  <1>1. CASE Open(w)
    BY <1>0, <1>1 DEF Open, Opened
  <1>2. CASE RecoverFails(w) \/ Finish(w) \/ Kill(w)
    BY <1>0, <1>2 DEF RecoverFails, Finish, Kill, Release, NoTxn, ChangeDirectory
  <1>3. CASE Prepare(w)
    <2>1. PICK target \in Targets(txn[w]), external \in BOOLEAN :
            txn' = [txn EXCEPT ![w].target = target, ![w].external = external]
      BY <1>3 DEF Prepare
    <2>2. /\ txn'[w].target = target /\ txn'[w].id = txn[w].id
          /\ txn'[w].protected = txn[w].protected
      BY <1>0, <2>1 DEF Txns
    <2>. QED
      BY <2>2 DEF Targets
  <1>4. CASE SyncCommit(w) \/ Retire(w) \/ RetireFails(w)
    <2>1. PICK R : txn' = [txn EXCEPT ![w].retire = R]
      BY <1>4 DEF SyncCommit, Retire, RetireFails
    <2>2. /\ txn'[w].target = txn[w].target /\ txn'[w].id = txn[w].id
          /\ txn'[w].protected = txn[w].protected
      BY <1>0, <2>1 DEF Txns
    <2>. QED
      BY <1>0, <2>2
  <1>5. CASE \/ RemoveStale(w) \/ SyncRecovered(w) \/ Abandon(w) \/ Stage(w)
             \/ SyncCandidate(w) \/ NameSegment(w) \/ SyncName(w)
             \/ CreateManifest(w) \/ SyncManifest(w) \/ Commit(w)
             \/ PublishFails(w) \/ SyncCommitFails(w) \/ SyncRetired(w)
             \/ RollbackTemporaries(w) \/ RollbackSegment(w) \/ RollbackSync(w)
    <2>1. txn' = txn
      BY <1>5 DEF RemoveStale, SyncRecovered, Abandon, Stage, SyncCandidate,
                  NameSegment, SyncName, CreateManifest, SyncManifest, Commit,
                  PublishFails, SyncCommitFails, SyncRetired, RollbackTemporaries,
                  RollbackSegment, RollbackSync, ChangeDirectory
    <2>. QED
      BY <1>0, <2>1
  <1>. QED
    BY <1>1, <1>2, <1>3, <1>4, <1>5 DEF Work

\* What has been used is below the visible next identifier.
LEMMA UsedIds ==
  ASSUME HistoryInv
  PROVE  Used \subseteq Ids /\ \A i \in Used : i < dir.man.next
  <1>1. \A c \in committed : c[2] \in Ids /\ c[2] < dir.man.next
    BY DEF HistoryInv, Below
  <1>. QED
    BY <1>1 DEF Used

LEMMA VisibleUsed == HistoryInv => dir.man.active \subseteq Used
  <1> SUFFICES ASSUME HistoryInv, NEW i \in dir.man.active PROVE i \in Used
    OBVIOUS
  <1>1. <<dir.man.generation, i>> \in committed
    BY DEF HistoryInv, Selections
  <1>. QED
    BY <1>1 DEF Used

\* While the generation does not go back, the history grows by what is visible.
LEMMA RememberGrows ==
  ASSUME HistoryInv, Remember, dir.man.generation \in Int,
         dir'.man.generation \in Int,
         dir.man.generation <= dir'.man.generation
  PROVE  /\ committed' = committed \cup Selections(dir'.man)
         /\ Used' = Used \cup dir'.man.active
  <1>1. \A c \in committed : c[1] <= dir'.man.generation
    BY DEF HistoryInv
  <1>2. committed' = committed \cup Selections(dir'.man)
    BY <1>1 DEF Remember
  <1>3. {c[2] : c \in Selections(dir'.man)} = dir'.man.active
    <2>1. \A c \in Selections(dir'.man) : c[2] \in dir'.man.active
      BY DEF Selections
    <2>2. ASSUME NEW i \in dir'.man.active
          PROVE  \E c \in Selections(dir'.man) : c[2] = i
      <3>1. <<dir'.man.generation, i>> \in Selections(dir'.man)
        BY DEF Selections
      <3>2. <<dir'.man.generation, i>>[2] = i
        OBVIOUS
      <3>. QED
        BY <3>1, <3>2
    <2>. QED
      BY <2>1, <2>2
  <1>4. {c[2] : c \in committed \cup Selections(dir'.man)}
          = {c[2] : c \in committed} \cup {c[2] : c \in Selections(dir'.man)}
    OBVIOUS
  <1>5. Used' = {c[2] : c \in committed'}
    BY DEF Used
  <1>. QED
    BY <1>2, <1>3, <1>4, <1>5 DEF Used

\* The commit point numbers the new Manifest past every identifier used.
LEMMA CommitNumbers ==
  ASSUME TypeInv, LockInv, HistoryInv, NEW w \in Writers, Commit(w)
  PROVE  /\ dir'.man = NewManifest(txn[w])
         /\ Numbered(NewManifest(txn[w]))
         /\ \A i \in Used \cup txn[w].target : i < txn[w].id + 1
         /\ \A e \in images' : e \in images \/ e.man = NewManifest(txn[w])
  <1> DEFINE t == txn[w]
             m == NewManifest(t)
  <1>0. /\ pc[w] = "manifestSynced" /\ dir \in Directories
        /\ images \subseteq Directories /\ m \in Manifests
    BY NewManifestType DEF Commit, TypeInv, TypeOK
  <1>1. /\ \A d \in Directories :
             DropTemporaries([d EXCEPT !.man = m], {"manifest"}).man = m
        /\ dir' = DropTemporaries([dir EXCEPT !.man = m], {"manifest"})
        /\ \A e \in images' : e \in images \/ \E d \in images \cup {dir} :
             e = DropTemporaries([d EXCEPT !.man = m], {"manifest"})
    <2>1. \A d \in Directories :
             DropTemporaries([d EXCEPT !.man = m], {"manifest"}).man = m
      BY <1>0, CommitKeeps
    <2>. QED
      BY <2>1 DEF Commit, ChangeDirectory
  <1>2. /\ dir.man = t.base
        /\ \A i \in t.protected : i < t.id
        /\ t.base.generation # 0 => t.base.next <= t.id
    BY <1>0 DEF LockInv, Current, Uncommitted
  <1>3. /\ t.base.generation \in Nat /\ t.id \in Nat /\ dir.man.next \in Nat
        /\ Used \subseteq Nat /\ t.target \subseteq Nat
    <2>1. t.base.generation \in Nat /\ t.id \in Nat
      BY <1>0, BoundAssumption DEF TypeInv, InBounds
    <2>2. dir.man.next \in Nat
      BY <1>0, BoundAssumption DEF Directories, Manifests
    <2>3. Used \subseteq Nat /\ t.target \subseteq Nat
      BY UsedIds, BoundAssumption DEF TypeInv, TypeOK, Ids, Txns
    <2>. QED
      BY <2>1, <2>2, <2>3
  <1>4. \A i \in t.target : i < t.id + 1
    BY <1>2, <1>3 DEF HistoryInv
  <1>5. \A i \in Used : i < t.id + 1
    <2>1. dir.man.generation = 0 => dir.man.next = 0
      BY DEF HistoryInv, Numbered
    <2>. QED
      BY <1>2, <1>3, <2>1, UsedIds
  <1>6. Numbered(m)
    BY <1>3, <1>4 DEF Numbered, NewManifest
  <1>. QED
    BY <1>0, <1>1, <1>4, <1>5, <1>6

\* MANIFEST stays, or its generation gives way to the next.
LEMMA ManifestStep ==
  ASSUME TypeInv, LockInv, HistoryInv, NEW w \in Writers, Open(w) \/ Work(w) \/ Kill(w)
  PROVE  \/ dir'.man = dir.man
         \/ dir'.man.generation = dir.man.generation + 1
  <1>1. CASE Commit(w)
    <2>1. dir.man = txn[w].base
      BY <1>1 DEF Commit, LockInv, Current, Uncommitted
    <2>2. dir'.man = NewManifest(txn[w])
      BY <1>1, CommitNumbers
    <2>. QED
      BY <2>1, <2>2 DEF NewManifest
  <1>2. CASE ~ Commit(w)
    BY <1>2, ManifestKept
  <1>. QED
    BY <1>1, <1>2

LEMMA InitHistory == HInit => HistoryInv
  <1> SUFFICES ASSUME HInit PROVE HistoryInv
    OBVIOUS
  <1>1. dir.man = NoManifest /\ images = {dir} /\ committed = {}
    BY DEF HInit, Init, NoManifest, Selections
  <1>2. \A w \in Writers : txn[w].target = {}
    BY DEF HInit, Init, NoTxn
  <1>. QED
    BY <1>1, <1>2 DEF HistoryInv, Numbered, Below, Selections, NoManifest

LEMMA StepHistory ==
  ASSUME TypeInv, LockInv, HistoryInv, [Next]_vars,
         Remember \/ UNCHANGED hvars
  PROVE  HistoryInv'
  <1>0. TypeInv'
    BY StepType
  <1>1. ASSUME NEW w \in Writers, Open(w) \/ Work(w) \/ Kill(w), Remember
        PROVE  HistoryInv'
    <2>0. /\ dir.man.generation \in Int /\ dir'.man.generation \in Int
          /\ dir.man.generation <= dir'.man.generation
      <3>1. dir.man.generation \in Int /\ dir'.man.generation \in Int
        BY <1>0, BoundAssumption DEF TypeInv, TypeOK, Directories, Manifests
      <3>2. dir'.man = dir.man \/ dir'.man.generation = dir.man.generation + 1
        BY <1>1, ManifestStep
      <3>. QED
        BY <3>1, <3>2
    <2>1. committed' = committed \cup Selections(dir'.man)
      BY <1>1, <2>0, RememberGrows
    <2>2. \A c \in Selections(dir'.man) :
            c \in Nat \X Ids /\ c[1] = dir'.man.generation /\ c[2] \in dir'.man.active
      <3>1. dir'.man.active \subseteq Ids
        BY <1>0 DEF TypeInv, TypeOK, Directories, Manifests
      <3>2. dir'.man.generation \notin Nat => dir'.man.active = {}
        <4>1. CASE Commit(w)
          BY <4>1, CommitNumbers DEF Numbered
        <4>2. CASE ~ Commit(w)
          BY <1>1, <4>2, ManifestKept DEF HistoryInv, Numbered
        <4>. QED
          BY <4>1, <4>2
      <3>. QED
        BY <3>1, <3>2 DEF Selections
    <2>3. \A v \in Writers : txn'[v].target \subseteq txn'[v].protected
                                                   \cup {txn'[v].id}
      <3>1. ASSUME NEW v \in Writers, v # w PROVE txn'[v] = txn[v]
        BY <1>1, <3>1, OthersKept
      <3>. QED
        BY <1>1, <3>1, TargetsStep DEF HistoryInv
    <2>4. /\ committed' \subseteq Nat \X Ids
          /\ Selections(dir'.man) \subseteq committed'
          /\ \A c \in committed' : c[1] <= dir'.man.generation
      BY <2>0, <2>1, <2>2 DEF HistoryInv
    <2>5. ASSUME NEW e \in images' \cup {dir'}
          PROVE  /\ Numbered(e.man) /\ e.man.generation <= dir'.man.generation
                 /\ \A c \in committed' : c[1] <= e.man.generation
                                         => c[2] < e.man.next
      <3>0. e.man.generation \in Int
        BY <1>0, BoundAssumption DEF TypeInv, TypeOK, Directories, Manifests
      <3>1. ASSUME Commit(w), e \in images
            PROVE  /\ Numbered(e.man) /\ Below(e.man)
                   /\ e.man.generation < dir'.man.generation
        <4>1. dir'.man.generation = dir.man.generation + 1
          <5>1. dir.man = txn[w].base
            BY <3>1 DEF LockInv, Current, Uncommitted, Commit
          <5>2. dir'.man = NewManifest(txn[w])
            BY <3>1, CommitNumbers
          <5>. QED
            BY <5>1, <5>2 DEF NewManifest
        <4>. QED
          BY <2>0, <3>0, <3>1, <4>1 DEF HistoryInv
      <3>2. ASSUME Commit(w), e.man = NewManifest(txn[w])
            PROVE  /\ Numbered(e.man) /\ e.man = dir'.man
                   /\ \A c \in committed' : c[2] < e.man.next
        <4>1. /\ dir'.man = NewManifest(txn[w]) /\ Numbered(NewManifest(txn[w]))
              /\ \A i \in Used \cup txn[w].target : i < txn[w].id + 1
          BY <3>2, CommitNumbers
        <4>2. \A c \in committed' : c[2] \in Used \cup txn[w].target
          BY <2>1, <2>2, <4>1 DEF Used, NewManifest
        <4>. QED
          BY <3>2, <4>1, <4>2 DEF NewManifest
      <3>3. ASSUME ~ Commit(w)
            PROVE  /\ dir'.man = dir.man
                   /\ \E d \in images \cup {dir} : e.man = d.man
        BY <1>1, <3>3, ManifestKept, ImageManifests
      <3>4. CASE Commit(w) /\ e \in images
        BY <2>0, <2>1, <2>2, <3>0, <3>1, <3>4 DEF Below
      <3>5. CASE Commit(w) /\ e \notin images
        BY <2>0, <3>2, <3>5, CommitNumbers
      <3>6. CASE ~ Commit(w)
        <4>1. PICK d \in images \cup {dir} : e.man = d.man
          BY <3>3, <3>6
        <4>2. committed' = committed
          BY <2>1, <3>3, <3>6 DEF HistoryInv
        <4>. QED
          BY <3>3, <3>6, <4>1, <4>2 DEF HistoryInv, Below
      <3>. QED
        BY <3>4, <3>5, <3>6
    <2>. QED
      BY <2>3, <2>4, <2>5 DEF HistoryInv, Below, Numbered, Selections
  <1>2. ASSUME PowerLoss, Remember PROVE HistoryInv'
    <2>1. PICK d \in images : dir' = Settle(d) /\ images' = {Settle(d)}
      BY <1>2 DEF PowerLoss
    <2>2. /\ dir'.man.generation \in Int /\ dir'.man.active \subseteq Ids
          /\ d.man.generation \in Int
      BY <1>0, BoundAssumption DEF TypeInv, TypeOK, Directories, Manifests
    <2>4. \A v \in Writers : txn'[v].target = {}
      BY <1>2 DEF PowerLoss, NoTxn
    <2>5. CASE dir'.man = d.man
      <3>0. Numbered(d.man) /\ Below(d.man)
        BY DEF HistoryInv
      <3>1. \A c \in Selections(dir'.man) : /\ c \in Nat \X Ids
                                            /\ c[1] = dir'.man.generation
                                            /\ c[2] \in dir'.man.active
        BY <2>2, <2>5, <3>0 DEF Selections, Numbered
      <3>2. \A c \in committed' : /\ c \in Nat \X Ids
                                  /\ c[1] <= dir'.man.generation
                                  /\ c[2] < dir'.man.next
        BY <1>2, <2>2, <2>5, <3>0, <3>1 DEF Remember, HistoryInv, Below, Numbered
      <3>. QED
        BY <1>2, <2>1, <2>2, <2>4, <2>5, <3>0, <3>2
        DEF Remember, HistoryInv, Below, Numbered, Selections
    <2>6. CASE dir'.man = TornManifest
      <3>1. Selections(dir'.man) = {}
        BY <2>6 DEF Selections, TornManifest
      <3>2. committed' = {}
        <4>1. \A c \in committed : ~ (c[1] <= TornManifest.generation)
          BY DEF HistoryInv, TornManifest, Torn
        <4>. QED
          BY <1>2, <2>6, <3>1, <4>1 DEF Remember
      <3>. QED
        BY <2>1, <2>4, <2>6, <3>1, <3>2
        DEF HistoryInv, Below, Numbered, Selections, TornManifest, Torn
    <2>. QED
      BY <2>1, <2>5, <2>6 DEF Settle
  <1>3. CASE UNCHANGED vars
    <2>1. committed' = committed
      <3>1. dir.man.generation \in Int
        BY BoundAssumption DEF TypeInv, TypeOK, Directories, Manifests
      <3>2. CASE Remember
        <4>1. committed' = committed \cup Selections(dir.man)
          BY <1>3, <3>1, <3>2, RememberGrows DEF vars
        <4>. QED
          BY <4>1 DEF HistoryInv
      <3>. QED
        BY <3>2 DEF hvars
    <2>. QED
      BY <1>3, <2>1 DEF HistoryInv, vars, Numbered, Below, Selections
  <1>4. CASE UNCHANGED hvars
    BY <1>4, <1>3 DEF hvars
  <1>. QED
    BY <1>1, <1>2, <1>3, <1>4 DEF Next

\* Every step of the composition is a step of the directory, remembered.
LEMMA ComposedStep ==
  [RNext]_<<hvars, rvars>> => [Next]_vars /\ (Remember \/ UNCHANGED hvars)
  BY DEF RNext, WriterMoves, MachineStops, ReaderMoves, hvars, Next

LEMMA HistoryInvariant == RSpec => [](TypeInv /\ LockInv /\ HistoryInv)
  <1>1. RInit => TypeInv /\ LockInv /\ HistoryInv
    BY InitType, InitLock, InitHistory DEF RInit, HInit
  <1>2. TypeInv /\ LockInv /\ HistoryInv /\ [RNext]_<<hvars, rvars>>
          => (TypeInv /\ LockInv /\ HistoryInv)'
    BY ComposedStep, StepType, StepExclusive, StepCurrent, StepHistory DEF LockInv
  <1>. QED
    BY <1>1, <1>2, PTL DEF RSpec

LEMMA FreshIdentifiers ==
  TypeInv /\ LockInv /\ HistoryInv => CommittedIdsStayUsed
  <1> SUFFICES ASSUME TypeInv, LockInv, HistoryInv, NEW w \in Writers,
                      BeforeNaming(w), txn[w].id \in Used
               PROVE  FALSE
    BY DEF CommittedIdsStayUsed
  <1>1. /\ dir.man = txn[w].base
        /\ txn[w].base.generation # 0 => txn[w].base.next <= txn[w].id
    BY DEF BeforeNaming, LockInv, Current, Uncommitted
  <1>2. /\ txn[w].id < dir.man.next /\ txn[w].id \in Nat
        /\ dir.man.next \in Nat
        /\ dir.man.generation = 0 => dir.man.next = 0
    BY UsedIds, BoundAssumption
    DEF HistoryInv, Numbered, TypeInv, TypeOK, Txns, Directories, Manifests
  <1>. QED
    BY <1>1, <1>2

\* An identifier that the visible generation or one before it has selected is
\* never given to another segment, whatever the order in which files appear,
\* vanish and come back, and whatever a power loss brings back: a transaction
\* that has not yet named its segment holds a fresh one.
THEOREM IdentifiersFresh == RSpec => []CommittedIdsStayUsed
  BY FreshIdentifiers, HistoryInvariant, PTL

-----------------------------------------------------------------------------
(* What a writer's step does to what a reader holds. *)

\* A segment that a visible MANIFEST has selected stays as it was or goes.
LEMMA CommittedKept ==
  ASSUME IInv, HistoryInv, NEW w \in Writers, Open(w) \/ Work(w) \/ Kill(w)
  PROVE  \A i \in Used : dir'.seg[i] = dir.seg[i] \/ dir'.seg[i] = Absent
  <1> DEFINE Kept(i) == dir'.seg[i] = dir.seg[i] \/ dir'.seg[i] = Absent
  <1>0. dir \in Directories /\ Used \subseteq Ids
    BY UsedIds DEF IInv, TypeInv, TypeOK
  <1>1. ASSUME NEW i \in Ids, dir' = UnlinkSegment(dir, i), NEW j \in Ids
        PROVE  Kept(j)
    BY <1>0, <1>1, LinkKeeps DEF UnlinkSegment, Contents
  <1>2. CASE RemoveStale(w)
    <2>1. \/ \E i \in Ids : dir' = UnlinkSegment(dir, i)
          \/ \E t \in dir.tmp : dir' = DropTemporaries(dir, {t})
      BY <1>2 DEF RemoveStale, ChangeDirectory, StaleSegments, SegmentsOf
    <2>. QED
      BY <1>0, <1>1, <2>1, TemporaryKeeps
  <1>3. CASE NameSegment(w)
    <2>1. txn[w].id \notin Used
      BY <1>3, FreshIdentifiers
      DEF NameSegment, IInv, CommittedIdsStayUsed, BeforeNaming
    <2>2. txn[w].id \in Ids /\ txn[w].session \in Contents
      BY <1>3, BoundAssumption
      DEF NameSegment, IInv, TypeInv, InBounds, Ids, Contents
    <2>3. LinkSegment(dir, txn[w].id, txn[w].session) \in Directories
      BY <1>0, <2>2, LinkType
    <2>4. dir' = DropTemporaries(LinkSegment(dir, txn[w].id, txn[w].session),
                                 {"segment"})
      BY <1>3 DEF NameSegment, ChangeDirectory
    <2>. QED
      BY <1>0, <2>1, <2>2, <2>3, <2>4, LinkKeeps, TemporaryKeeps
  <1>4. CASE RollbackSegment(w)
    <2>1. txn[w].id \in Ids
      BY <1>4, BoundAssumption DEF RollbackSegment, IInv, TypeInv, InBounds, Ids
    <2>2. dir' = dir \/ dir' = UnlinkSegment(dir, txn[w].id)
      BY <1>4 DEF RollbackSegment, ChangeDirectory
    <2>. QED
      BY <1>0, <1>1, <2>1, <2>2
  <1>5. CASE Retire(w)
    <2>1. PICK i \in txn[w].retire : dir' = UnlinkSegment(dir, i)
      BY <1>5 DEF Retire, ChangeDirectory
    <2>2. i \in Ids
      BY DEF IInv, TypeInv, TypeOK, Txns
    <2>. QED
      BY <1>0, <1>1, <2>1, <2>2
  <1>6. CASE Commit(w)
    <2>1. NewManifest(txn[w]) \in Manifests
      BY <1>6, NewManifestType DEF Commit, IInv
    <2>2. dir' = DropTemporaries([dir EXCEPT !.man = NewManifest(txn[w])],
                                 {"manifest"})
      BY <1>6 DEF Commit, ChangeDirectory
    <2>. QED
      BY <1>0, <2>1, <2>2, CommitKeeps
  <1>7. CASE \/ Prepare(w) \/ Stage(w) \/ CreateManifest(w)
             \/ RollbackTemporaries(w) \/ Finish(w)
    <2>1. \/ dir' = dir
          \/ \E t : dir' = AddTemporary(dir, t)
          \/ \E T : dir' = DropTemporaries(dir, T)
      BY <1>7 DEF Prepare, Stage, CreateManifest, RollbackTemporaries, Finish,
                  ChangeDirectory
    <2>. QED
      BY <1>0, <2>1, TemporaryKeeps
  <1>8. CASE \/ Open(w) \/ SyncRecovered(w) \/ RecoverFails(w) \/ Abandon(w)
             \/ SyncCandidate(w) \/ SyncName(w) \/ SyncManifest(w)
             \/ PublishFails(w) \/ SyncCommit(w) \/ SyncCommitFails(w)
             \/ RetireFails(w) \/ SyncRetired(w) \/ RollbackSync(w) \/ Kill(w)
    BY <1>8 DEF Open, SyncRecovered, RecoverFails, Abandon, SyncCandidate, SyncName,
                SyncManifest, PublishFails, SyncCommit, SyncCommitFails, RetireFails,
                SyncRetired, RollbackSync, Kill
  <1>. QED
    BY <1>2, <1>3, <1>4, <1>5, <1>6, <1>7, <1>8 DEF Work

LEMMA ViewType ==
  ASSUME NEW d \in Directories
  PROVE  /\ View(d) \in AllViews
         /\ View(d).generation = d.man.generation
         /\ DOMAIN View(d).segments = d.man.active
         /\ \A i \in d.man.active : View(d).segments[i] = d.seg[i]
  <1>1. /\ d.man.active \in SUBSET Ids /\ d.man.generation \in -1 .. MaxGeneration
        /\ d.seg \in [Ids -> Contents]
    BY DEF Directories, Manifests
  <1>2. [i \in d.man.active |-> d.seg[i]] \in [d.man.active -> Contents]
    BY <1>1
  <1>. QED
    BY <1>1, <1>2 DEF View, AllViews, PartialIndexes

\* A window counts its views, and counts more of them when it grows.
LEMMA WindowGrows ==
  ASSUME NEW win, IsFiniteSet(win), NEW more, win \subseteq more, IsFiniteSet(more)
  PROVE  /\ Cardinality(win) \in Nat /\ Cardinality(more) \in Nat
         /\ Cardinality(win) <= Cardinality(more)
         /\ \A g : /\ Cardinality(Upto(win, g)) \in Nat
                   /\ Cardinality(Upto(more, g)) \in Nat
                   /\ Cardinality(Upto(win, g)) <= Cardinality(Upto(more, g))
  <1>1. /\ Cardinality(win) \in Nat /\ Cardinality(more) \in Nat
        /\ Cardinality(win) <= Cardinality(more)
    BY FS_CardinalityType, FS_Subset
  <1>2. ASSUME NEW g
        PROVE  /\ Cardinality(Upto(win, g)) \in Nat
               /\ Cardinality(Upto(more, g)) \in Nat
               /\ Cardinality(Upto(win, g)) <= Cardinality(Upto(more, g))
    <2>1. /\ Upto(more, g) \in SUBSET more
          /\ Upto(win, g) \in SUBSET Upto(more, g)
      BY DEF Upto
    <2>2. IsFiniteSet(Upto(more, g))
      BY <2>1, FS_Subset
    <2>3. /\ IsFiniteSet(Upto(win, g))
          /\ Cardinality(Upto(win, g)) <= Cardinality(Upto(more, g))
      BY <2>1, <2>2, FS_Subset
    <2>. QED
      BY <2>2, <2>3, FS_CardinalityType
  <1>. QED
    BY <1>1, <1>2

\* The steps of a writer, and of the other readers, leave a reader in order.
LEMMA WriterLeavesReader ==
  ASSUME Ordered, IInv, IInv', HistoryInv, ReadersTypeOK, WriterMoves,
         NEW r \in Readers, Follows(rd[r], window[r])
  PROVE  /\ window'[r] \in SUBSET AllViews /\ IsFiniteSet(window'[r])
         /\ Follows(rd[r], window[r])'
  <1> DEFINE x == rd[r]
             win == window[r]
  <1>1. PICK w \in Writers : Open(w) \/ Work(w) \/ Kill(w)
    BY DEF WriterMoves
  <1>2. /\ rd' = rd /\ Used \subseteq Used'
        /\ window'[r] = IF Reading(r) THEN win \cup {View(dir')} ELSE win
    <2>1. dir.man.generation \in Int /\ dir'.man.generation \in Int
      BY BoundAssumption DEF IInv, TypeInv, TypeOK, Directories, Manifests
    <2>2. dir'.man = dir.man \/ dir'.man.generation = dir.man.generation + 1
      BY <1>1, ManifestStep DEF IInv
    <2>3. Used' = Used \cup dir'.man.active
      BY <2>1, <2>2, RememberGrows DEF WriterMoves
    <2>. QED
      BY <2>3 DEF WriterMoves
  <1>3. /\ dir \in Directories /\ dir' \in Directories
        /\ x \in ReaderRecords /\ win \in SUBSET AllViews /\ IsFiniteSet(win)
    BY DEF IInv, TypeInv, TypeOK, ReadersTypeOK
  <1>4. window'[r] \in SUBSET AllViews /\ IsFiniteSet(window'[r])
    <2>1. View(dir') \in AllViews
      BY <1>3, ViewType
    <2>2. IsFiniteSet(win \cup {View(dir')})
      BY <1>3, FS_AddElement
    <2>. QED
      BY <1>2, <1>3, <2>1, <2>2
  <1>5. win \subseteq window'[r]
    BY <1>2
  <1>6. CASE Reading(r)
    <2>1. /\ View(dir) \in win /\ \A v \in win : v.generation <= dir.man.generation
          /\ x.outcome = "none" /\ View(dir') \in window'[r]
      BY <1>2, <1>6 DEF Follows, Reading
    <2>2. /\ dir'.man = dir.man \/ dir'.man.generation = dir.man.generation + 1
          /\ dir.man.generation \in Int /\ dir'.man.generation \in Int
          /\ x.man.generation \in Int
          /\ \A v \in win : v.generation \in Int
      <3>1. dir'.man = dir.man \/ dir'.man.generation = dir.man.generation + 1
        BY <1>1, ManifestStep DEF IInv
      <3>. QED
        BY <1>3, <3>1, BoundAssumption DEF Directories, Manifests, ReaderRecords, AllViews
    <2>3. \A v \in window'[r] : v.generation <= dir'.man.generation
      BY <1>2, <1>3, <1>6, <2>1, <2>2, ViewType
    <2>4. ASSUME x.at \in Holding
          PROVE  /\ x.man.active \subseteq Used'
                 /\ x.man.generation <= dir'.man.generation
                 /\ x.man.generation = dir'.man.generation => x.man = dir'.man
                 /\ \E v \in window'[r] :
                      /\ v.generation = x.man.generation
                      /\ DOMAIN v.segments = x.man.active
                      /\ \A i \in x.man.active : \/ dir'.seg[i] = v.segments[i]
                                                 \/ dir'.seg[i] = Absent
                      /\ x.at = "read" => ReadFrom(x, v)
      <3>1. x.man.active \subseteq Used /\ NotAhead(x)
        BY <2>4 DEF Follows
      <3>2. PICK v \in win : ViewHeld(x, v) /\ (x.at = "read" => ReadFrom(x, v))
        BY <2>4 DEF Follows
      <3>3. \A i \in x.man.active : dir'.seg[i] = dir.seg[i] \/ dir'.seg[i] = Absent
        BY <1>1, <3>1, CommittedKept
      <3>4. \A i \in x.man.active : dir'.seg[i] = v.segments[i] \/ dir'.seg[i] = Absent
        BY <3>2, <3>3 DEF ViewHeld
      <3>. QED
        BY <1>2, <1>5, <2>2, <3>1, <3>2, <3>4 DEF NotAhead, ViewHeld
    <2>5. /\ x.at \in {"reopen", "resize"} => x.man.generation < dir'.man.generation
          /\ x.at = "resize" => x.man.generation < x.now.generation
      BY <2>2 DEF Follows
    <2>6. Counted(x, window'[r])
      <3>1. x.attempt \in Nat
        BY <1>3 DEF ReaderRecords
      <3>. QED
        BY <1>3, <1>4, <1>5, <3>1, WindowGrows DEF Follows, Counted
    <2>7. Justified(x, window'[r])
      BY <2>1 DEF Justified
    <2>. QED
      BY <1>2, <1>4, <1>6, <2>1, <2>3, <2>4, <2>5, <2>6, <2>7
      DEF Follows, NotAhead, ViewHeld, ReadFrom, Counted, Justified, Reading
  <1>7. CASE ~ Reading(r)
    <2>1. x.at \in {"idle", "done"} /\ window'[r] = win
      BY <1>2, <1>7 DEF Reading
    <2>. QED
      BY <1>2, <1>4, <2>1
      DEF Follows, NotAhead, ViewHeld, ReadFrom, Counted, Justified, Holding
  <1>. QED
    BY <1>6, <1>7

-----------------------------------------------------------------------------
(* The steps of a reader. *)

\* A generation newer than g makes a window larger than its views up to g.
LEMMA NewerView ==
  ASSUME NEW win, IsFiniteSet(win), NEW v \in win, NEW g \in Int,
         v.generation \in Int, g < v.generation
  PROVE  Cardinality(win) >= Cardinality(Upto(win, g)) + 1
  <1>1. /\ Upto(win, g) \in SUBSET win /\ v \notin Upto(win, g)
        /\ Upto(win, g) \cup {v} \in SUBSET win
    BY DEF Upto
  <1>2. IsFiniteSet(Upto(win, g))
    BY <1>1, FS_Subset
  <1>3. Cardinality(Upto(win, g) \cup {v}) = Cardinality(Upto(win, g)) + 1
    BY <1>1, <1>2, FS_AddElement
  <1>4. Cardinality(Upto(win, g) \cup {v}) <= Cardinality(win)
    BY <1>1, FS_Subset
  <1>5. Cardinality(win) \in Nat /\ Cardinality(Upto(win, g)) \in Nat
    BY <1>2, FS_CardinalityType
  <1>. QED
    BY <1>3, <1>4, <1>5

LEMMA GotType ==
  /\ <<<<>>, <<>>>> \in [{1, 2} -> PartialIndexes]
  /\ DOMAIN <<<<>>, <<>>>>[1] = {}
  <1>1. <<>> \in [{} -> Contents] /\ {} \in SUBSET Ids
    OBVIOUS
  <1>2. <<>> \in PartialIndexes
    BY <1>1 DEF PartialIndexes
  <1>3. <<<<>>, <<>>>> \in [{1, 2} -> PartialIndexes]
    BY <1>2
  <1>. QED
    BY <1>1, <1>3

\* One more attempt follows one more generation.
LEMMA RetryCounted ==
  ASSUME ReadersTypeOK, NEW r \in Readers, Follows(rd[r], window[r]), Reading(r),
         Cardinality(window[r]) >= rd[r].attempt + 1, Retry(r)
  PROVE  /\ rd' \in [Readers -> ReaderRecords]
         /\ Follows(rd'[r], window[r])
         /\ \A q \in Readers : q # r => rd'[q] = rd[q]
  <1> DEFINE x == rd[r]
  <1>0. /\ x \in ReaderRecords /\ x.attempt \in 0 .. 3 /\ Reading(r)
        /\ rd \in [Readers -> ReaderRecords]
    BY DEF ReadersTypeOK, ReaderRecords
  <1>1. CASE x.attempt < 3
    <2>1. rd' = [rd EXCEPT ![r].at = "look", ![r].attempt = @ + 1]
      BY <1>1 DEF Retry
    <2>2. /\ rd'[r] = [x EXCEPT !.at = "look", !.attempt = @ + 1]
          /\ \A q \in Readers : q # r => rd'[q] = rd[q]
      BY <1>0, <2>1
    <2>3. /\ rd'[r] \in ReaderRecords /\ rd'[r].at = "look"
          /\ rd'[r].attempt = x.attempt + 1 /\ rd'[r].outcome = x.outcome
      <3>1. x.attempt + 1 \in 0 .. 3 /\ "look" \in Stations
        BY <1>0, <1>1 DEF Stations
      <3> HIDE DEF x
      <3>. QED
        BY <1>0, <2>2, <3>1 DEF ReaderRecords
    <2>4. rd' \in [Readers -> ReaderRecords]
      BY <1>0, <2>1, <2>3
    <2>. QED
      BY <1>0, <2>2, <2>3, <2>4
      DEF Follows, Counted, Justified, Holding, Reading
  <1>2. CASE ~ (x.attempt < 3)
    <2>1. rd' = [rd EXCEPT ![r].at = "done", ![r].outcome = "changing"]
      BY <1>2 DEF Retry, Ends
    <2>2. /\ rd'[r] = [x EXCEPT !.at = "done", !.outcome = "changing"]
          /\ \A q \in Readers : q # r => rd'[q] = rd[q]
      BY <1>0, <2>1
    <2>3. /\ rd'[r] \in ReaderRecords /\ rd'[r].at = "done"
          /\ rd'[r].outcome = "changing"
      BY <1>0, <2>2 DEF ReaderRecords, Stations, Outcomes
    <2>4. rd' \in [Readers -> ReaderRecords]
      BY <1>0, <2>1, <2>3
    <2>5. Cardinality(window[r]) > 3
      <3>1. Cardinality(window[r]) \in Nat
        BY FS_CardinalityType DEF ReadersTypeOK
      <3>. QED
        BY <1>0, <1>2, <3>1
    <2>. QED
      BY <1>0, <2>2, <2>3, <2>4, <2>5
      DEF Follows, Counted, Justified, Holding, Reading
  <1>. QED
    BY <1>1, <1>2

\* A station without a Manifest in hand, or the end, needs little.
LEMMA EasyStation ==
  ASSUME ReadersTypeOK, NEW r \in Readers, Follows(rd[r], window[r]), Reading(r),
         NEW p \in Stations, NEW o \in Outcomes,
         rd' = [rd EXCEPT ![r].at = p, ![r].outcome = o],
         p \notin Holding /\ p # "idle",
         p # "done" => o = "none" /\ Counted([rd[r] EXCEPT !.at = p], window[r]),
         \/ o = "none" \/ o = "inconsistent"
         \/ o = "rebuild" /\ \E v \in window[r] : v.generation = 0
  PROVE  /\ rd' \in [Readers -> ReaderRecords]
         /\ Follows(rd'[r], window[r])
         /\ \A q \in Readers : q # r => rd'[q] = rd[q]
  <1> DEFINE x == rd[r]
             y == [x EXCEPT !.at = p, !.outcome = o]
  <1>0. x \in ReaderRecords /\ rd \in [Readers -> ReaderRecords]
    BY DEF ReadersTypeOK
  <1>1. rd'[r] = y /\ \A q \in Readers : q # r => rd'[q] = rd[q]
    BY <1>0
  <1>2. /\ y \in ReaderRecords /\ y.at = p /\ y.outcome = o
        /\ y.attempt = x.attempt /\ y.man = x.man
        /\ [x EXCEPT !.at = p].at = p /\ [x EXCEPT !.at = p].attempt = x.attempt
    BY <1>0 DEF ReaderRecords
  <1>3. rd' \in [Readers -> ReaderRecords]
    BY <1>0, <1>2
  <1>4. Counted(y, window[r])
    BY <1>2 DEF Counted, Holding
  <1>. QED
    BY <1>1, <1>2, <1>3, <1>4 DEF Follows, Justified, Holding, Reading

\* Reading the next segment, from a file that is as the held view has it.
LEMMA ReadsKeep ==
  ASSUME RInv, NEW r \in Readers, rd[r].at = "read", NEW i \in rd[r].todo,
         Readable(dir.seg[i]), Reads(r, i)
  PROVE  /\ rd' \in [Readers -> ReaderRecords]
         /\ Follows(rd'[r], window[r])
         /\ \A q \in Readers : q # r => rd'[q] = rd[q]
  <1> DEFINE x == rd[r]
             win == window[r]
             seen == [j \in DOMAIN x.got[x.pass] \cup {i} |->
                        IF j = i THEN dir.seg[i] ELSE x.got[x.pass][j]]
             rest == x.todo \ {i}
             last == rest = {} /\ x.pass = 2
             again == rest = {} /\ ~ last
             got == [x.got EXCEPT ![x.pass] = seen]
             todo == IF again THEN x.man.active ELSE rest
             pass == IF again THEN 2 ELSE x.pass
             at == IF last THEN "done" ELSE x.at
             outcome == IF last THEN "index" ELSE x.outcome
             y == [x EXCEPT !.got = got, !.todo = todo, !.pass = pass, !.at = at,
                            !.outcome = outcome]
  <1>1. /\ rd \in [Readers -> ReaderRecords] /\ x \in ReaderRecords
        /\ win \in SUBSET AllViews /\ Follows(x, win) /\ x.at = "read"
        /\ dir \in Directories
    BY DEF RInv, ReadersInv, ReadersTypeOK, IInv, TypeInv, TypeOK
  <1>2. PICK v \in win : ViewHeld(x, v) /\ ReadFrom(x, v)
    BY <1>1 DEF Follows, Holding
  <1>3. /\ x.pass \in {1, 2} /\ x.todo \in SUBSET Ids /\ x.man \in Manifests
        /\ x.got \in [{1, 2} -> PartialIndexes] /\ x.man.active \in SUBSET Ids
    BY <1>1 DEF ReaderRecords, Manifests
  <1>4. i \in x.man.active /\ dir.seg[i] = v.segments[i] /\ dir.seg[i] \in Contents
    <2>1. i \in x.man.active
      BY <1>2 DEF ReadFrom
    <2>2. dir.seg[i] # Absent
      BY DEF Readable, Sessions, Absent
    <2>. QED
      BY <1>1, <1>2, <1>3, <2>1, <2>2 DEF ViewHeld, Directories
  <1>5. /\ DOMAIN seen = x.man.active \ rest
        /\ \A j \in x.man.active \ rest : seen[j] = v.segments[j]
    BY <1>2, <1>4 DEF ReadFrom
  <1>6. seen \in PartialIndexes
    <2>1. \A j \in DOMAIN x.got[x.pass] : x.got[x.pass][j] \in Contents
      BY <1>3 DEF PartialIndexes
    <2>2. DOMAIN seen \in SUBSET Ids
      BY <1>3, <1>5
    <2>3. seen \in [DOMAIN seen -> Contents]
      BY <1>4, <2>1
    <2>. QED
      BY <2>2, <2>3 DEF PartialIndexes
  <1>7. /\ got \in [{1, 2} -> PartialIndexes] /\ got[x.pass] = seen
        /\ \A p \in {1, 2} : p # x.pass => got[p] = x.got[p]
    BY <1>3, <1>6
  <1>8. rd' = [rd EXCEPT ![r] = y]
    <2>1. rd' = [rd EXCEPT ![r].got[x.pass] = seen, ![r].todo = todo, ![r].pass = pass,
                           ![r].at = at, ![r].outcome = outcome]
      BY DEF Reads
    <2> HIDE DEF seen, todo, pass, at, outcome
    <2>. QED
      BY <1>1, <2>1 DEF ReaderRecords
  <1>9. /\ y \in ReaderRecords /\ y.got = got /\ y.todo = todo /\ y.pass = pass
        /\ y.at = at /\ y.outcome = outcome /\ y.man = x.man /\ y.now = x.now
        /\ y.attempt = x.attempt
    <2>1. /\ todo \in SUBSET Ids /\ pass \in {1, 2} /\ at \in Stations
          /\ outcome \in Outcomes
      BY <1>1, <1>3 DEF Stations, Outcomes, ReaderRecords
    <2> HIDE DEF todo, pass, at, outcome, got, x
    <2>. QED
      BY <1>1, <1>7, <2>1 DEF ReaderRecords
  <1>10. /\ rd' \in [Readers -> ReaderRecords] /\ rd'[r] = y
         /\ \A q \in Readers : q # r => rd'[q] = rd[q]
    BY <1>1, <1>8, <1>9
  <1>11. v.segments = [j \in x.man.active |-> v.segments[j]]
    BY <1>1, <1>2 DEF ViewHeld, AllViews, PartialIndexes
  <1>12. rest = {} => seen = v.segments
    BY <1>5, <1>11
  <1>13. x.outcome = "none" /\ rest \subseteq x.man.active
    BY <1>1, <1>2 DEF Follows, ReadFrom
  <1>14. CASE last
    <2>1. got[1] = v.segments /\ got[2] = v.segments
      BY <1>2, <1>7, <1>12, <1>14 DEF ReadFrom
    <2>2. v = [generation |-> x.man.generation, segments |-> v.segments]
      BY <1>1, <1>2 DEF AllViews, ViewHeld
    <2>3. y.at = "done" /\ y.outcome = "index"
      BY <1>9, <1>14
    <2> HIDE DEF y, got, last
    <2>. QED
      BY <1>2, <1>9, <1>10, <2>1, <2>2, <2>3
      DEF Follows, Counted, Justified, Holding
  <1>15. CASE ~ last
    <2>1. y.at = "read" /\ y.outcome = "none"
      BY <1>1, <1>9, <1>13, <1>15
    <2>2. ReadFrom(y, v)
      <3>1. CASE again
        <4>0. x.pass = 1 /\ rest = {}
          BY <1>3, <3>1
        <4>1. got[1] = v.segments /\ got[2] = x.got[2]
          BY <1>7, <1>12, <4>0
        <4>2. y.todo = x.man.active /\ y.pass = 2
          BY <1>9, <3>1
        <4>3. DOMAIN x.got[2] = {}
          BY <1>2, <4>0 DEF ReadFrom
        <4>. QED
          BY <1>9, <4>1, <4>2, <4>3 DEF ReadFrom
      <3>2. CASE ~ again
        <4>1. y.todo = rest /\ y.pass = x.pass
          BY <1>9, <3>2
        <4>2. IF x.pass = 2 THEN got[1] = v.segments ELSE DOMAIN got[2] = {}
          <5> HIDE DEF got, x
          <5>1. CASE x.pass = 2
            BY <1>2, <1>7, <5>1 DEF ReadFrom
          <5>2. CASE x.pass = 1
            BY <1>2, <1>7, <5>2 DEF ReadFrom
          <5>. QED
            BY <1>3, <5>1, <5>2
        <4> HIDE DEF y, got, rest, seen
        <4>. QED
          BY <1>5, <1>7, <1>9, <1>13, <4>1, <4>2 DEF ReadFrom
      <3>. QED
        BY <3>1, <3>2
    <2>3. ViewHeld(y, v) /\ NotAhead(y)
      BY <1>1, <1>2, <1>9 DEF ViewHeld, NotAhead, Follows, Holding
    <2> HIDE DEF y, got, last
    <2>. QED
      BY <1>1, <1>2, <1>9, <1>10, <2>1, <2>2, <2>3
      DEF Follows, Counted, Justified, Holding
  <1>. QED
    BY <1>14, <1>15

LEMMA BeginKeeps ==
  ASSUME RInv, NEW r \in Readers, Begin(r)
  PROVE  /\ rd' \in [Readers -> ReaderRecords]
         /\ window' \in [Readers -> SUBSET AllViews]
         /\ IsFiniteSet(window'[r]) /\ Follows(rd'[r], window'[r])
         /\ \A q \in Readers : q # r => rd'[q] = rd[q] /\ window'[q] = window[q]
  <1> DEFINE x == rd[r]
  <1>1. /\ rd \in [Readers -> ReaderRecords] /\ x \in ReaderRecords
        /\ window \in [Readers -> SUBSET AllViews]
        /\ x.at = "idle" /\ x.outcome = "none"
    BY DEF RInv, ReadersInv, ReadersTypeOK, Follows, Begin
  <1>2. View(dir) \in AllViews /\ View(dir).generation = dir.man.generation
        /\ dir.man.generation \in Int
    BY ViewType DEF RInv, IInv, TypeInv, TypeOK, Directories, Manifests
  <1>3. /\ window'[r] = {View(dir)} /\ window' \in [Readers -> SUBSET AllViews]
        /\ IsFiniteSet(window'[r]) /\ Cardinality(window'[r]) = 1
        /\ \A q \in Readers : q # r => window'[q] = window[q]
    BY <1>1, <1>2, FS_Singleton DEF Begin
  <1>4. /\ rd' \in [Readers -> ReaderRecords] /\ rd'[r].at = "look"
        /\ rd'[r].attempt = 1 /\ rd'[r].outcome = "none"
        /\ \A q \in Readers : q # r => rd'[q] = rd[q]
    <2>1. rd' = [rd EXCEPT ![r] = [x EXCEPT !.at = "look", !.attempt = 1]]
      BY <1>1 DEF Begin
    <2>2. "look" \in Stations /\ 1 \in 0 .. 3
      BY DEF Stations
    <2> HIDE DEF x
    <2>3. [x EXCEPT !.at = "look", !.attempt = 1] \in ReaderRecords
      BY <1>1, <2>2 DEF ReaderRecords
    <2>4. /\ [x EXCEPT !.at = "look", !.attempt = 1].at = "look"
          /\ [x EXCEPT !.at = "look", !.attempt = 1].attempt = 1
          /\ [x EXCEPT !.at = "look", !.attempt = 1].outcome = x.outcome
      BY <1>1 DEF ReaderRecords
    <2>. QED
      BY <1>1, <2>1, <2>3, <2>4
  <1>. QED
    BY <1>2, <1>3, <1>4 DEF Follows, Counted, Justified, Holding

LEMMA ReadKeeps ==
  ASSUME Ordered, RInv, NEW r \in Readers, Read(r)
  PROVE  /\ rd' \in [Readers -> ReaderRecords] /\ window' = window
         /\ Follows(rd'[r], window[r])
         /\ \A q \in Readers : q # r => rd'[q] = rd[q]
  <1> DEFINE x == rd[r]
             win == window[r]
             Kept == /\ rd' \in [Readers -> ReaderRecords]
                     /\ Follows(rd'[r], window[r])
                     /\ \A q \in Readers : q # r => rd'[q] = rd[q]
  <1>1. /\ rd \in [Readers -> ReaderRecords] /\ x \in ReaderRecords
        /\ win \in SUBSET AllViews /\ IsFiniteSet(win) /\ Follows(x, win)
        /\ dir \in Directories /\ ReadersTypeOK
    BY DEF RInv, ReadersInv, ReadersTypeOK, IInv, TypeInv, TypeOK
  <1>2. Reading(r)
    BY DEF Read, Look, AbsentManifest, OpenManifest, SizeManifest, ReadSegment,
           ReopenManifest, ResizeManifest, Reading
  <1>3. /\ View(dir) \in win /\ \A v \in win : v.generation <= dir.man.generation
        /\ x.outcome = "none"
    BY <1>1, <1>2 DEF Follows, Reading
  <1>4. /\ View(dir).generation = dir.man.generation /\ dir.man.generation \in Int
        /\ DOMAIN View(dir).segments = dir.man.active
        /\ \A i \in dir.man.active : View(dir).segments[i] = dir.seg[i]
        /\ x.man.generation \in Int /\ x.attempt \in 0 .. 3
    BY <1>1, ViewType DEF Directories, Manifests, ReaderRecords
  <1>5. Upto(win, dir.man.generation) = win
    BY <1>3 DEF Upto
  <1>6. \A g \in Int : g < dir.man.generation =>
          Cardinality(win) >= Cardinality(Upto(win, g)) + 1
    BY <1>1, <1>3, <1>4, NewerView
  <1>7. \A g : Cardinality(Upto(win, g)) \in Nat /\ Cardinality(win) \in Nat
    BY <1>1, WindowGrows
  <1>8. ASSUME NEW p \in Stations, Goes(r, p)
        PROVE  rd' = [rd EXCEPT ![r].at = p, ![r].outcome = "none"]
    <2>1. [x EXCEPT !.at = p] = [x EXCEPT !.at = p, !.outcome = "none"]
      BY <1>1, <1>3 DEF ReaderRecords
    <2>. QED
      BY <1>1, <1>8, <2>1 DEF Goes
  <1> HIDE DEF win
  <1>9. ASSUME Ends(r, "inconsistent") PROVE Kept
    <2>1. /\ "done" \in Stations /\ "inconsistent" \in Outcomes
          /\ "done" \notin Holding
      BY DEF Stations, Outcomes, Holding
    <2>. QED
      BY <1>1, <1>2, <1>9, <2>1, EasyStation DEF Ends, win
  <1>10. ASSUME Look(r) PROVE Kept
    <2>1. x.at = "look" /\ Cardinality(win) >= x.attempt
      BY <1>1, <1>10 DEF Look, Follows, Counted
    <2>2. CASE dir.man.generation = 0
      <3>1. Counted([x EXCEPT !.at = "absent"], win)
        BY <1>1, <1>5, <2>1, <2>2 DEF Counted, Holding, ReaderRecords
      <3>2. "absent" \in Stations /\ "none" \in Outcomes /\ "absent" \notin Holding
        BY DEF Stations, Outcomes, Holding
      <3>3. rd' = [rd EXCEPT ![r].at = "absent", ![r].outcome = "none"]
        BY <1>8, <1>10, <2>2, <3>2 DEF Look
      <3>. QED
        BY <1>1, <1>2, <3>1, <3>2, <3>3, EasyStation DEF win
    <2>3. CASE dir.man.generation # 0
      <3>1. Counted([x EXCEPT !.at = "open"], win)
        BY <1>1, <2>1 DEF Counted, Holding, ReaderRecords
      <3>2. "open" \in Stations /\ "none" \in Outcomes /\ "open" \notin Holding
        BY DEF Stations, Outcomes, Holding
      <3>3. rd' = [rd EXCEPT ![r].at = "open", ![r].outcome = "none"]
        BY <1>8, <1>10, <2>3, <3>2 DEF Look
      <3>. QED
        BY <1>1, <1>2, <3>1, <3>2, <3>3, EasyStation DEF win
    <2>. QED
      BY <2>2, <2>3
  <1>11. ASSUME AbsentManifest(r) PROVE Kept
    <2>1. x.at = "absent" /\ Cardinality(Upto(win, 0)) >= x.attempt
      BY <1>1, <1>11 DEF AbsentManifest, Follows, Counted
    <2>2. CASE dir.man.generation = 0
      <3>1. /\ "done" \in Stations /\ "rebuild" \in Outcomes
            /\ "done" \notin Holding
        BY DEF Stations, Outcomes, Holding
      <3>2. \E v \in win : v.generation = 0
        BY <1>3, <1>4, <2>2
      <3>. QED
        BY <1>1, <1>2, <1>11, <2>2, <3>1, <3>2, EasyStation
        DEF AbsentManifest, Ends, win
    <2>3. CASE dir.man.generation # 0
      <3>1. dir.man.generation > 0
        BY <2>3 DEF RInv, IInv, SoundInv, Sound, ValidManifest
      <3>2. Cardinality(win) >= x.attempt + 1
        BY <1>4, <1>6, <1>7, <2>1, <3>1
      <3>. QED
        BY <1>1, <1>2, <1>11, <2>3, <3>2, RetryCounted DEF AbsentManifest, win
    <2>. QED
      BY <2>2, <2>3
  <1>12. ASSUME OpenManifest(r) PROVE Kept
    <2> DEFINE y == [x EXCEPT !.at = "size", !.man = dir.man]
    <2>1. x.at = "open" /\ Cardinality(win) >= x.attempt
      BY <1>1, <1>12 DEF OpenManifest, Follows, Counted
    <2>2. /\ y \in ReaderRecords /\ y.at = "size" /\ y.man = dir.man
          /\ y.attempt = x.attempt /\ y.outcome = x.outcome
      BY <1>1 DEF ReaderRecords, Stations, Directories
    <2>3. rd' = [rd EXCEPT ![r] = y]
      BY <1>1, <1>12 DEF OpenManifest
    <2>4. /\ rd' \in [Readers -> ReaderRecords] /\ rd'[r] = y
          /\ \A q \in Readers : q # r => rd'[q] = rd[q]
      BY <1>1, <2>2, <2>3
    <2> HIDE DEF y, x
    <2>5. ViewHeld(y, View(dir)) /\ NotAhead(y) /\ y.man.active \subseteq Used
      BY <1>4, <2>2, VisibleUsed DEF ViewHeld, NotAhead, RInv
    <2>6. Cardinality(Upto(win, y.man.generation)) >= y.attempt
      BY <1>5, <2>1, <2>2
    <2>7. Follows(y, win)
      BY <1>3, <2>2, <2>5, <2>6 DEF Follows, Counted, Justified, Holding
    <2>. QED
      BY <2>4, <2>7 DEF win
  <1>13. ASSUME SizeManifest(r) PROVE Kept
    <2> DEFINE none == <<<<>>, <<>>>>
               y == [x EXCEPT !.at = "read", !.pass = 1, !.todo = x.man.active,
                              !.got = none]
    <2>1. CASE ~ SameLength(x.man, dir)
      BY <1>9, <1>13, <2>1 DEF SizeManifest
    <2>2. CASE SameLength(x.man, dir)
      <3>1. x.at = "size" /\ x.man.active \in SUBSET Ids
        BY <1>1, <1>13 DEF SizeManifest, ReaderRecords, Manifests
      <3>2. none \in [{1, 2} -> PartialIndexes] /\ DOMAIN none[1] = {}
            /\ DOMAIN none[2] = {} /\ "read" \in Stations
        BY GotType DEF Stations
      <3>3. rd' = [rd EXCEPT ![r] = y]
        BY <1>1, <1>13, <2>2 DEF SizeManifest
      <3> HIDE DEF none, x
      <3>4. /\ y \in ReaderRecords /\ y.at = "read" /\ y.man = x.man /\ y.pass = 1
            /\ y.todo = x.man.active /\ y.got = none
            /\ y.attempt = x.attempt /\ y.outcome = x.outcome
        BY <1>1, <3>1, <3>2 DEF ReaderRecords
      <3>5. /\ rd' \in [Readers -> ReaderRecords] /\ rd'[r] = y
            /\ \A q \in Readers : q # r => rd'[q] = rd[q]
        BY <1>1, <3>3, <3>4
      <3> HIDE DEF y
      <3>6. \A v : ViewHeld(x, v) => ViewHeld(y, v) /\ ReadFrom(y, v)
        BY <3>2, <3>4 DEF ViewHeld, ReadFrom
      <3>7. Follows(y, win)
        BY <1>1, <1>3, <3>1, <3>4, <3>6
        DEF Follows, NotAhead, Counted, Justified, Holding
      <3>. QED
        BY <3>5, <3>7 DEF win
    <2>. QED
      BY <2>1, <2>2
  <1>14. ASSUME ReadSegment(r) PROVE Kept
    <2>1. x.at = "read"
      BY <1>14 DEF ReadSegment
    <2>2. PICK i \in x.todo : IF Readable(dir.seg[i]) THEN Reads(r, i)
                              ELSE Goes(r, "reopen")
      BY <1>14 DEF ReadSegment
    <2>3. CASE Readable(dir.seg[i])
      BY <2>1, <2>2, <2>3, ReadsKeep
    <2>4. CASE ~ Readable(dir.seg[i])
      <3> DEFINE y == [x EXCEPT !.at = "reopen", !.outcome = "none"]
      <3>1. PICK v \in win : ViewHeld(x, v) /\ ReadFrom(x, v)
        BY <1>1, <2>1 DEF Follows, Holding
      <3>2. i \in x.man.active
        BY <3>1 DEF ReadFrom
      <3>3. NotAhead(x) /\ x.man.active \subseteq Used
        BY <1>1, <2>1 DEF Follows, Holding
      <3>4. x.man.generation < dir.man.generation
        <4>1. x.man # dir.man
          BY <2>4, <3>2 DEF RInv, IInv, SoundInv, Sound, Readable
        <4>. QED
          BY <1>4, <3>3, <4>1 DEF NotAhead
      <3>5. rd' = [rd EXCEPT ![r] = y]
        BY <1>1, <1>8, <2>2, <2>4 DEF Stations
      <3>6. /\ y \in ReaderRecords /\ y.at = "reopen" /\ y.man = x.man
            /\ y.attempt = x.attempt /\ y.outcome = "none"
        BY <1>1 DEF ReaderRecords, Stations, Outcomes
      <3>7. /\ rd' \in [Readers -> ReaderRecords] /\ rd'[r] = y
            /\ \A q \in Readers : q # r => rd'[q] = rd[q]
        BY <1>1, <3>5, <3>6
      <3> HIDE DEF y, x
      <3>8. ViewHeld(y, v) /\ NotAhead(y)
        BY <3>1, <3>3, <3>6 DEF ViewHeld, NotAhead
      <3>9. Follows(y, win)
        BY <1>1, <1>3, <2>1, <3>3, <3>4, <3>6, <3>8
        DEF Follows, Counted, Justified, Holding
      <3>. QED
        BY <3>7, <3>9 DEF win
    <2>. QED
      BY <2>3, <2>4
  <1>15. ASSUME ReopenManifest(r) PROVE Kept
    <2> DEFINE y == [x EXCEPT !.at = "resize", !.now = dir.man]
    <2>1. x.at = "reopen"
      BY <1>15 DEF ReopenManifest
    <2>2. /\ y \in ReaderRecords /\ y.at = "resize" /\ y.man = x.man
          /\ y.now = dir.man /\ y.attempt = x.attempt /\ y.outcome = x.outcome
      BY <1>1 DEF ReaderRecords, Stations, Directories
    <2>3. rd' = [rd EXCEPT ![r] = y]
      BY <1>1, <1>15 DEF ReopenManifest
    <2>4. /\ rd' \in [Readers -> ReaderRecords] /\ rd'[r] = y
          /\ \A q \in Readers : q # r => rd'[q] = rd[q]
      BY <1>1, <2>2, <2>3
    <2> HIDE DEF y, x
    <2>5. \A v : ViewHeld(x, v) => ViewHeld(y, v)
      BY <2>2 DEF ViewHeld
    <2>6. Follows(y, win)
      BY <1>1, <1>3, <2>1, <2>2, <2>5
      DEF Follows, NotAhead, Counted, Justified, Holding
    <2>. QED
      BY <2>4, <2>6 DEF win
  <1>16. ASSUME ResizeManifest(r) PROVE Kept
    <2>1. /\ x.at = "resize" /\ x.man.generation < x.now.generation
          /\ x.man.generation < dir.man.generation
          /\ Cardinality(Upto(win, x.man.generation)) >= x.attempt
      BY <1>1, <1>16 DEF ResizeManifest, Follows, Counted, Holding
    <2>2. Superseded(r)
      BY <1>4, <2>1 DEF Superseded
    <2>3. CASE SameLength(x.now, dir)
      <3>1. Retry(r)
        BY <1>16, <2>2, <2>3 DEF ResizeManifest
      <3>2. Cardinality(win) >= x.attempt + 1
        BY <1>4, <1>6, <1>7, <2>1
      <3>. QED
        BY <1>1, <1>2, <3>1, <3>2, RetryCounted DEF win
    <2>4. CASE ~ SameLength(x.now, dir)
      BY <1>9, <1>16, <2>4 DEF ResizeManifest
    <2>. QED
      BY <2>3, <2>4
  <1>17. window' = window
    BY DEF Read, Look, AbsentManifest, OpenManifest, SizeManifest, ReadSegment,
           ReopenManifest, ResizeManifest
  <1>. QED
    BY <1>10, <1>11, <1>12, <1>13, <1>14, <1>15, <1>16, <1>17 DEF Read

LEMMA StepReaders ==
  ASSUME Ordered
  PROVE  RInv /\ IInv' /\ [RNext]_<<hvars, rvars>> => ReadersInv'
  <1> SUFFICES ASSUME RInv, IInv', [RNext]_<<hvars, rvars>> PROVE ReadersInv'
    OBVIOUS
  <1>0. IInv /\ HistoryInv /\ ReadersTypeOK /\ \A r \in Readers : Follows(rd[r], window[r])
    BY DEF RInv, ReadersInv
  <1>1. CASE WriterMoves
    <2>1. rd' = rd /\ window' = [r \in Readers |-> window'[r]]
      BY <1>1 DEF WriterMoves
    <2>2. \A r \in Readers : /\ window'[r] \in SUBSET AllViews
                             /\ IsFiniteSet(window'[r])
                             /\ Follows(rd[r], window[r])'
      BY <1>0, <1>1, WriterLeavesReader
    <2>. QED
      BY <1>0, <2>1, <2>2 DEF ReadersInv, ReadersTypeOK
  <1>2. CASE MachineStops
    <2>1. /\ rd' = [r \in Readers |-> NotReading]
          /\ window' = [r \in Readers |-> {}]
      BY <1>2 DEF MachineStops
    <2>2. NotReading \in ReaderRecords
      BY BoundAssumption, GotType
      DEF NotReading, ReaderRecords, Stations, Outcomes, NoManifest, Manifests
    <2>3. /\ rd' \in [Readers -> ReaderRecords]
          /\ window' \in [Readers -> SUBSET AllViews]
          /\ \A r \in Readers : IsFiniteSet(window'[r])
      BY <2>1, <2>2, FS_EmptySet
    <2>4. \A r \in Readers : rd'[r].at = "idle" /\ rd'[r].outcome = "none"
      BY <2>1 DEF NotReading
    <2>. QED
      BY <2>3, <2>4
      DEF ReadersInv, ReadersTypeOK, Follows, Counted, Justified, Holding
  <1>3. ASSUME NEW r \in Readers, ReaderMoves(r) PROVE ReadersInv'
    <2>1. /\ rd' \in [Readers -> ReaderRecords]
          /\ window' \in [Readers -> SUBSET AllViews]
          /\ IsFiniteSet(window'[r]) /\ Follows(rd'[r], window'[r])
          /\ \A q \in Readers : q # r => rd'[q] = rd[q] /\ window'[q] = window[q]
      <3>1. CASE Begin(r)
        BY <3>1, BeginKeeps
      <3>2. CASE Read(r)
        BY <1>0, <3>2, ReadKeeps DEF ReadersTypeOK
      <3>. QED
        BY <1>3, <3>1, <3>2 DEF ReaderMoves
    <2>2. \A q \in Readers : IsFiniteSet(window'[q]) /\ Follows(rd'[q], window'[q])
      BY <1>0, <2>1 DEF ReadersTypeOK
    <2>3. dir' = dir /\ Used' = Used
      BY <1>3 DEF ReaderMoves, hvars, vars, Used
    <2>4. ASSUME NEW q \in Readers PROVE Follows(rd[q], window[q])'
      BY <2>2, <2>3 DEF Follows, NotAhead, ViewHeld, ReadFrom, Counted, Justified
    <2>. QED
      BY <2>1, <2>2, <2>4 DEF ReadersInv, ReadersTypeOK
  <1>4. CASE UNCHANGED <<hvars, rvars>>
    BY <1>0, <1>4
    DEF hvars, vars, rvars, ReadersInv, ReadersTypeOK, Follows, NotAhead, ViewHeld,
        ReadFrom, Counted, Justified, Used
  <1>. QED
    BY <1>1, <1>2, <1>3, <1>4 DEF RNext

LEMMA InitReaders == RInit => ReadersInv
  <1> SUFFICES ASSUME RInit PROVE ReadersInv
    OBVIOUS
  <1>1. /\ rd = [r \in Readers |-> NotReading]
        /\ window = [r \in Readers |-> {}]
    BY DEF RInit
  <1>2. NotReading \in ReaderRecords
    BY BoundAssumption, GotType
    DEF NotReading, ReaderRecords, Stations, Outcomes, NoManifest, Manifests
  <1>3. \A r \in Readers : rd[r].at = "idle" /\ rd[r].outcome = "none"
    BY <1>1 DEF NotReading
  <1>. QED
    BY <1>1, <1>2, <1>3, FS_EmptySet
    DEF ReadersInv, ReadersTypeOK, Follows, Counted, Justified, Holding

LEMMA ReadersInvariant ==
  ASSUME Ordered
  PROVE  RSpec => []RInv
  <1>1. RInit => RInv
    BY InitType, InitLock, InitSound, InitHistory, InitReaders
    DEF RInit, HInit, RInv, IInv
  <1>2. RInv /\ [RNext]_<<hvars, rvars>> => RInv'
    <2> SUFFICES ASSUME RInv, [RNext]_<<hvars, rvars>> PROVE RInv'
      OBVIOUS
    <2>1. [Next]_vars /\ (Remember \/ UNCHANGED hvars)
      BY ComposedStep
    <2>2. IInv'
      BY <2>1, StepType, StepExclusive, StepCurrent, StepSoundInv
      DEF RInv, IInv, LockInv
    <2>3. HistoryInv'
      BY <2>1, StepHistory DEF RInv, IInv
    <2>4. ReadersInv'
      BY <2>2, StepReaders
    <2>. QED
      BY <2>2, <2>3, <2>4 DEF RInv
  <1>. QED
    BY <1>1, <1>2, PTL DEF RSpec

\* A reader takes no lock, and yet the index it returns is one generation that
\* was visible while it read, file by file, whatever writers did between any
\* two of the files it opened.
THEOREM ReadersSeeSnapshots ==
  ASSUME Ordered
  PROVE  RSpec => []SnapshotRead
  <1>1. RInv => SnapshotRead
    BY DEF RInv, ReadersInv, Follows, Justified, SnapshotRead
  <1>. QED
    BY <1>1, ReadersInvariant, PTL

\* A reader never takes for damage what a writer retired under it, and gives
\* up only after three generations came between.
THEOREM ReadersErrTruly ==
  ASSUME Ordered
  PROVE  RSpec => []ErrorsJustified
  <1>1. RInv => ErrorsJustified
    BY DEF RInv, ReadersInv, Follows, Justified, ErrorsJustified
  <1>. QED
    BY <1>1, ReadersInvariant, PTL
=============================================================================
