--------------------------- MODULE IndexDirectory ---------------------------
(***************************************************************************)
(* The index directory of SnowSeek and the writers that publish into it    *)
(* (src/storage/index_directory.cpp).  A directory is a MANIFEST, segment  *)
(* files named by their SegmentId, and recognised temporaries.  A writer   *)
(* holds an exclusive flock for one whole transaction: it removes what an  *)
(* earlier writer left behind, builds a candidate segment, names it, and   *)
(* commits by renaming a new Manifest over the old one.                    *)
(*                                                                         *)
(* A directory change is visible to every process at once, and survives a  *)
(* power loss for certain only after an fsync of the directory.  "images"  *)
(* is the set of directories a power loss may leave: when Ordered, the     *)
(* file system keeps a prefix of the changes made since the last fsync;    *)
(* otherwise each of those changes may be kept or lost on its own.         *)
(***************************************************************************)
EXTENDS Integers, FiniteSets

CONSTANTS
  Writers,        \* processes that may write the index
  NoWriter,       \* the lock is free
  Ordered,        \* does the file system keep directory changes in order?
  MaxSegmentId,   \* numeric_limits<SegmentId>::max()
  MaxGeneration,  \* numeric_limits<uint64_t>::max()
  MaxSession,     \* bound: transactions opened are numbered up to here
  MaxFaults,      \* bound: system calls that fail
  MaxKills,       \* bound: writers killed
  MaxLosses       \* bound: power losses

ASSUME WriterAssumption == NoWriter \notin Writers
ASSUME OrderedAssumption == Ordered \in BOOLEAN
ASSUME BoundAssumption ==
  /\ MaxSegmentId \in Nat \ {0} /\ MaxGeneration \in Nat \ {0}
  /\ MaxSession \in Nat \ {0} /\ MaxFaults \in Nat
  /\ MaxKills \in Nat /\ MaxLosses \in Nat

VARIABLES
  dir,      \* the directory every process sees
  images,   \* the directories a power loss may leave
  durable,  \* files whose bytes have been fsynced
  lock,     \* holder of the flock
  pc,       \* where each writer is
  txn,      \* each writer's IndexDirectoryTransaction
  session,  \* number of the last transaction opened
  spent     \* faults, kills and power losses so far

vars == <<dir, images, durable, lock, pc, txn, session, spent>>

-----------------------------------------------------------------------------
(* Files.  The bytes of a segment are named by the transaction that wrote  *)
(* them; transaction 1 is the earlier release that left a legacy segment.  *)

Torn == -1     \* bytes lost: the file had not been fsynced
Absent == 0
Legacy == 1
Sessions == 2 .. MaxSession

Ids == 1 .. MaxSegmentId
Contents == {Torn, Absent, Legacy} \cup Sessions
Temporaries == {"build", "segment", "manifest"}

NoManifest == [generation |-> 0, next |-> 0, active |-> {}, by |-> 0]
TornManifest == [generation |-> Torn, next |-> 0, active |-> {}, by |-> 0]

\* validate_manifest: the conditions encode_manifest and decode_manifest check.
ValidManifest(m) ==
  /\ m.generation \in 1 .. MaxGeneration
  /\ m.active # {} /\ m.active \subseteq Ids
  /\ \A i \in m.active : i < m.next

Manifests == [generation : -1 .. MaxGeneration, next : 0 .. MaxSegmentId,
              active : SUBSET Ids, by : 0 .. MaxSession]

Directories == [man : Manifests, seg : [Ids -> Contents],
                tmp : SUBSET Temporaries]

\* A segment that load_segment accepts: present, version 2, checksums right.
Readable(c) == c \in Sessions

SegmentFile(s) == <<"segment", s>>
ManifestFile(s) == <<"manifest", s>>
Files == {"segment", "manifest"} \X (0 .. MaxSession)

SegmentsOf(d) == {i \in Ids : d.seg[i] # Absent}

-----------------------------------------------------------------------------
(* Directory operations. *)

LinkSegment(d, i, c) == [d EXCEPT !.seg = [d.seg EXCEPT ![i] = c]]
UnlinkSegment(d, i) == LinkSegment(d, i, Absent)
AddTemporary(d, t) == [d EXCEPT !.tmp = @ \cup {t}]
DropTemporaries(d, T) == [d EXCEPT !.tmp = @ \ T]

\* One directory change: every process sees it, a power loss may undo it.
ChangeDirectory(Op(_)) ==
  /\ dir' = Op(dir)
  /\ images' = images \cup {Op(d) : d \in IF Ordered THEN {dir} ELSE images}

\* fsync of the directory descriptor.
SyncDirectory == images' = {dir}

\* What a power loss leaves of directory d: unsynced bytes are lost.
Settle(d) ==
  [man |-> IF d.man.generation <= 0 \/ ManifestFile(d.man.by) \in durable
           THEN d.man ELSE TornManifest,
   seg |-> [i \in Ids |-> IF d.seg[i] \in Sessions
                             /\ SegmentFile(d.seg[i]) \notin durable
                          THEN Torn ELSE d.seg[i]],
   tmp |-> d.tmp]

-----------------------------------------------------------------------------
(* The transaction a writer runs. *)

NoTxn == [base |-> NoManifest, protected |-> {}, id |-> 0, session |-> 0,
          target |-> {}, external |-> FALSE, retire |-> {}]

Txns == [base : Manifests, protected : SUBSET Ids, id : 0 .. MaxSegmentId,
         session : 0 .. MaxSession, target : SUBSET Ids, external : BOOLEAN,
         retire : SUBSET Ids]

Phases == {"idle", "recover", "opened", "built", "staged", "synced", "named",
           "nameSynced", "manifest", "manifestSynced", "committed", "retire",
           "rollTemporaries", "rollSegment", "rollSync", "finish"}

Goto(w, p) == pc' = [pc EXCEPT ![w] = p]

\* A system call of the transaction fails and the code goes on at phase p.
Fail(w, p) ==
  /\ spent.faults < MaxFaults
  /\ spent' = [spent EXCEPT !.faults = @ + 1]
  /\ Goto(w, p)

\* Mutant of Release: the descriptor leaks and the flock with it.
BugLeakLock(w) ==
  /\ pc' = [pc EXCEPT ![w] = "idle"]
  /\ txn' = [txn EXCEPT ![w] = NoTxn]
  /\ UNCHANGED lock

\* The descriptor closes (end of scope or of process): the flock is gone.
Release(w) ==
  /\ lock' = NoWriter
  /\ pc' = [pc EXCEPT ![w] = "idle"]
  /\ txn' = [txn EXCEPT ![w] = NoTxn]

\* load_current_directory_state: the segments the current state protects.
\* Without a MANIFEST, whatever is found under identifier 1 passes for the
\* fixed segment of the earlier release.
Protected(d) ==
  IF d.man.generation = 0 THEN {1} \cap SegmentsOf(d) ELSE d.man.active

\* choose_transaction_identifiers: one past every identifier seen, and at
\* least the floor the Manifest (or the legacy segment) sets.
Floor(d) ==
  IF d.man.generation # 0 THEN d.man.next
  ELSE IF Protected(d) = {} THEN 1 ELSE 2

Seen(d) == SegmentsOf(d) \cup Protected(d)

\* Mutant of IsNextId: the first identifier that is free.
BugFirstGap(d, id) ==
  /\ id \notin Seen(d) /\ \A i \in 1 .. id - 1 : i \in Seen(d)
  /\ id < MaxSegmentId

\* Mutant of IsNextId: the end of the identifier space is not tested.
BugNoExhaustion(d, id) ==
  /\ id >= Floor(d) /\ \A i \in Seen(d) : i < id
  /\ id = Floor(d) \/ id - 1 \in Seen(d)

IsNextId(d, id) ==
  /\ id >= Floor(d) /\ \A i \in Seen(d) : i < id
  /\ id = Floor(d) \/ id - 1 \in Seen(d)
  /\ id < MaxSegmentId                    \* else the space is exhausted

\* Mutant of StaleSegments: identifiers not yet allocated are not looked at.
BugStaleBelowFloor(d, protected) == {i \in SegmentsOf(d) \ protected : i < Floor(d)}

\* scan_recovery_paths: segments that the current generation does not select.
StaleSegments(d, protected) == SegmentsOf(d) \ protected

-----------------------------------------------------------------------------
(* The constructor: lock, load, scan, allocate, remove leftovers, sync. *)

\* Mutant of AcquireLock: no exclusion.
BugSharedLock(w) == lock' = w

\* open_locked_directory: LOCK_EX | LOCK_NB, a busy lock throws.
AcquireLock(w) == lock = NoWriter /\ lock' = w

\* The members the constructor sets.
Opened(id) ==
  [base |-> dir.man, protected |-> Protected(dir), id |-> id,
   session |-> session + 1, target |-> {}, external |-> FALSE, retire |-> {}]

Open(w) ==
  /\ pc[w] = "idle" /\ session < MaxSession
  /\ AcquireLock(w)
  /\ dir.man.generation >= 0              \* an unreadable Manifest throws
  /\ dir.man.generation < MaxGeneration
  /\ \E id \in Ids :
       /\ IsNextId(dir, id)
       /\ txn' = [txn EXCEPT ![w] = Opened(id)]
  /\ session' = session + 1
  /\ Goto(w, IF StaleSegments(dir, Protected(dir)) = {} /\ dir.tmp = {}
             THEN "opened" ELSE "recover")
  /\ UNCHANGED <<dir, images, durable, spent>>

\* remove_recovery_paths, one path at a time in directory order.
RemoveStale(w) ==
  /\ pc[w] = "recover"
  /\ \/ \E i \in StaleSegments(dir, txn[w].protected) :
          ChangeDirectory(LAMBDA d : UnlinkSegment(d, i))
     \/ \E t \in dir.tmp : ChangeDirectory(LAMBDA d : DropTemporaries(d, {t}))
  /\ UNCHANGED <<durable, lock, pc, txn, session, spent>>

SyncRecovered(w) ==
  /\ pc[w] = "recover"
  /\ StaleSegments(dir, txn[w].protected) = {} /\ dir.tmp = {}
  /\ SyncDirectory
  /\ Goto(w, "opened")
  /\ UNCHANGED <<dir, durable, lock, txn, session, spent>>

\* A removal or the sync fails: the constructor throws and the lock is freed.
RecoverFails(w) ==
  /\ pc[w] = "recover"
  /\ spent.faults < MaxFaults
  /\ spent' = [spent EXCEPT !.faults = @ + 1]
  /\ Release(w)
  /\ UNCHANGED <<dir, images, durable, session>>

-----------------------------------------------------------------------------
(* Between the constructor and publish(): the operation loads the current  *)
(* generation, decides what to publish and writes a candidate segment in a *)
(* workspace, inside the index directory or in an external one.            *)

\* validate_current_segments, and load_active_segments for maintenance.
CurrentReadable(w) ==
  txn[w].base.generation # 0 =>
    \A i \in txn[w].protected : Readable(dir.seg[i])

\* build, compact and replace_active select only the new segment; append_delta
\* keeps the active ones too and needs a current generation.
Targets(t) ==
  {{t.id}} \cup (IF t.base.generation # 0 THEN {t.protected \cup {t.id}} ELSE {})

Prepare(w) ==
  /\ pc[w] = "opened"
  /\ CurrentReadable(w)
  /\ \E target \in Targets(txn[w]), external \in BOOLEAN :
       /\ txn' = [txn EXCEPT ![w].target = target, ![w].external = external]
       /\ IF external THEN UNCHANGED <<dir, images>>
          ELSE ChangeDirectory(LAMBDA d : AddTemporary(d, "build"))
  /\ Goto(w, "built")
  /\ UNCHANGED <<durable, lock, session, spent>>

\* Nothing to publish, or an error before publish(): a copy already staged
\* stays behind.
Abandon(w) ==
  /\ pc[w] \in {"opened", "built", "staged"}
  /\ Goto(w, "finish")
  /\ UNCHANGED <<dir, images, durable, lock, txn, session, spent>>

\* stage_candidate: an external candidate is copied into the directory.
Stage(w) ==
  /\ pc[w] = "built" /\ txn[w].external
  /\ ChangeDirectory(LAMBDA d : AddTemporary(d, "segment"))
  /\ Goto(w, "staged")
  /\ UNCHANGED <<durable, lock, txn, session, spent>>

-----------------------------------------------------------------------------
(* publish(). *)

NewManifest(t) == [generation |-> t.base.generation + 1, next |-> t.id + 1,
                   active |-> t.target, by |-> t.session]

\* validate_publication_request, on the Manifest the caller encoded.
ValidRequest(t) ==
  /\ ValidManifest(NewManifest(t))
  /\ t.id \in t.target
  /\ t.target \ {t.id} \subseteq t.protected

ReadyToPublish(w) ==
  pc[w] = (IF txn[w].external THEN "staged" ELSE "built")

\* Mutant of SyncCandidate: the candidate is not fsynced.
BugUnsyncedCandidate(w) ==
  /\ ReadyToPublish(w) /\ ValidRequest(txn[w])
  /\ Goto(w, "synced")
  /\ UNCHANGED <<dir, images, durable, lock, txn, session, spent>>

SyncCandidate(w) ==
  /\ ReadyToPublish(w) /\ ValidRequest(txn[w])
  /\ durable' = durable \cup {SegmentFile(txn[w].session)}
  /\ Goto(w, "synced")
  /\ UNCHANGED <<dir, images, lock, txn, session, spent>>

\* rename(candidate, final_segment)
NameSegment(w) ==
  /\ pc[w] = "synced"
  /\ LET t == txn[w] IN
       ChangeDirectory(LAMBDA d :
         DropTemporaries(LinkSegment(d, t.id, t.session), {"segment"}))
  /\ Goto(w, "named")
  /\ UNCHANGED <<durable, lock, txn, session, spent>>

\* Mutant of SyncName: the new name is not made durable.
BugUnsyncedName(w) ==
  /\ pc[w] = "named"
  /\ Goto(w, "nameSynced")
  /\ UNCHANGED <<dir, images, durable, lock, txn, session, spent>>

SyncName(w) ==
  /\ pc[w] = "named"
  /\ SyncDirectory
  /\ Goto(w, "nameSynced")
  /\ UNCHANGED <<dir, durable, lock, txn, session, spent>>

CreateManifest(w) ==
  /\ pc[w] = "nameSynced"
  /\ ChangeDirectory(LAMBDA d : AddTemporary(d, "manifest"))
  /\ Goto(w, "manifest")
  /\ UNCHANGED <<durable, lock, txn, session, spent>>

\* write_synced_manifest
SyncManifest(w) ==
  /\ pc[w] = "manifest"
  /\ durable' = durable \cup {ManifestFile(txn[w].session)}
  /\ Goto(w, "manifestSynced")
  /\ UNCHANGED <<dir, images, lock, txn, session, spent>>

\* rename(temporary_manifest, MANIFEST): the sole commit point.
Commit(w) ==
  /\ pc[w] = "manifestSynced"
  /\ LET m == NewManifest(txn[w]) IN
       ChangeDirectory(LAMBDA d :
         DropTemporaries([d EXCEPT !.man = m], {"manifest"}))
  /\ Goto(w, "committed")
  /\ UNCHANGED <<durable, lock, txn, session, spent>>

\* A step before the commit point fails: the catch block rolls back.
PublishFails(w) ==
  /\ \/ ReadyToPublish(w)
     \/ pc[w] \in {"synced", "named", "nameSynced", "manifest", "manifestSynced"}
  /\ Fail(w, "rollTemporaries")
  /\ UNCHANGED <<dir, images, durable, lock, txn, session>>

\* Mutant of Retired: every segment of the old generation.
BugRetireAll(t) == t.protected

\* cleanup_retired_segments: old_active - new_active.
Retired(t) == t.protected \ t.target

\* The commit is made durable; only then are the old segments retired.
SyncCommit(w) ==
  /\ pc[w] = "committed"
  /\ SyncDirectory
  /\ txn' = [txn EXCEPT ![w].retire = Retired(txn[w])]
  /\ Goto(w, "retire")
  /\ UNCHANGED <<dir, durable, lock, session, spent>>

\* The sync fails: a diagnostic, and the old segments are retained.
SyncCommitFails(w) ==
  /\ pc[w] = "committed"
  /\ Fail(w, "finish")
  /\ UNCHANGED <<dir, images, durable, lock, txn, session>>

\* In identifier order; a removal that fails is a diagnostic.
NextRetired(t, i) == i \in t.retire /\ \A j \in t.retire : i <= j

Retire(w) ==
  /\ pc[w] = "retire"
  /\ \E i \in txn[w].retire :
       /\ NextRetired(txn[w], i)
       /\ ChangeDirectory(LAMBDA d : UnlinkSegment(d, i))
       /\ txn' = [txn EXCEPT ![w].retire = @ \ {i}]
  /\ UNCHANGED <<durable, lock, pc, session, spent>>

RetireFails(w) ==
  /\ pc[w] = "retire"
  /\ Fail(w, "retire")
  /\ \E i \in txn[w].retire :
       /\ NextRetired(txn[w], i)
       /\ txn' = [txn EXCEPT ![w].retire = @ \ {i}]
  /\ UNCHANGED <<dir, images, durable, lock, session>>

\* The cleanup is synced when something was removed, best effort.
SyncRetired(w) ==
  /\ pc[w] = "retire" /\ txn[w].retire = {}
  /\ \/ /\ Retired(txn[w]) \subseteq SegmentsOf(dir)
        /\ Goto(w, "finish")
        /\ UNCHANGED <<images, spent>>
     \/ /\ ~ (Retired(txn[w]) \subseteq SegmentsOf(dir))
        /\ \/ SyncDirectory /\ Goto(w, "finish") /\ UNCHANGED spent
           \/ Fail(w, "finish") /\ UNCHANGED images
  /\ UNCHANGED <<dir, durable, lock, txn, session>>

-----------------------------------------------------------------------------
(* rollback_publication: every step is tried, and failures are ignored. *)

RollbackTemporaries(w) ==
  /\ pc[w] = "rollTemporaries"
  /\ \/ /\ ChangeDirectory(LAMBDA d :
             DropTemporaries(d, {"manifest", "segment"}))
        /\ Goto(w, "rollSegment") /\ UNCHANGED spent
     \/ Fail(w, "rollSegment") /\ UNCHANGED <<dir, images>>
  /\ UNCHANGED <<durable, lock, txn, session>>

RollbackSegment(w) ==
  /\ pc[w] = "rollSegment"
  /\ \/ /\ ChangeDirectory(LAMBDA d : UnlinkSegment(d, txn[w].id))
        /\ Goto(w, "rollSync") /\ UNCHANGED spent
     \/ Fail(w, "rollSync") /\ UNCHANGED <<dir, images>>
  /\ UNCHANGED <<durable, lock, txn, session>>

RollbackSync(w) ==
  /\ pc[w] = "rollSync"
  /\ \/ SyncDirectory /\ Goto(w, "finish") /\ UNCHANGED spent
     \/ Fail(w, "finish") /\ UNCHANGED images
  /\ UNCHANGED <<dir, durable, lock, txn, session>>

-----------------------------------------------------------------------------
(* The end of a transaction, and what may happen to it at any time. *)

\* ~BuildWorkspace removes the workspace, then the descriptor closes.
Finish(w) ==
  /\ pc[w] = "finish"
  /\ IF txn[w].external THEN UNCHANGED <<dir, images>>
     ELSE ChangeDirectory(LAMBDA d : DropTemporaries(d, {"build"}))
  /\ Release(w)
  /\ UNCHANGED <<durable, session, spent>>

\* The writer's process is killed: what it wrote stays, the flock goes.
Kill(w) ==
  /\ pc[w] # "idle" /\ spent.kills < MaxKills
  /\ spent' = [spent EXCEPT !.kills = @ + 1]
  /\ Release(w)
  /\ UNCHANGED <<dir, images, durable, session>>

\* The machine stops and comes back with one of the possible images.
PowerLoss ==
  /\ spent.losses < MaxLosses
  /\ spent' = [spent EXCEPT !.losses = @ + 1]
  /\ \E d \in images : dir' = Settle(d) /\ images' = {Settle(d)}
  /\ lock' = NoWriter
  /\ pc' = [w \in Writers |-> "idle"]
  /\ txn' = [w \in Writers |-> NoTxn]
  /\ UNCHANGED <<durable, session>>

-----------------------------------------------------------------------------
\* A new directory, or one holding the fixed segment of the earlier release.
Init ==
  /\ \E legacy \in {{}, {1}} :
       dir = [man |-> NoManifest, tmp |-> {},
              seg |-> [i \in Ids |-> IF i \in legacy THEN Legacy ELSE Absent]]
  /\ images = {dir}
  /\ durable = {}
  /\ lock = NoWriter
  /\ pc = [w \in Writers |-> "idle"]
  /\ txn = [w \in Writers |-> NoTxn]
  /\ session = 1
  /\ spent = [faults |-> 0, kills |-> 0, losses |-> 0]

\* What the code of a transaction does next.
Work(w) ==
  \/ RemoveStale(w) \/ SyncRecovered(w) \/ RecoverFails(w)
  \/ Prepare(w) \/ Abandon(w) \/ Stage(w)
  \/ SyncCandidate(w) \/ NameSegment(w) \/ SyncName(w)
  \/ CreateManifest(w) \/ SyncManifest(w) \/ Commit(w) \/ PublishFails(w)
  \/ SyncCommit(w) \/ SyncCommitFails(w)
  \/ Retire(w) \/ RetireFails(w) \/ SyncRetired(w)
  \/ RollbackTemporaries(w) \/ RollbackSegment(w) \/ RollbackSync(w)
  \/ Finish(w)

Next ==
  \/ \E w \in Writers : Open(w) \/ Work(w) \/ Kill(w)
  \/ PowerLoss

Spec == Init /\ [][Next]_vars

-----------------------------------------------------------------------------
(* Properties. *)

TypeOK ==
  /\ dir \in Directories
  /\ images \subseteq Directories
  /\ durable \subseteq Files
  /\ lock \in Writers \cup {NoWriter}
  /\ pc \in [Writers -> Phases]
  /\ txn \in [Writers -> Txns]
  /\ session \in 0 .. MaxSession
  /\ spent \in [faults : 0 .. MaxFaults, kills : 0 .. MaxKills,
                losses : 0 .. MaxLosses]

\* A directory whose MANIFEST, if there is one, is intact and selects only
\* intact segments.
Complete(d) ==
  d.man.generation # 0 =>
    /\ ValidManifest(d.man)
    /\ \A i \in d.man.active : Readable(d.seg[i])

\* The visible index is complete at every instant: no step of a writer, of a
\* rollback, of a recovery or of a retirement leaves MANIFEST naming a segment
\* that is missing or damaged.
VisibleComplete == Complete(dir)

\* Whenever the power fails, the directory found afterwards holds a complete
\* generation, or none if none was ever committed durably.
CrashComplete == \A d \in images : Complete(Settle(d))

\* Segments with an identifier that the Manifest has not allotted.  Without a
\* Manifest segment 1 is not among them: it is taken for the legacy segment,
\* also when it is what a killed first writer left.
Orphans(d) == {i \in SegmentsOf(d) : i >= Floor(d)}

\* What a new generation may find in its directory: the segments it selects,
\* those it replaces, and the legacy one if it is the first.
Accounted(old, new) ==
  new.active \cup old.active \cup (IF old.generation = 0 THEN {1} ELSE {})

\* What writers leave behind does not accumulate, however many of them are
\* killed or fail in a row and whatever their rollbacks and cleanups leave out:
\* the directory, and every one a power loss may bring back, holds at most one
\* segment that no generation has allotted; and when a generation is committed,
\* nothing that an earlier transaction orphaned or failed to retire is there,
\* and no temporary but the committing writer's own workspace.
LeftoversBounded ==
  /\ [](\A d \in images : \A i, j \in Orphans(d) : i = j)
  /\ [][spent'.losses = spent.losses /\ dir'.man # dir.man =>
          /\ SegmentsOf(dir') \subseteq Accounted(dir.man, dir'.man)
          /\ dir'.tmp \subseteq {"build"}]_vars

\* An update is never lost: a new visible generation is the successor of the
\* one it replaces, whatever the writers' interleaving; only a power loss goes
\* back.
GenerationsAdvance ==
  [][spent'.losses = spent.losses /\ dir'.man # dir.man =>
       /\ dir'.man.generation = dir.man.generation + 1
       /\ dir.man.generation # 0 => dir'.man.next > dir.man.next]_vars

\* "Retirement is safe only after the committed Manifest is durable": no
\* process sees a segment gone while a power loss could bring back a MANIFEST
\* that selects it.
RetireAfterDurable ==
  \A d \in images : \A i \in d.man.active : dir.seg[i] # Absent

\* What readers make of directory d: its generation and segment contents.
View(d) ==
  [generation |-> d.man.generation,
   segments |-> [i \in d.man.active |-> d.seg[i]]]

\* The directory implements the atomic index: renaming MANIFEST is the only
\* step that changes what is visible or what a power loss brings back, apart
\* from the directory syncs that narrow the latter.
Atomic == INSTANCE AtomicIndex WITH
  Contents <- Sessions,
  visible <- View(dir),
  survivors <- {View(Settle(d)) : d \in images}

ImplementsAtomicIndex == Atomic!Spec

\* A transaction ends: whatever fails in it, the lock is free again.
LockReleased == \A w \in Writers : (lock = w) ~> (lock # w)

=============================================================================
