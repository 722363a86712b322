---------------------------- MODULE Maintenance ----------------------------
(***************************************************************************)
(* Incremental maintenance of an index (src/index/index_maintenance.cpp):  *)
(* update, remove, compact, and the automatic compaction of publish_delta, *)
(* while the source files keep changing.                                   *)
(*                                                                         *)
(* One operation runs at a time: IndexDirectory shows that the lock of the *)
(* index directory excludes others.  Publication is one step here, and an  *)
(* operation that fails or is killed leaves the active segments alone;     *)
(* both are what IndexDirectory shows of a transaction.                    *)
(*                                                                         *)
(* A file is its content (text) and its modification time; its size is a   *)
(* function of the content.  Checksums of different contents differ.       *)
(***************************************************************************)
EXTENDS Integers, SequencesExt, FiniteSetsExt

CONSTANTS
  PathOrder,      \* the document paths, in the order of generic_string
  ScanOrder,      \* the same in the scanner's order, which compares component-wise
  Texts,          \* file contents
  Size,           \* content -> bytes
  Times,          \* modification times
  NoFile, NoText, \* absence of a file, of a content or checksum
  Workers,        \* worker_thread_count
  MaxActive,      \* maximum_active_segments of publish_delta
  MaxEdits, MaxOperations    \* bounds: changes of files, operations

ASSUME MaintenanceAssumption ==
  /\ \A order \in {PathOrder, ScanOrder} :
       order \in Seq(Range(PathOrder)) /\ IsInjective(order)
  /\ Range(ScanOrder) = Range(PathOrder)
  /\ Size \in [Texts -> Nat] /\ NoText \notin Texts
  /\ NoFile \notin [text : Texts, time : Times]
  /\ Workers \in Nat \ {0} /\ MaxActive \in Nat \ {0}
  /\ MaxEdits \in Nat /\ MaxOperations \in Nat

VARIABLES
  source,     \* path -> the file there
  active,     \* the active segments, each a sequence of records
  pc,         \* the stage of the running operation
  files,      \* scanned paths that have no fingerprint yet
  scanned,    \* the scanned paths
  probe,      \* the fingerprint being taken
  plan,       \* UpdatePlan::records, as a set
  tasks,      \* position in the sorted plan -> its worker
  delta,      \* the records committed to the delta
  target,     \* the segments the new Manifest will select
  result,     \* PersistentBuildResult
  seen,       \* history: the files a path had during the running update
  edits, operations

operation == <<pc, files, scanned, probe, plan, tasks, delta, target, result>>
vars == <<source, active, operation, seen, edits, operations>>

-----------------------------------------------------------------------------
(* Files and records. *)

Paths == Range(PathOrder)
Files == [text : Texts, time : Times]

Metadata(f) == <<Size[f.text], f.time>>
NoMetadata == <<0, 0>>

Live(p, meta, crc, text) ==
  [path |-> p, live |-> TRUE, meta |-> meta, crc |-> crc, text |-> text]

Tombstone(p) ==
  [path |-> p, live |-> FALSE, meta |-> NoMetadata, crc |-> NoText, text |-> NoText]

\* What s holds at the positions K, in the order of s.
Kept(s, K) ==
  LET upto[n \in 0 .. Len(s)] ==
        IF n = 0 THEN <<>>
        ELSE IF n \in K THEN Append(upto[n - 1], s[n]) ELSE upto[n - 1]
  IN upto[Len(s)]

InOrder(order, paths) == Kept(order, {i \in DOMAIN order : order[i] \in paths})

\* Records of different paths, in an order of the paths.
Arranged(order, records) ==
  LET paths == InOrder(order, {r.path : r \in records})
  IN [i \in DOMAIN paths |-> CHOOSE r \in records : r.path = paths[i]]

\* sort_delta_records: a plan has at most one record for a path.
Sorted(records) == Arranged(PathOrder, records)

\* Mutant of Survives: compaction retains the newest tombstones.
BugKeepTombstones(all, i) == \A j \in i + 1 .. Len(all) : all[j].path # all[i].path

\* Record i is the newest of its path, and live (build_visibility_plan).
Survives(all, i) ==
  all[i].live /\ \A j \in i + 1 .. Len(all) : all[j].path # all[i].path

Surviving(all) == {i \in DOMAIN all : Survives(all, i)}

\* The table that combine_loaded_sets makes of segments; Visibility has its loops.
Resolve(S) == LET all == FlattenSeq(S) IN Kept(all, Surviving(all))

\* publication.read_current_index(): only the running operation changes active.
Current == Resolve(active)
CurrentRecords == LET all == FlattenSeq(active) IN {all[i] : i \in Surviving(all)}
CurrentRecord(p) == CHOOSE r \in CurrentRecords : r.path = p
CurrentPaths == {r.path : r \in CurrentRecords}

PhysicalCount(S) == Len(FlattenSeq(S))

\* result.discarded_records
Discarded(physical, table) == physical - Len(table)

-----------------------------------------------------------------------------
(* Reading a source file: fingerprint_file and parse_document take the     *)
(* metadata, read the content, and take the metadata again.                *)

Fresh == [step |-> "stat", meta |-> NoMetadata, text |-> NoText]

\* The metadata did not change and account for the bytes read.
Stable(f, r) == Metadata(f) = r.meta /\ Size[r.text] = r.meta[1]

\* The next step of a read, when the path holds f.
Sample(f, r) ==
  CASE f = NoFile -> [r EXCEPT !.step = "failed"]
    [] f # NoFile /\ r.step = "stat" -> [r EXCEPT !.step = "read", !.meta = Metadata(f)]
    [] f # NoFile /\ r.step = "read" -> [r EXCEPT !.step = "restat", !.text = f.text]
    [] f # NoFile /\ r.step = "restat" ->
         [r EXCEPT !.step = IF Stable(f, r) THEN "done" ELSE "failed"]

Reading(r) == r.step \in {"stat", "read", "restat"}

-----------------------------------------------------------------------------
(* The stages of an operation. *)

\* PersistentBuildResult; the outcome is "unchanged", "published" or "failed".
NoResult == [kind |-> "none", outcome |-> "none", added |-> 0, modified |-> 0,
             removed |-> 0, unchanged |-> 0, discarded |-> 0,
             compacted |-> FALSE, degraded |-> FALSE]

\* The operation returns or throws; what it computed is dropped.
Ends(outcome) ==
  /\ pc' = "idle"
  /\ files' = <<>> /\ scanned' = {} /\ probe' = Fresh /\ plan' = {}
  /\ tasks' = <<>> /\ delta' = <<>> /\ target' = <<>>
  /\ result' = [NoResult EXCEPT !.kind = result.kind, !.outcome = outcome]
  /\ seen' = [p \in Paths |-> {}]

Throws ==
  /\ Ends("failed")
  /\ UNCHANGED <<source, active, edits, operations>>

\* Any other exception before the commit point (a scan error, a limit, a failing
\* system call), or a kill.
Fails == pc # "idle" /\ Throws

Starts ==
  /\ pc = "idle" /\ operations < MaxOperations
  /\ operations' = operations + 1
  /\ UNCHANGED <<source, active, edits>>

\* update() up to the end of the scan.
BeginUpdate ==
  /\ Starts
  /\ pc' = "fingerprint"
  /\ files' = InOrder(ScanOrder, {p \in Paths : source[p] # NoFile})
  /\ scanned' = Range(files')
  /\ result' = [NoResult EXCEPT !.kind = "update"]
  /\ seen' = [p \in Paths |-> {source[p]}]
  /\ UNCHANGED <<probe, plan, tasks, delta, target>>

\* A document without checksum makes the update rewrite the index.
Migrates == result.kind = "update" /\ \E r \in CurrentRecords : r.crc = NoText

Fingerprint ==
  /\ pc = "fingerprint" /\ files # <<>> /\ Reading(probe)
  /\ probe' = Sample(source[Head(files)], probe)
  /\ UNCHANGED <<source, active, pc, files, scanned, plan, tasks, delta, target,
                 result, seen, edits, operations>>

\* The file is gone, or changed while it was read.
FingerprintFails == pc = "fingerprint" /\ probe.step = "failed" /\ Throws

\* Mutant of Changed: the checksum is not compared.
BugMetadataOnly(old) == old.meta # probe.meta \/ old.crc = NoText

Changed(old) == old.meta # probe.meta \/ old.crc = NoText \/ old.crc # probe.text

\* One turn of plan_update's loop over the scanned files.
Classify ==
  /\ pc = "fingerprint" /\ files # <<>> /\ probe.step = "done"
  /\ LET p == Head(files)
         added == p \notin CurrentPaths
         changed == ~ added /\ Changed(CurrentRecord(p))
     IN IF Migrates \/ added \/ changed
        THEN /\ plan' = plan \cup {Live(p, probe.meta, probe.text, probe.text)}
             /\ result' = IF added THEN [result EXCEPT !.added = @ + 1]
                                   ELSE [result EXCEPT !.modified = @ + 1]
        ELSE /\ result' = [result EXCEPT !.unchanged = @ + 1]
             /\ UNCHANGED plan
  /\ files' = Tail(files) /\ probe' = Fresh
  /\ UNCHANGED <<source, active, pc, scanned, tasks, delta, target, seen, edits, operations>>

\* Mutant of Gone: every path that ever had a record.
BugGoneEver == {r.path : r \in Range(FlattenSeq(active))} \ scanned

\* The visible paths that the scan did not find.
Gone == CurrentPaths \ scanned

\* Mutant of Removed: a rewriting update does not count what it drops.
BugRemoved == IF Migrates THEN 0 ELSE Cardinality(Gone)

\* result.removed_files
Removed == Cardinality(Gone)

\* build_delta is called for these records.
Builds(records) ==
  /\ pc' = "parse" /\ plan' = records
  /\ tasks' = [i \in 1 .. Cardinality(records) |-> Fresh]
  /\ delta' = <<>>

\* The end of plan_update, and update() up to publish_delta.
PlanRemovals ==
  /\ pc = "fingerprint" /\ files = <<>>
  /\ LET tombstones == IF Migrates THEN {} ELSE {Tombstone(p) : p \in Gone}
         records == plan \cup tombstones
     IN IF Migrates \/ records # {}
        THEN /\ Builds(records)
             /\ result' = [result EXCEPT !.removed = Removed]
             /\ UNCHANGED <<files, scanned, probe, target, seen>>
        ELSE Ends("unchanged")
  /\ UNCHANGED <<source, active, edits, operations>>

\* remove(): the patterns match the paths in matches.
BeginRemove(matches) ==
  /\ Starts
  /\ LET gone == matches \cap CurrentPaths
     IN IF gone # {}
        THEN /\ Builds({Tombstone(p) : p \in gone})
             /\ result' = [NoResult EXCEPT !.kind = "remove", !.removed = Cardinality(gone)]
        ELSE /\ result' = [NoResult EXCEPT !.kind = "remove", !.outcome = "unchanged"]
             /\ UNCHANGED <<pc, plan, tasks, delta>>
  /\ UNCHANGED <<files, scanned, probe, target, seen>>

-----------------------------------------------------------------------------
(* build_delta: waves of at most Workers parsers; records are committed in *)
(* path order.                                                             *)

Record(i) == Sorted(plan)[i]

\* Mutant of Wave: a wave starts one record too late.
BugWave == {i \in DOMAIN tasks : i \div Workers = Len(delta) \div Workers}

\* The records of the current wave.
Wave == {i \in DOMAIN tasks : (i - 1) \div Workers = Len(delta) \div Workers}

\* One step of the worker of record i, whatever the others do.
Parse(i) ==
  /\ pc = "parse" /\ i \in Wave /\ Record(i).live /\ Reading(tasks[i])
  /\ tasks' = [tasks EXCEPT ![i] = Sample(source[Record(i).path], @)]
  /\ UNCHANGED <<source, active, pc, files, scanned, probe, plan, delta, target,
                 result, seen, edits, operations>>

\* The parsed document has the fingerprint that was planned.
SameFingerprint(i) ==
  tasks[i].step = "done" /\ tasks[i].meta = Record(i).meta /\ tasks[i].text = Record(i).crc

\* What the delta holds for record i: a committed document, or the tombstone.
Committed(i) ==
  IF Record(i).live
  THEN Live(Record(i).path, tasks[i].meta, tasks[i].text, tasks[i].text)
  ELSE Record(i)

Commit ==
  /\ pc = "parse" /\ Len(delta) < Len(tasks)
  /\ LET i == Len(delta) + 1 IN
       /\ i \in Wave
       /\ Record(i).live => SameFingerprint(i)
       /\ delta' = Append(delta, Committed(i))
  /\ UNCHANGED <<source, active, pc, files, scanned, probe, plan, tasks, target,
                 result, seen, edits, operations>>

\* The first uncommitted record was not parsed, or not as planned.
CommitFails ==
  /\ pc = "parse" /\ Len(delta) < Len(tasks)
  /\ LET i == Len(delta) + 1 IN
       i \in Wave /\ Record(i).live /\ ~ Reading(tasks[i]) /\ ~ SameFingerprint(i)
  /\ Throws

-----------------------------------------------------------------------------
(* publish_delta after the delta is built, compact, and the publication.   *)

Publishing(segments) == pc' = "publish" /\ target' = segments

\* Mutant of CompactionInputs: the delta comes before what it overrides.
BugDeltaFirst == <<delta, Current>>

\* combine_loaded_index_with_segment
CompactionInputs == <<Current, delta>>

Replace ==
  /\ Migrates
  /\ Publishing(<<delta>>)
  /\ result' = [result EXCEPT !.compacted = TRUE]

AppendDelta ==
  /\ ~ Migrates /\ Len(active) < MaxActive
  /\ Publishing(Append(active, delta))
  /\ UNCHANGED result

AutoCompact ==
  /\ ~ Migrates /\ Len(active) >= MaxActive
  /\ LET table == Resolve(CompactionInputs) IN
       /\ Publishing(<<table>>)
       /\ result' = [result EXCEPT !.compacted = TRUE,
            !.discarded = Discarded(PhysicalCount(active) + Len(delta), table)]

\* An exception before or after the obsolete records are counted, for want of
\* memory or temporary space: the delta is published as it is.
AutoCompactFails ==
  /\ ~ Migrates /\ Len(active) >= MaxActive
  /\ Publishing(Append(active, delta))
  /\ \/ result' = [result EXCEPT !.degraded = TRUE]
     \/ result' = [result EXCEPT !.degraded = TRUE,
             !.discarded = Discarded(PhysicalCount(active) + Len(delta),
                                     Resolve(CompactionInputs))]

PublishDelta ==
  /\ pc = "parse" /\ Len(delta) = Len(tasks)
  /\ Replace \/ AppendDelta \/ AutoCompactFails \/ AutoCompact
  /\ UNCHANGED <<source, active, files, scanned, probe, plan, tasks, delta,
                 seen, edits, operations>>

BeginCompact ==
  /\ Starts
  /\ LET discarded == Discarded(PhysicalCount(active), Current)
     IN IF Len(active) = 1 /\ discarded = 0
        THEN /\ result' = [NoResult EXCEPT !.kind = "compact", !.outcome = "unchanged"]
             /\ UNCHANGED <<pc, target>>
        ELSE /\ Publishing(<<Current>>)
             /\ result' = [NoResult EXCEPT !.kind = "compact", !.compacted = TRUE,
                                           !.discarded = discarded]
  /\ UNCHANGED <<files, scanned, probe, plan, tasks, delta, seen>>

\* publish_candidate: IndexDirectory has its steps.
Publish ==
  /\ pc = "publish"
  /\ active' = target
  /\ Ends("published")
  /\ UNCHANGED <<source, edits, operations>>

-----------------------------------------------------------------------------
\* Anyone may create, change, replace or remove a file at any time.
Edit(p) ==
  /\ edits < MaxEdits /\ edits' = edits + 1
  /\ \E f \in (Files \cup {NoFile}) \ {source[p]} :
       /\ source' = [source EXCEPT ![p] = f]
       /\ seen' = IF result.kind = "update" /\ pc # "idle"
                  THEN [seen EXCEPT ![p] = @ \cup {f}] ELSE seen
  /\ UNCHANGED <<active, operation, operations>>

\* An index that was just built, with or without checksums.
Init ==
  /\ source \in [Paths -> Files \cup {NoFile}]
  /\ \E checksums \in BOOLEAN :
       active = << Arranged(ScanOrder,
                     {Live(p, Metadata(source[p]),
                           IF checksums THEN source[p].text ELSE NoText, source[p].text) :
                        p \in {q \in Paths : source[q] # NoFile}}) >>
  /\ pc = "idle" /\ files = <<>> /\ scanned = {} /\ probe = Fresh /\ plan = {}
  /\ tasks = <<>> /\ delta = <<>> /\ target = <<>> /\ result = NoResult
  /\ seen = [p \in Paths |-> {}]
  /\ edits = 0 /\ operations = 0

\* The running operation goes on.
Proceeds ==
  \/ Fingerprint \/ FingerprintFails \/ Classify \/ PlanRemovals
  \/ \E i \in DOMAIN tasks : Parse(i)
  \/ Commit \/ CommitFails \/ PublishDelta \/ Publish

Next ==
  \/ BeginUpdate \/ BeginCompact
  \/ \E matches \in SUBSET Paths : BeginRemove(matches)
  \/ Proceeds \/ Fails
  \/ \E p \in Paths : Edit(p)

Spec == Init /\ [][Next]_vars

\* A thread that is not killed goes on.
FairSpec == Spec /\ WF_vars(Proceeds)

-----------------------------------------------------------------------------
(* Properties. *)

\* What a search finds of path p in segments S: its newest record, if live.
Lookup(S, p) ==
  LET all == FlattenSeq(S)
      at == {i \in DOMAIN all : all[i].path = p}
  IN IF at = {} \/ ~ all[Max(at)].live THEN Tombstone(p) ELSE all[Max(at)]

View(S) == [p \in Paths |-> Lookup(S, p)]
VisibleCount(S) == Cardinality({p \in Paths : View(S)[p].live})

TextOf(f) == IF f = NoFile THEN NoText ELSE f.text

UpdateEnds == result.kind = "update" /\ pc # "idle" /\ pc' = "idle"
Succeeds == result'.outcome \in {"published", "unchanged"}

\* When update succeeds, what the index holds of every path is what the path
\* held at some instant of the update: no stale content passes for unchanged,
\* not even under an unchanged size and time, and no file is lost or kept.
UpdateReflectsSource ==
  [][UpdateEnds /\ Succeeds =>
       \A p \in Paths : Lookup(active', p).text \in {TextOf(f) : f \in seen[p]}]_vars

\* update publishes only if some path was seen to differ from its record, or a
\* record has no checksum: repeating an update changes nothing.
QuietWhenUnchanged ==
  [][UpdateEnds /\ result'.outcome = "published" /\ ~ Migrates =>
       \E p \in Paths : \E f \in seen[p] :
         IF f = NoFile THEN p \in CurrentPaths
         ELSE p \notin CurrentPaths \/ Lookup(active, p) # Live(p, Metadata(f), f.text, f.text)]_vars

\* A publication overlays its delta on what was visible, whether the delta is
\* appended, compacted, or kept after a failed compaction; compact() changes
\* nothing visible; a rewriting update leaves exactly its records.
PublishOverlaysDelta ==
  [][active' # active =>
       View(active') =
         IF result.kind = "compact" THEN View(active)
         ELSE [p \in Paths |-> IF Migrates \/ \E r \in Range(delta) : r.path = p
                               THEN Lookup(<<delta>>, p) ELSE Lookup(active, p)]]_vars

\* The reported counts account for what changed: documents that are added,
\* removed, modified or unchanged, and the records that a compaction, asked for
\* or automatic, leaves out (plan_update, remove, publish_delta, compact).
CountsAddUp ==
  [][active' # active =>
       /\ result.kind # "compact" =>
            VisibleCount(active') = VisibleCount(active) + result.added - result.removed
       /\ result.kind = "update" =>
            result.added + result.modified + result.unchanged = Cardinality(scanned)
       /\ result.compacted /\ ~ Migrates =>
            PhysicalCount(active') + result.discarded =
              PhysicalCount(active) + (IF result.kind = "compact" THEN 0 ELSE Len(delta))]_vars

\* After a compaction one segment is left, with one live record for each path.
CompactedClean ==
  [][active' # active /\ result.compacted =>
       /\ Len(active') = 1
       /\ \A r \in Range(active'[1]) : r.live
       /\ Cardinality({r.path : r \in Range(active'[1])}) = Len(active'[1])]_vars

\* Every operation ends.
OperationEnds == pc # "idle" ~> pc = "idle"

\* What include/snowseek/index.hpp says of discarded_records: the records that
\* a compaction removed.
DiscardedByCompaction ==
  [][active' # active /\ result.discarded > 0 => result.compacted]_vars
=============================================================================
