------------------------------ MODULE FullBuild ------------------------------
(***************************************************************************)
(* A full build (src/index/full_index_build.cpp): files are parsed in      *)
(* waves of concurrent workers, committed in scan order into a batch that  *)
(* is flushed to temporary segments, and the segments are merged level by  *)
(* level into the candidate that is published.  Workers and the building   *)
(* thread charge one memory budget; temporary files are charged to one     *)
(* workspace.                                                              *)
(*                                                                         *)
(* Memory and disk are counted in small units.  A file of the scan is a    *)
(* record: grow lists what its parser reserves, step by step; kept is what *)
(* the batch retains of it; disk is what it takes in a segment.  Documents *)
(* are named by their position in the scan.                                *)
(***************************************************************************)
EXTENDS Integers, Sequences, SequencesExt, FiniteSetsExt

CONSTANTS
  Scans,    \* the lists of files a scan may return
  Options,  \* the option records of IndexBuilder
  Header    \* bytes of a segment that holds no document

\* A parser reserves before it reads, and its peak only grows.
Files ==
  {f \in [grow : Seq(Nat), kept : Nat, disk : Nat] :
     /\ f.grow # <<>>
     /\ \A i, j \in DOMAIN f.grow : i <= j => f.grow[i] <= f.grow[j]}

OptionRecords ==
  [memory : Nat, temporary : Nat, flush : Nat, workers : Nat, fanIn : Nat,
   elsewhere : BOOLEAN]

ASSUME BuildAssumption ==
  /\ Scans \subseteq Seq(Files)
  /\ Options \subseteq {o \in OptionRecords :
                          /\ o.memory > 0 /\ o.temporary > 0 /\ o.flush > 0
                          /\ o.workers > 0 /\ o.fanIn >= 2}
  /\ Header \in Nat \ {0}

VARIABLES
  scan, opt,   \* the files found and the options, fixed for a build
  pc, back,    \* the step of the building thread; where flush returns to
  begin, next, \* the wave starts at begin; the loop over it is at next
  worker,      \* file -> what has become of its parser
  grown, held, \* file -> steps parsed, and bytes its reservation charges
  fatal,       \* a worker of the wave exceeded the budget
  errors,      \* document_errors
  active,      \* the batch: documents_ and index_
  segments,    \* completed temporary segments, in document order
  charge,      \* the reservations of the building thread
  used,        \* BuildMemoryBudget::used_bytes_
  disk,        \* the workspace: file name -> bytes
  space,       \* BuildWorkspace::used_bytes_
  level,       \* the merge level that is running
  candidate,   \* the documents of candidate.idx
  why          \* why the build failed

files == <<scan, opt>>
parsing == <<worker, grown, held>>
memory == <<used, charge>>
workspace == <<disk, space>>
vars == <<files, pc, back, begin, next, parsing, fatal, errors, active,
          segments, memory, workspace, level, candidate, why>>

-----------------------------------------------------------------------------
(* The memory budget. *)

Holders == {"metadata", "active", "headroom", "merge", "manifest"}

Total(f) == FoldFunction(+, 0, f)

\* Mutant of Others: the caller's old charge is not deducted.
BugOthers(current) == used

\* BuildMemoryBudget::resize replaces one charge by another under the lock.
Others(current) == used - current
Fits(current, requested) == Others(current) + requested <= opt.memory

\* A reservation of the building thread is resized, or the build fails.
Resize(h, bytes) ==
  /\ charge' = [charge EXCEPT ![h] = bytes]
  /\ used' = Others(charge[h]) + bytes

Fail(reason) == pc' = "unwind" /\ why' = reason

\* What refresh_metadata_memory charges: paths, diagnostics, descriptors.
Metadata(errs, segs) == Len(scan) + Len(errs) + 2 * Len(segs)

-----------------------------------------------------------------------------
(* The workspace. *)

Bytes(docs) == Header + Total([i \in DOMAIN docs |-> scan[docs[i]].disk])

Remaining == opt.temporary - space

Put(name, bytes) == [n \in DOMAIN disk \cup {name} |->
                       IF n = name THEN bytes ELSE disk[n]]
Without(names) == [n \in DOMAIN disk \ names |-> disk[n]]

SegmentName(n) == <<"segment", n, 0>>
CandidateName == <<"candidate", 0, 0>>

\* Mutant of MergeName: the name does not say which pass writes it.
BugMergeName(pass, group) == <<"merge", 0, group>>

MergeName(pass, group) == <<"merge", pass, group>>

-----------------------------------------------------------------------------
(* A wave of parsers.  Each worker resizes its reservation as it reads.     *)

Lower(a, b) == IF a < b THEN a ELSE b
WaveEnd == Lower(begin + opt.workers - 1, Len(scan))
Wave == begin .. WaveEnd

\* The loop over the wave goes on, or ends in step to.
LoopTo(to) ==
  IF next < WaveEnd THEN next' = next + 1 /\ UNCHANGED pc
                 ELSE next' = begin /\ pc' = to

StartWorker ==
  /\ pc = "start"
  /\ worker' = [worker EXCEPT ![next] = "running"]
  /\ LoopTo("join")
  /\ UNCHANGED <<files, back, begin, grown, held, fatal, errors, active,
                 segments, memory, workspace, level, candidate, why>>

\* Mutant of Released: the charge of a parser that throws is kept.
BugReleased(i) == 0

\* ~MemoryReservation of a document that is given up.
Released(i) == held[i]

Ends(i, as) ==
  /\ worker' = [worker EXCEPT ![i] = as]
  /\ held' = [held EXCEPT ![i] = 0]
  /\ used' = used - Released(i)
  /\ UNCHANGED <<grown, charge>>

Running(i) == worker[i] = "running"

\* The next token does not fit: MemoryLimitExceeded leaves the task.
Reserve(i) ==
  /\ Running(i) /\ grown[i] < Len(scan[i].grow)
  /\ LET bytes == scan[i].grow[grown[i] + 1] IN
       IF Fits(held[i], bytes)
       THEN /\ held' = [held EXCEPT ![i] = bytes]
            /\ grown' = [grown EXCEPT ![i] = grown[i] + 1]
            /\ used' = Others(held[i]) + bytes
            /\ UNCHANGED <<worker, charge>>
       ELSE Ends(i, "refused")
  /\ UNCHANGED <<files, pc, back, begin, next, fatal, errors, active,
                 segments, workspace, level, candidate, why>>

\* The file is unreadable, invalid or changing (ParseFailure), or the task
\* throws something parse_build_candidate does not catch.
ParseFails(i) ==
  /\ Running(i)
  /\ \E as \in {"failed", "thrown"} : Ends(i, as)
  /\ UNCHANGED <<files, pc, back, begin, next, fatal, errors, active,
                 segments, workspace, level, candidate, why>>

Parsed(i) ==
  /\ Running(i) /\ grown[i] = Len(scan[i].grow)
  /\ worker' = [worker EXCEPT ![i] = "parsed"]
  /\ UNCHANGED <<files, pc, back, begin, next, grown, held, fatal, errors,
                 active, segments, memory, workspace, level, candidate, why>>

Parser(i) == Reserve(i) \/ ParseFails(i) \/ Parsed(i)

\* Mutant of Ready: future::get is taken to return for parsed documents only.
BugReady(i) == worker[i] = "parsed"

\* future::get of the next worker returns.
Ready(i) == worker[i] \notin {"no", "running"}

Join ==
  /\ pc = "join" /\ Ready(next)
  /\ IF worker[next] = "thrown"
     THEN Fail("thrown") /\ UNCHANGED <<next, fatal>>
     ELSE /\ fatal' = (fatal \/ worker[next] = "refused")
          /\ LoopTo("record") /\ UNCHANGED why
  /\ UNCHANGED <<files, back, begin, parsing, errors, active, segments,
                 memory, workspace, level, candidate>>

-----------------------------------------------------------------------------
(* commit_document_wave. *)

\* First loop: diagnostics, which are charged.
Record ==
  /\ pc = "record"
  /\ IF worker[next] # "failed"
     THEN LoopTo("rethrow") /\ UNCHANGED <<errors, memory, why>>
     ELSE /\ errors' = Append(errors, next)
          /\ LET bytes == Metadata(errors', segments) IN
               IF Fits(charge.metadata, bytes)
               THEN /\ Resize("metadata", bytes)
                    /\ LoopTo("rethrow") /\ UNCHANGED why
               ELSE Fail("memory") /\ UNCHANGED <<next, memory>>
  /\ UNCHANGED <<files, back, begin, parsing, fatal, active, segments,
                 workspace, level, candidate>>

\* Mutant of Rethrows: a deferred failure is forgotten.
BugRethrows(f) == FALSE

\* if (fatal_error != nullptr) rethrow_exception.
Rethrows(f) == f

Rethrow ==
  /\ pc = "rethrow"
  /\ IF Rethrows(fatal) THEN Fail("memory") ELSE pc' = "commit" /\ UNCHANGED why
  /\ UNCHANGED <<files, back, begin, next, parsing, fatal, errors, active,
                 segments, memory, workspace, level, candidate>>

\* The outcome at next is a document: also the empty one a refused task
\* leaves in its slot.
HasDocument(i) == worker[i] \in {"parsed", "refused"}

\* SegmentBatch::commit: the document and its commit must fit side by side,
\* if need be after a flush.
TakeHeadroom ==
  /\ pc = "commit" /\ HasDocument(next)
  /\ IF Fits(charge.headroom, held[next])
     THEN Resize("headroom", held[next]) /\ pc' = "store" /\ UNCHANGED <<back, why>>
     ELSE /\ IF active = <<>> THEN Fail("memory") /\ UNCHANGED back
                              ELSE pc' = "flush" /\ back' = "commit" /\ UNCHANGED why
          /\ UNCHANGED memory
  /\ UNCHANGED <<files, begin, next, parsing, fatal, errors, active,
                 segments, workspace, level, candidate>>

Retained(docs) == Total([i \in DOMAIN docs |-> scan[docs[i]].kept])

Higher(a, b) == IF a < b THEN b ELSE a
Threshold == Lower(opt.flush, Higher(1, opt.memory \div 2))

\* commit_document; its reservation ends, the batch is charged for what it
\* retains, and only then is the headroom given back.
Store ==
  /\ pc = "store"
  /\ active' = Append(active, next)
  /\ held' = [held EXCEPT ![next] = 0]
  /\ LET bytes == Retained(active')
         rest == used - held[next] - charge.active
     IN IF rest + bytes > opt.memory
        THEN Fail("memory") /\ used' = used - held[next] /\ UNCHANGED <<charge, back>>
        ELSE /\ charge' = [charge EXCEPT !.active = bytes, !.headroom = 0]
             /\ used' = rest + bytes - charge.headroom
             /\ IF bytes >= Threshold THEN pc' = "flush" /\ back' = "next"
                                      ELSE pc' = "next" /\ UNCHANGED back
             /\ UNCHANGED why
  /\ UNCHANGED <<files, begin, next, worker, grown, fatal, errors, segments,
                 workspace, level, candidate>>

\* begin += count.
NextWave == WaveEnd + 1

\* The loop over the outcomes and the loop over the waves.
NextFile ==
  /\ pc = "next" \/ (pc = "commit" /\ ~ HasDocument(next))
  /\ IF next < WaveEnd
     THEN next' = next + 1 /\ pc' = "commit" /\ UNCHANGED begin
     ELSE /\ next' = NextWave /\ begin' = NextWave
          /\ pc' = IF WaveEnd = Len(scan) THEN "assemble" ELSE "start"
  /\ UNCHANGED <<files, back, parsing, fatal, errors, active, segments,
                 memory, workspace, level, candidate, why>>

\* A bounded write, the new descriptor, the batch emptied and uncharged, the
\* metadata charged again.
Flush ==
  /\ pc = "flush"
  /\ IF active = <<>>
     THEN pc' = back /\ UNCHANGED <<active, segments, memory, workspace, why>>
     ELSE LET bytes == Bytes(active)
              name == SegmentName(Len(segments))
              more == Append(segments, [name |-> name, docs |-> active])
              rest == used - charge.active - charge.metadata
          IN IF bytes > Remaining
             THEN /\ Fail("space")
                  /\ UNCHANGED <<active, segments, memory, workspace>>
             ELSE /\ disk' = Put(name, bytes) /\ space' = space + bytes
                  /\ segments' = more /\ active' = <<>>
                  /\ IF rest + Metadata(errors, more) > opt.memory
                     THEN /\ Fail("memory")
                          /\ charge' = [charge EXCEPT !.active = 0]
                          /\ used' = used - charge.active
                     ELSE /\ charge' = [charge EXCEPT !.active = 0,
                                          !.metadata = Metadata(errors, more)]
                          /\ used' = rest + Metadata(errors, more)
                          /\ pc' = back /\ UNCHANGED why
  /\ UNCHANGED <<files, back, begin, next, parsing, fatal, errors, level, candidate>>

-----------------------------------------------------------------------------
(* prepare_build_candidate. *)

\* The last batch is flushed first.
Assemble ==
  /\ pc = "assemble"
  /\ pc' = "flush" /\ back' = "candidate"
  /\ UNCHANGED <<files, begin, next, parsing, fatal, errors, active, segments,
                 memory, workspace, level, candidate, why>>

MergeBytes == Lower(Len(segments), opt.fanIn)

\* No segment: an empty one is written.  One: it is renamed.  More: merged.
MakeCandidate ==
  /\ pc = "candidate"
  /\ CASE segments = <<>> ->
            IF Header > Remaining
            THEN Fail("space") /\ UNCHANGED <<memory, workspace, level, candidate>>
            ELSE /\ disk' = Put(CandidateName, Header) /\ space' = space + Header
                 /\ candidate' = <<>> /\ pc' = "publish"
                 /\ UNCHANGED <<memory, level, why>>
       [] Len(segments) = 1 ->
            /\ disk' = [n \in {CandidateName} |-> disk[segments[1].name]]
            /\ candidate' = segments[1].docs /\ pc' = "publish"
            /\ UNCHANGED <<memory, space, level, why>>
       [] OTHER ->
            /\ IF Fits(0, MergeBytes)
               THEN /\ Resize("merge", MergeBytes) /\ pc' = "level"
                    /\ level' = [level EXCEPT !.sources = segments]
                    /\ UNCHANGED why
               ELSE Fail("memory") /\ UNCHANGED <<memory, level>>
            /\ UNCHANGED <<workspace, candidate>>
  /\ UNCHANGED <<files, back, begin, next, parsing, fatal, errors, active, segments>>

\* The sources of the next group, and where the group ends.
GroupEnd == Lower(level.taken + opt.fanIn, Len(level.sources))
Group == SubSeq(level.sources, level.taken + 1, GroupEnd)

LastLevel == Len(level.sources) <= opt.fanIn
LevelDone == level.taken = Len(level.sources)

NextLevel ==
  /\ pc = "level" /\ LevelDone
  /\ level' = [sources |-> level.merged, merged |-> <<>>, taken |-> 0,
               pass |-> level.pass + 1]
  /\ UNCHANGED <<files, pc, back, begin, next, parsing, fatal, errors, active,
                 segments, memory, workspace, candidate, why>>

\* A group of one goes to the next level as it is.
PassOn ==
  /\ pc = "level" /\ ~ LevelDone /\ ~ LastLevel /\ Len(Group) = 1
  /\ level' = [level EXCEPT !.merged = Append(@, Group[1]), !.taken = GroupEnd]
  /\ UNCHANGED <<files, pc, back, begin, next, parsing, fatal, errors, active,
                 segments, memory, workspace, candidate, why>>

DocsOf(group) == FlattenSeq([i \in DOMAIN group |-> group[i].docs])
InputBytes(group) == Total([i \in DOMAIN group |-> disk[group[i].name]])

\* Mutant of MergeNeed: room for the output is required, not for the spools.
BugMergeNeed(group) == InputBytes(group)

\* require_additional: the inputs once for the spools, once for the output.
MergeNeed(group) == 2 * InputBytes(group)

\* What merge_index_files had on disk beside its inputs: spools and output.
MergePeak(group) == (Bytes(DocsOf(group)) - Header) + Bytes(DocsOf(group))

\* merge_segment_group: the peak is noted when the merge is over; then the
\* output is added and the inputs are removed.
MergeGroup ==
  /\ pc = "level" /\ ~ LevelDone
  /\ LastLevel \/ Len(Group) > 1
  /\ LET name == IF LastLevel THEN CandidateName
                              ELSE MergeName(level.pass, Len(level.merged))
         bytes == Bytes(DocsOf(Group))
     IN IF MergeNeed(Group) > Remaining
        THEN Fail("space") /\ UNCHANGED <<workspace, level>>
        ELSE IF MergePeak(Group) > Remaining
             THEN Fail("late") /\ UNCHANGED <<workspace, level>>
             ELSE /\ disk' = Put(name, bytes) /\ space' = space + bytes
                  /\ level' = [level EXCEPT
                       !.merged = Append(@, [name |-> name, docs |-> DocsOf(Group)])]
                  /\ pc' = "remove" /\ UNCHANGED why
  /\ UNCHANGED <<files, back, begin, next, parsing, fatal, errors, active,
                 segments, memory, candidate>>

RemoveInputs ==
  /\ pc = "remove"
  /\ disk' = Without({Group[i].name : i \in DOMAIN Group})
  /\ space' = space - InputBytes(Group)
  /\ IF LastLevel
     THEN /\ candidate' = level.merged[1].docs
          /\ charge' = [charge EXCEPT !.merge = 0] /\ used' = used - charge.merge
          /\ pc' = "publish" /\ UNCHANGED level
     ELSE /\ level' = [level EXCEPT !.taken = GroupEnd]
          /\ pc' = "level" /\ UNCHANGED <<memory, candidate>>
  /\ UNCHANGED <<files, back, begin, next, parsing, fatal, errors, active, segments, why>>

-----------------------------------------------------------------------------
(* Publication and the end. *)

ManifestBytes == 1

\* With a temporary directory elsewhere the candidate is copied beside the
\* index first, which counts as temporary space.
Staged == IF opt.elsewhere THEN disk[CandidateName] + ManifestBytes ELSE ManifestBytes

PublishCandidate ==
  /\ pc = "publish"
  /\ IF ~ Fits(0, ManifestBytes)
     THEN Fail("memory") /\ UNCHANGED memory
     ELSE /\ Resize("manifest", ManifestBytes)
          /\ IF Staged > Remaining THEN Fail("space") ELSE pc' = "leave" /\ UNCHANGED why
  /\ UNCHANGED <<files, back, begin, next, parsing, fatal, errors, active,
                 segments, workspace, level, candidate>>

\* Destructors: the reservations are released, the workspace is removed.
Release ==
  /\ held' = [i \in DOMAIN scan |-> 0]
  /\ charge' = [h \in Holders |-> 0]
  /\ used' = used - Total(held) - Total(charge)
  /\ disk' = <<>>
  /\ UNCHANGED <<files, back, begin, next, worker, grown, fatal, errors, active,
                 segments, space, level, candidate, why>>

Leave == pc = "leave" /\ pc' = "done" /\ Release

\* Mutant of Joined: the futures are dropped without waiting.
BugJoined(i) == TRUE

\* The destructor of a future from std::async waits for its task.
Joined(i) == ~ Running(i)

Unwind ==
  /\ pc = "unwind" /\ \A i \in DOMAIN scan : Joined(i)
  /\ pc' = "failed" /\ Release

\* A thread cannot be started, or a system call of this step fails.
SystemFails ==
  /\ pc \in {"open", "start", "flush", "candidate", "level", "remove", "publish"}
  /\ Fail("system")
  /\ UNCHANGED <<files, back, begin, next, parsing, fatal, errors, active,
                 segments, memory, workspace, level, candidate>>

\* The constructor of the batch charges the metadata.
Open ==
  /\ pc = "open"
  /\ IF Fits(0, Metadata(<<>>, <<>>))
     THEN /\ Resize("metadata", Metadata(<<>>, <<>>))
          /\ pc' = IF scan = <<>> THEN "assemble" ELSE "start"
          /\ UNCHANGED why
     ELSE Fail("memory") /\ UNCHANGED memory
  /\ UNCHANGED <<files, back, begin, next, parsing, fatal, errors, active,
                 segments, workspace, level, candidate>>

Init ==
  /\ scan \in Scans /\ opt \in Options
  /\ pc = "open" /\ back = "next" /\ begin = 1 /\ next = 1
  /\ worker = [i \in DOMAIN scan |-> "no"]
  /\ grown = [i \in DOMAIN scan |-> 0] /\ held = [i \in DOMAIN scan |-> 0]
  /\ fatal = FALSE /\ errors = <<>> /\ active = <<>> /\ segments = <<>>
  /\ charge = [h \in Holders |-> 0] /\ used = 0
  /\ disk = <<>> /\ space = 0
  /\ level = [sources |-> <<>>, merged |-> <<>>, taken |-> 0, pass |-> 0]
  /\ candidate = <<>> /\ why = "none"

Builder ==
  \/ Open \/ StartWorker \/ Join \/ Record \/ Rethrow
  \/ TakeHeadroom \/ Store \/ NextFile \/ Flush
  \/ Assemble \/ MakeCandidate \/ NextLevel \/ PassOn \/ MergeGroup \/ RemoveInputs
  \/ PublishCandidate \/ Leave \/ Unwind

Next == Builder \/ SystemFails \/ \E i \in DOMAIN scan : Parser(i)

Spec == Init /\ [][Next]_vars

\* Threads are scheduled; nothing obliges a system call to fail.
FairSpec ==
  Spec /\ WF_vars(Builder)
       /\ WF_vars(\E i \in DOMAIN scan : Parser(i))

-----------------------------------------------------------------------------
(* Properties. *)

\* The budget's counter is the sum of the live reservations, whatever workers
\* and the building thread interleave and whichever fail, and it never exceeds
\* the limit (BuildMemoryBudget, MemoryReservation).
BudgetExact ==
  /\ used = Total(held) + Total(charge)
  /\ used <= opt.memory

\* The workspace's counter is the sum of the files in it, within its budget;
\* and during a merge those files are the sources not yet consumed and the
\* outputs of the level, no name being written twice (BuildWorkspace,
\* merge_segment_levels).
WorkspaceExact ==
  pc \notin {"done", "failed", "unwind"} =>
    /\ space = Total(disk) /\ space <= opt.temporary
    /\ pc = "level" =>
         LET rest == SubSeq(level.sources, level.taken + 1, Len(level.sources))
             live == rest \o level.merged
         IN /\ DOMAIN disk = {live[i].name : i \in DOMAIN live}
            /\ \A i, j \in DOMAIN live : live[i].name = live[j].name => i = j

\* The peak that a merge notes when it is over was covered by the room it
\* required before: temporary files never exceed the budget unnoticed
\* (merge_segment_group; "Conservative additional bytes required by the
\* operation", index_builder_internal.hpp).
NoLateRefusal == why # "late"

\* In the order of the scan, none twice.
Ascending(s) == \A i, j \in DOMAIN s : i < j => s[i] < s[j]

\* A published candidate holds the documents that could be parsed, once each
\* and in scan order, and every other file has one diagnostic: neither the
\* schedule of the workers nor flushes and merge levels show ("thread
\* scheduling does not change the final index bytes", docs/architecture.md).
InScanOrder ==
  pc = "done" =>
    /\ Ascending(candidate)
    /\ ToSet(candidate) = {i \in DOMAIN scan : worker[i] = "parsed"}
    /\ Ascending(errors)
    /\ ToSet(errors) = {i \in DOMAIN scan : worker[i] = "failed"}
    /\ \A i \in DOMAIN scan : worker[i] \in {"parsed", "failed"}

Demand(i) == scan[i].grow[Len(scan[i].grow)]

\* A parser is refused memory only if its wave, parsed in full, does not fit
\* beside what the building thread holds: no order of the concurrent resizes
\* refuses a wave that fits (BuildMemoryBudget::resize under its mutex).
RefusedOnlyWhenTooBig ==
  pc \in {"start", "join"} /\ (\E i \in Wave : worker[i] = "refused") =>
    Total([i \in Wave |-> Demand(i)]) + Total(charge) > opt.memory

\* When build returns or throws, no parser still runs (they refer to its
\* options and budget) and no byte is still charged.
NoneOutlives ==
  pc \in {"done", "failed"} => used = 0 /\ \A i \in DOMAIN scan : ~ Running(i)

\* A build ends, whatever its workers do (parse_document_wave joins them all).
Terminates == <>(pc \in {"done", "failed"})
=============================================================================
