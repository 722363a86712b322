# A verification development for SnowSeek

SnowSeek is a local full-text search engine for Linux: it scans a source tree,
builds an inverted index in a directory of immutable segment files, maintains it
incrementally, and answers Boolean, prefix, phrase and metadata queries ranked by
BM25.  This directory holds TLA+ models of it, the TLC configurations that check
them and proofs checked by TLAPS.  Source paths below are relative to the
repository root (`src/...` is the implementation, `docs/...` its documentation).

## 1. The system and its hard parts

| Component | State | Operations | Hard behaviour | What makes it correct |
|---|---|---|---|---|
| Index directory transactions (`src/storage/index_directory.cpp`, `index_manifest.cpp`) | `MANIFEST`, `segment-*.idx`, temporaries, the `flock`; per writer the members of `IndexDirectoryTransaction` | open (lock, load, recover), stage, publish, roll back, retire, close | several processes; system calls that fail; kills and power losses between any two steps | one complete generation is visible and survives a crash; no update is lost; leftovers are removed; the lock is released |
| Lock-free readers (`with_active_segments`) | the Manifest of this attempt, the segments read so far | up to three attempts of: read `MANIFEST`, read every segment twice | races with commits and retirement at every open | a result is one complete generation; an error is true |
| Visibility (`build_visibility_plan`, `combine_*`) | document tables, remaps, posting lists | resolve the newest record of each path, renumber, append postings | tombstones, identifiers remapped over segments, position capabilities | exactly the newest live documents, postings strictly increasing |
| Maintenance (`index_maintenance.cpp`) | an update plan, a delta, the active list | update, remove, compact, automatic compaction | files that change while they are read; a compaction that fails must not lose the delta; migration of records without checksum | the visible documents follow the source; compaction changes nothing visible |
| Build pipeline (`full_index_build.cpp`) | waves, a batch, temporary segments | parse in parallel, commit in order, flush, merge by levels | worker timing, deferred fatal errors, fan-in levels | same bytes for any timing; every document once and in order |
| Budgets (`BuildMemoryBudget`, `MemoryReservation`, `BuildWorkspace`) | used and peak bytes | resize, release, add, remove | concurrent reservations, moves, underflow | never over the limit, never leaked |
| Segment merge (`segment_merge.cpp`) | cursors over sorted terms, spools | copy documents, two walks over the terms, assemble | equal terms in several inputs; the two walks must agree; the space of the spools | the bytes that one batch of all documents would have given |
| Segment format and validation (`index_file.cpp`, `index_validation.cpp`) | bytes | write bounded, validate, load | records that each look right and together do not | validation accepts what is written, and nothing that would not be |
| Text reader and tokenizer (`text_reader.cpp`, `tokenizer.cpp`) | bytes carried over a chunk boundary | push, finish | UTF-8 sequences and tokens split at any boundary | the output does not depend on the chunk size |
| Scanner (`scanner.cpp`) | a directory stack | scan | exclusion, errors | every regular file once |
| Query parser and evaluator (`query_parser.cpp`, `query_evaluator.cpp`) | tokens, document sets | parse, evaluate | implicit AND, NOT, depth, prefix limits, phrases without positions, dates before 1970 | what a query matches is what its items mean |
| Search (`search.cpp`, `bm25.cpp`) | a heap of results | score, select top K, present | ties, K at its limit | the K best in a total order |
| Command line (`application.cpp`) | none | parse options, call, print | | |

They interact through the index directory alone: `IndexBuilder::build`, `update`,
`remove` and `compact` each run one `IndexDirectoryTransaction`; `Searcher` and
`stats` load one generation through `with_active_segments`.  Within one build,
worker threads share a `BuildMemoryBudget` and hand parsed documents to the
committing thread in scan order.

## 2. Modules

| Module | What it is |
|---|---|
| `AtomicIndex` | abstract specification: a visible generation, replaced in one step by its successor, and the set of generations a power loss may bring back |
| `IndexDirectory` | the directory, its file system and any number of writers |
| `MCIndexDirectory` | symmetry for its runs |
| `IdentifierHistory` | the same with a history of the identifiers that generations have selected |
| `IndexReaders` | readers composed with the writers of `IndexDirectory` |
| `IndexDirectoryProofs` | theorems about `IndexDirectory`, that it implements `AtomicIndex`, and theorems about `IdentifierHistory` and `IndexReaders` |
| `Visibility` | how active segments become one logical index |
| `MCVisibility` | the segment lists of its run |
| `Maintenance` | update, remove, compact and automatic compaction while source files change |
| `MCMaintenance` | paths and contents for its runs |
| `MaintenanceProofs` | theorems about `Maintenance` |
| `FullBuild` | a full build: waves of parsers, batches, flushes, merge levels, one memory budget, one workspace |
| `MCFullBuild` | its files and options |
| `FullBuildProofs` | theorems about `FullBuild` |
| `SumLemmas` | lemmas about sums over finite sets, flattened sequences, induction on both, and recursive functions on sequences |
| `SegmentFile` | the segment format: the writer, the validating reader, loading |
| `SegmentFileProofs` | theorems about `SegmentFile`, and lemmas about totals, pieces of flattened sequences and orders |
| `SegmentMerge` | merging segments; and a segment of another writer at the reader |
| `SegmentMergeProofs` | theorems about `SegmentMerge` |
| `MCSegmentMerge` | its batches |
| `TextParsing` | one file through reader, tokenizer and the metadata check, while an editor rewrites it |
| `MCTextParsing` | its contents |
| `TextParsingProofs` | theorems about `TextParsing` |
| `Corpus` | the characters of terms, the terms of a text, and where an index has them |
| `QueryParser`, `QueryEvaluator` | from a query's characters to its tree, and from the tree to documents: operators |
| `Ranking` | the heap that keeps the best `top_k`: operators |
| `Results` | from the documents that match to the hits and their snippets |
| `QueryProofs` | theorems about `Visibility`, `Ranking` and `Results`: what a query is answered from, and what is shown |
| `Search` | one search: `Results` behind parser and evaluator, with the reference it is compared with |
| `MCSearch` | its vocabulary and corpus |

`IdentifierHistory` extends `IndexDirectory`, and `IndexReaders` both.  `Maintenance` stands
on two results of the others: an operation has the index to itself from its open to
its publication, which happens at once or not at all (`IndexDirectory`), and loading
segments yields the newest live record of every path (`Visibility`), which
`Maintenance` uses as the operator `Resolve`.  `FullBuild` names documents and counts
bytes; that a merge of segments is the segment of the concatenated documents is what
`SegmentMerge` shows, and that a publication happens at once or not at all
`IndexDirectory`.

### IndexDirectory

State and code:

| Variable | Code |
|---|---|
| `dir` | the directory as every process sees it: `man` is `MANIFEST`, `seg` the content of each `segment-<id>.idx`, `tmp` the kinds of temporaries present (`.snowseek-build-*`, `-segment-*`, `-manifest-*`) |
| `images` | the directories a power loss may leave |
| `durable` | files whose bytes were fsynced (`sync_file`, `write_synced_manifest`) |
| `lock` | the holder of `flock(LOCK_EX)` |
| `pc`, `txn` | the phase of each writer and the members of its `IndexDirectoryTransaction`, with the request it passes to `publish` |
| `session`, `spent` | numbers of transactions, faults, kills and power losses, for the bounds |

A segment's content is abstracted to the transaction that wrote it; a reader needs
to know only which transaction's bytes it got and whether they are intact.

`Open` is the constructor up to the removal of leftovers (everything in it reads
state protected by the lock it has just taken); `RemoveStale` is one
`remove_all` of `remove_recovery_paths`, `SyncRecovered` the sync after it and
`RecoverFails` its exceptions.  `Prepare` is what an operation does between the
constructor and `publish`: load the current generation, create a workspace (in
the index directory, or elsewhere when `temporary_directory` is set), decide what
the new Manifest selects.  `Stage` is `stage_candidate`.  Each step of `publish`
between two points where a crash makes a difference is an action: `SyncCandidate`,
`NameSegment`, `SyncName`, `CreateManifest`, `SyncManifest`, `Commit`,
`SyncCommit`, `Retire`, `SyncRetired`; `PublishFails` and `SyncCommitFails` are
its exceptions, `Rollback*` the three parts of `rollback_publication`, each of
which may fail and is ignored.  `Finish` closes the workspace and the descriptor.
`Kill` and `PowerLoss` may come at any time.

The file system: a change of the directory is visible at once and becomes durable
with an `fsync` of the directory.  With `Ordered` a power loss keeps a prefix of
the changes since the last sync, as journalling file systems do in practice;
without it every change since then may be kept or lost on its own, which is all
that POSIX promises.  Bytes of a file that was never fsynced may be lost
(`Settle`).  The model lets them be lost always: a torn file is the worst case.

Abstractions: writing and validating a candidate (`validate_index_file`) always
succeeds or abandons the transaction; a Manifest that was written is intact unless
lost before its fsync; `remove_recovery_paths` removes in any order (the order of
`directory_iterator` is unspecified); files of other names are left out, as the
code ignores them.

### IndexReaders

A reader's actions are the system calls of one attempt: `Look` (`path_exists`),
`OpenManifest` and `SizeManifest` (the two calls in `read_manifest_file`),
`ReadSegment` (one segment of `load_document_table` in pass 1 and of
`append_remapped_postings` in pass 2), `ReopenManifest` and `ResizeManifest` (the
read in the catch block).  Reading one segment file is one action: a segment file is
immutable and every load goes through one path lookup at a time; an unlinked file
stays readable to the descriptors already open.  `window` is a history variable
with the generations visible since the read began.

### IdentifierHistory

One history variable, `committed`: which generation selected which identifiers, for all
generations up to the visible one.  A power loss that brings back an older Manifest
forgets the generations it undid and no others: those were never durable, their segments
become orphans, and once they are removed their identifiers are given out again.
`IndexReaders` carries the history along: a reader of an old generation looks for its
segments by name.

### Visibility

`segs` is the list of document tables to load, `phase` and `cur` say which of the
three loops is running and which record it dealt with last.  `winners` is the map of
the same name in `build_visibility_plan`, `docs` and `remaps` are `VisibilityPlan`,
`postings` the posting lists of the combined index.  `RecordWinner` and `PlanRecord`
are one turn of the two loops of `build_visibility_plan`; `AppendPostings` is what
`append_remapped_postings` (or the last loop of `combine_loaded_sets`) does with the
postings of one record, with the order that `add_posting` insists on.  The code
appends term by term, the model record by record: a term's list sees the same
identifiers in the same order.  Frequencies, positions and statistics are left out.

### Maintenance

| Variable | Code |
|---|---|
| `source` | the files: content and modification time; the size is a function of the content |
| `active` | the tables of the active segments |
| `pc` | the stage of the operation: taking fingerprints, building the delta, publishing |
| `files`, `scanned`, `probe` | `plan_update`: scanned paths still to do, all of them (`seen` in the code), the fingerprint being taken |
| `plan` | `UpdatePlan::records`; `Sorted` is `sort_delta_records` |
| `tasks`, `delta` | `build_delta`: the workers and the records committed |
| `target` | the active list of the new Manifest, with the candidate in it |
| `result` | `PersistentBuildResult` |
| `seen` | history: the files each path held since the running update began |

A read of a file is three steps, `stat`, the content, `stat` (`Sample`), in
`fingerprint_file` and in each worker of `build_delta`; files change between any two
of them, to any content and time, the old time included.  `Classify` is one turn of
the loop of `plan_update`, `PlanRemovals` its end, `Parse(i)` a step of one worker of
the current wave, `Commit` the join of the next record in path order, `PublishDelta`
the choice between appending, rewriting and automatic compaction.  A record without
checksum (`NoText`) makes `update` rewrite the index (`Migrates`).  `Fails` is any
exception or kill before the commit point: the index is then unchanged.

Paths have two orders.  `ScanOrder` is that of the scanner, which compares paths component
by component; `PathOrder` that of `sort_delta_records`, which compares their generic
strings.  They differ (`a.txt` and `a/b`), and nothing may depend on that.

Abstractions: a content is read at one instant (a file is replaced as a whole; one
rewritten in place while it is read is caught only if its size or time changes);
different contents have different checksums; the scan is one step; tokens are those of
the content; every segment has the position capability of the index, as the code
forces it to.

### FullBuild

| Variable | Code |
|---|---|
| `scan`, `opt` | `scan_result.files` and the options; of a file the model knows what its parser reserves step by step, what the batch retains of it and what it takes in a segment |
| `pc`, `back` | the step of the building thread in `build`, `parse_document_wave`, `commit_document_wave`, `SegmentBatch::commit`, `prepare_build_candidate`, `merge_segment_levels`; where `flush` returns to |
| `begin`, `next` | the cursor of the loop over waves and of the loop inside |
| `worker`, `grown`, `held` | the future of each file, how far its parser is, and the `MemoryReservation` of its document |
| `fatal`, `errors` | `ParseWaveResult::fatal_error`, `document_errors` |
| `active`, `segments`, `candidate` | the batch, the temporary segments, the candidate: their documents in order |
| `used`, `charge` | `BuildMemoryBudget::used_bytes_` and the building thread's reservations: metadata, batch, commit headroom, merge, Manifest |
| `disk`, `space` | the files of the workspace and `BuildWorkspace::used_bytes_` |
| `level` | the merge level: its sources, what it has produced, how many it has taken, its number |

A step of the building thread lies between two points where a worker can see the
difference, that is, between changes of the budget: `StartWorker` is one
`std::async`, `Join` one `future::get`, `Record`, `Rethrow` and `NextFile` the two loops
of `commit_document_wave`, `TakeHeadroom` and `Store` the two halves of
`SegmentBatch::commit` (before and after a possible flush), `MergeGroup` and
`RemoveInputs` the halves of `merge_segment_group`.  `Parser(i)` is a worker:
`Reserve` resizes its reservation or is refused, `ParseFails` is any of its
other ends, `Parsed` its result.  A refused worker leaves the default-constructed
document in its slot (`HasDocument`), as the code does.  `SystemFails` is any other
exception: a thread that does not start, a failing write.  `Unwind` waits for the
workers as the destructors of their futures do.

The two counters `used` and `space` are set as the code computes them; that they
are the sums of what is there is a property, not a definition.

### SegmentFile and SegmentMerge

A segment is a record with the header's fields and the five sections, whose
records are counted with the widths the format gives them; paths and terms are
sequences of bytes.  `Write` is `write_index_file_bounded`, `Accepted` the checks of
`validate_index_file` (`HeaderValid`, `EnvelopeValid`, `DocumentsValid`, `TermsValid`,
`PostingsValid` in their order), `Loaded` what `load_segment` builds.  Checksums match:
damage that a checksum finds is `Torn` in `IndexDirectory`.

`SegmentMerge` writes one segment per batch and merges them: `at` are the cursors,
`LeastTerm` and `Group` one turn of `walk_terms`, `CountTerm` and `CopyTerm` its two
callbacks, `CopyDocuments` one source of `merge_documents`, `spool` the spool files,
`AssembleFile` the end of `merge_index_files`.  With one batch the module takes the
segment to the reader instead, as it is or after `Damage`: one field of one record
off by 1, 4 or 16, one entry lost or repeated, one header field changed, with sections
packed again where they changed length.

### TextParsing

`content` and `modified` are the file, which `Edit` rewrites; `chunk` and `rejecting` the
options; `pending` is `Utf8State`, `token` and `tokens` the tokenizer's session, `hashed`
the bytes the checksum has seen.  `ReadChunk` is one turn of the loop of
`TextReader::read` with everything it calls: `emit_valid_utf8` (`Scan`) and the session
it feeds (`Push`).  `Scan` and `Pushed` are recursive functions on the text that is left, one
step of which is one turn of the loop (`Taken`, `PushOne`).  The reference is written from the definition of UTF-8 (a sequence is
well formed if it is the shortest encoding of a number that is no surrogate), and not
from the tables of the code.  Every write moves the modification time; `Maintenance` has
the case that it does not.

### QueryParser, QueryEvaluator, Ranking, Results, Search

A query is a sequence of characters; a keyword, a filter's prefix, a number and a date
are one character each, since neither lexer nor parser looks into them.  `Lex`,
`Disjunction`, `Conjunction`, `Unary` and `Primary` are the functions of those names, with
the tokens left and the depth as arguments.  `DaysFromCivil`, `UtcDay` and `ParseSize`
are computed as the code does.  `Evaluate` is `Evaluator::evaluate`; a conjunction is
taken in the order of the estimates and left when nothing remains (`Done`).  `Globs`
stands for `fnmatch`.

`Results` and `Search` are `Searcher::search`, cut at the value that `evaluate_query`
returns.  `Results` has what follows: `Rank` for each match in turn, `Sort`, `Present`
with a source file that may hold anything by then.  By itself (`ResultsSpec`, which the
theorems are about) it takes any documents and terms, by `Answered`, and may end a search
that fails or wants no hits, by `Unanswered`.  `Search`, which the run is about, has
`Parse` and `EvaluateQuery`, which call these two with what parser and evaluator return,
and takes the other actions as they are; so each of its steps is a step of `Results` or
leaves its variables alone. `LinesOf` is the loop of `load_snippet` over the characters of
a file, as a recursive function.  The score is an integer stand-in that depends on the
same two counts as BM25; the stand-in has many equal scores, which is where the selection
can go wrong.

The reference starts from the items of the query (words, phrases, filters,
connectives), from which the text is made.  `Meaning` splits a sequence of items at its
last OR, then at its last AND or adjacency, outside parentheses; it shares no operator
with the parser but the calendar's month lengths and the comparison.  A phrase matches if
some choice of positions in order has the span (`Follows`), and the day of a date is found
by counting days (`DayNumber`).

## 3. Runs

| Run | Question | Bounds |
|---|---|---|
| `ordered` | is everything a power loss may leave complete, the visible index included (`CrashComplete`); can what dead writers leave behind add up (`LeftoversBounded`); is no update lost (`GenerationsAdvance`); does the directory implement `AtomicIndex` (`ImplementsAtomicIndex`) | 2 writers, identifiers up to 4, 3 generations, 4 transactions, 2 failing calls, 2 kills, 1 power loss |
| `unordered` | do the directory syncs alone order what a power loss keeps | the same without failing calls and kills, 2 power losses |
| `readers` | is a result one complete generation (`SnapshotRead`), are errors true (`ErrorsJustified`), does a read end (`ReaderEnds`); can an identifier that the visible generation or an earlier one selected name another segment (`CommittedIdsStayUsed`); does every transaction release the lock (`LockReleased`) | 1 writer at a time, 1 reader, 3 transactions, 1 failing call, 1 power loss |
| `visibility` | is what is loaded exactly the newest live records and their postings, for every mixture of records (`VisibleExactly`, `PostingsExact`); can remapping break the order of postings (`OnlyMixedRejected`) | every list of up to 3 segments of up to 2 records, 2 paths, 1 term |
| `maintenance` | does a successful update leave what the files held (`UpdateReflectsSource`), is a repeated one quiet (`QuietWhenUnchanged`), do the counts add up, those of discarded records included (`CountsAddUp`); does the delta arrive whatever becomes of the compaction (`PublishOverlaysDelta`), is a compacted index clean (`CompactedClean`), do the waves advance to the end (`OperationEnds`) | 2 paths, 2 contents of one size, 2 times, 1 change of files, 3 operations, compaction past 2 segments |
| `full_build` | are the accounts of memory and space exact (`BudgetExact`, `WorkspaceExact`); is a merge never surprised by its own peak (`NoLateRefusal`); does the schedule not show (`InScanOrder`), nor refuse memory to a wave that fits (`RefusedOnlyWhenTooBig`); does a build end (`Terminates`), and with its workers (`NoneOutlives`) | up to 5 files of 2 kinds, 2 or 3 workers, fan-in 2 or 3, four memory limits, five limits of space, with and without staging |
| `segment_merge` | is a merge the segment of one batch (`MergedIsOneBatch`); is what is written accepted and loaded as it was (`WrittenReadsBack`), and nothing else (`AcceptedIsCanonical`); is the space it takes covered (`PeakCovered`) | 2 or 3 batches of up to 2 documents of up to 2 tokens; 2 terms, one a prefix of the other, 3 where there are three batches; paths of two lengths; with and without positions |
| `text` | do text, tokens and errors not depend on the chunks, at every instant of the read (`TextIndependentOfChunks`, `TokensAreRuns`, `FailsForItsFaults`); is a parsed file read in one version (`OneVersion`) | all contents of up to 4 bytes over 7 byte classes and 5 longer ones, chunks of 1 to 3, tokens of up to 2, 2 edits |
| `search` | is exactly what means something accepted (`RejectedIffMeaningless`), matched as meant (`MatchesAsMeant`), refused for the two reasons there are, and always for these where a phrase can decide (`RefusedForItsReasons`); are the best of these shown in order (`BestShown`) and snippets well cut (`SnippetsWellCut`) | some 34,000 searches, queries of up to 5 items, 3 indexes of up to 4 documents, depth 3, 2 prefix terms, 8 source files with lines around the limit of 6 characters |
| `retirement`, `manifest_race`, `discarded` | counterexamples, section 6 | minimal |

The four transactions of `ordered` are one more than any property of the directory
relates: a generation, its successor, the recovery after it, and one more publication that
would reuse something.  `readers` has three: a generation, one that a power loss may undo,
and one that would reuse something.  Three commits exhaust the attempts of a reader.  In
`ordered` the limits of identifiers and generations are small enough to be reached, so
that their exhaustion (`IsNextId`, the last conjunct) is part of the run.  One reader is
enough: readers share no state with each other.  One writer is enough in `readers`:
writers exclude each other (`GenerationsAdvance` and its theorem), and the next
transaction is the same model value in another session.  Kills are left to `ordered`; a
power loss stops the writer of `readers` at the same points and leaves less behind.

For `visibility` two paths and three segments have every relation a path's records can
be in: overwritten, removed, re-created after a removal, beside another path's; the
theorems cover the rest.  In `maintenance` a stale record needs one change, between a
fingerprint and a parse or between two operations, and `Times` lets it keep the old time;
`MaxActive` is 2 instead of 16, so that the third
operation of a run meets an index whose automatic compaction failed before.  Two
workers on two paths run concurrently in one wave; a wave that does not begin at its
first record is what `OperationEnds` would notice.  The scanner's order is the reverse of
the plan's.

In `full_build` five files of one segment each, merged by twos, give a level with a group
of one and a second level; with two workers a last wave that is not full.  The limits lie
on both sides of every sum that the code compares with them.  In `segment_merge` a
term that is in all, some or one of the batches and a batch without any is every relation
of the cursors.  The seven bytes of `text` are the classes that UTF-8 tells apart: a
letter, a space, leaders of two, three and four bytes whose second byte is bounded from
below and from above, continuation bytes on either side of a bound; chunks of one to
three bytes cut a sequence everywhere.  In `search` the limits are small enough that
both sides of each are reached.

The visible directory is always one of the images that `CrashComplete` speaks of; `VisibleComplete`,
which says the same of it alone, is stated for theorem `CrashSafety`.  `IndexDirectory`'s type invariant is
checked and proved, and `Visibility`'s is proved with `RemappingAccepted`.

Deadlock is not checked: the bounds on transactions, operations and changes stop every
behaviour, and loading, building, merging, parsing and searching end.

Fairness.  `LockReleased` assumes weak fairness of each writer's `Work`: a
transaction never waits (the lock is taken with `LOCK_NB`; all else is a system
call that returns), so a process that is not killed goes on.  Opening a transaction,
kills and power losses are not fair.  `ReaderEnds` assumes the same of the reader.
`OperationEnds` assumes weak fairness of the operation's own steps,
workers included; failures from outside are not fair, so a wave that gets stuck is not
excused by one.  `Terminates` assumes weak fairness of the building thread and of the
parsers as a whole: threads are scheduled, and each step of a parser is work on a finite
file; failures of system calls are not fair.

## 4. Proofs

`IndexDirectoryProofs` proves, for every set of writers and all bounds:

- `TypeCorrect`: the type invariant.  It is not inductive alone; `InBounds` adds that
  an open transaction's generation and identifier leave room for the Manifest it
  will write.
- `GenerationsChain`: the action property `GenerationsAdvance`.  The invariant is
  `LockInv`: only the holder of the lock is inside a transaction (`Exclusive`), and
  until it commits, the Manifest it read is still the visible one (`Current`).
- `LeftoversStayBounded`: when `Ordered`, `LeftoversBounded`.  The invariant `CleanInv`
  says that a transaction past its recovery sees nothing but its own segment and workspace
  and what it protects (`Clean`), and that no image has two orphans (`OneOrphan`), an orphan
  being a segment whose identifier the image's Manifest has not allotted.  The argument:
  recovery removes all that is not protected before the transaction names its segment, so
  that segment is the only one beyond `next` (`SegmentsStep`, `OrphanStep`); what is there
  at the commit is therefore the transaction's or the base's (`CommitClean`); and a power
  loss leaves a directory that was there before (`OrphansShrink`).  Without a Manifest
  segment 1 counts as the legacy one and is protected, also when it is the orphan of a
  first writer that was killed; `Accounted` has the exception.
- `CrashSafety`: when `Ordered`, `VisibleComplete` and `CrashComplete` always hold.
  The invariant `SoundInv` says that every possible image is `Sound` (its Manifest
  and all it selects have been fsynced), that the visible directory is one of the
  images, and what each transaction has put on disk by each phase (`Progress`).
  The argument: every change adds one image, the visible directory after the change
  (`ImagesStep`); no step touches a segment the Manifest selects (`SelectedKept`);
  only `Commit` changes the Manifest, and at that point its bytes and its segment's
  bytes are durable and the other segments it selects were selected before
  (`SoundStep`); a sound directory survives a power loss as it is (`SettleSound`).

It proves the refinement, `AtomicRefinement`: when `Ordered`, `IndexDirectory`
implements `AtomicIndex` under the mapping of `ImplementsAtomicIndex` (the view of the
visible directory, and the views of the images).  Every step of a writer but
`Commit` is hidden or makes the visible generation durable (`HiddenStep`): the image it
adds looks like the visible directory, and a sync leaves that one alone.  `Commit` publishes the successor (`CommitPublishes`), for which
`GenerationsChain`'s invariant gives the predecessor and `SoundInv` the intact segments;
a power loss maps to one of the abstract survivors because a sound directory loses no
bytes (`ViewSettled`).

And it proves, for every number of readers too:

- `IdentifiersFresh`: the invariant `CommittedIdsStayUsed`, with or without `Ordered`.
  The invariant `HistoryInv` says that a transaction selects only its own identifier and
  those it protects, that no image is of a newer generation than the visible one, and that
  every Manifest, in the directory or in an image, numbers its next identifier past all
  that were selected up to its generation (`Below`).  So the history is in order again
  after a power loss, whichever image it leaves.
- `ReadersSeeSnapshots` and `ReadersErrTruly`: the invariants `SnapshotRead` and
  `ErrorsJustified`, when `Ordered`.  The invariant `ReadersInv` says what a reader holds
  at each system call: the Manifest in its hands is of a generation of its window, and
  every segment that Manifest selects is as that generation has it or gone (`ViewHeld`);
  what it has read is as that generation has it (`ReadFrom`); and every attempt but the
  first was caused by a new generation (`Counted`).  It rests on `IInv` (what the visible
  Manifest selects is intact) and on `HistoryInv` (a name never comes to mean another
  segment).

The conjunction `IInv` was checked with TLC on the states of run `ordered`, and
`HistoryInv`, `ReadersInv` and `CleanInv` on those of `readers`.  Assumptions: `NoWriter` is not a writer, `Ordered` is a Boolean, the
bounds are natural numbers, the first three positive.

`QueryProofs` proves of `Visibility`, for lists of segments of any number and length over any
paths and terms:

- `VisibilityCorrect` and `PostingsCorrect`: the properties `VisibleExactly` and
  `PostingsExact`.
- `RemappingAccepted`: the type invariant and `OnlyMixedRejected`.

The invariant `IInv` says of each loop what it has done with the records up to the
cursor: `WinnersUpTo`, `PlanUpTo`, `PostingsUpTo`.  That the loops go through the
locations in order is in four lemmas about the cursor (`HereLocation`,
`NextSegmentPast`, `LoopEnds`, `SamePast`).  The order of postings
(`AppendPostingsIInv`) follows from the order of the documents: a posting already in a
list belongs to a document before the current one, and earlier documents have smaller
identifiers.  `KeepsVisible` turns the test of the second loop into the definition of
a visible record.  The assumption is that the inputs are lists of segments.  `IInv`
was checked with TLC on the states of run `visibility` first.

It proves of `Ranking`, for candidates with any integer scores and different paths:

- `OfferKeepsBest`: if the heap holds the best `k` of the candidates seen, then after
  one turn of the loop of `rank_documents` it holds the best `k` of those and the new
  one, and these are again candidates.  The argument goes by whether there is room, and
  whether the newcomer beats the worst that is kept, using that `BetterRank` is a strict
  total order (`RankTotal`, `RankTransitive`, `RankIrreflexive`).
- `BestUnique`: there is only one best `k`, so neither the order of arrival nor equal
  scores can show in the hits.

It proves of `Results`, for any indexes whose documents have different paths, whatever the
evaluator hands on, any `top_k`, any source files and any limit on snippets:

- `BestAreShown`: the invariant `BestShown`.  `RankingInv` says that the heap holds the best
  of the matches it was offered (`matches \ rest`), which `OfferKeepsBest` carries through each
  `Rank`; after the last, the hits list the heap in order.  That scores are numbers, for terms
  without bound, is a sum with finitely many arguments that count; that a list in the order of
  `BetterRank` exists and is what `Sorted` chooses is `ListExists` and `SortedLists`.
- `SnippetsAreCutWell`: the invariant `SnippetsWellCut`.  `SnippetInv` says that every
  snippet was made of one of the files with the terms being scored; `LinesType` that a file's
  lines are sequences of its characters (the recursion of `LinesOf` has a solution by
  `RecursionExists`), and `BoundaryIs` that there is a last place to cut.

`ResultsAssumption` says that documents have different paths (`Visibility` proves one record
for a path), that files are sequences of characters, and that an ellipsis is shorter
than the limit, as it is in the code (3 of 240 bytes).  `RankingInv` and `SnippetInv` were
checked with TLC on the states of run `search` before they were proved.  Both theorems hold
of `Search`, for `QueryTerms` that hold what its queries score, since its steps are those
of `Results`.

`FullBuildProofs` proves, for any scans, options and number of workers:

- `BudgetIsExact`, `FittingWavesAreParsed` and `NoParserOutlives`: the invariants
  `BudgetExact`, `RefusedOnlyWhenTooBig` and `NoneOutlives`.  The inductive invariant
  `IInv` adds where workers may run (`Waves`: only in the current wave, between start
  and join) and what they may hold (`Holdings`: nothing before they start and after they
  are committed, never more than their peak).  A resize keeps the account
  (`ResizeKeepsAccount`) because `Others` deducts the old charge; a worker is refused
  only if the others' charges, each at most its file's peak, leave no room
  (`WaveNeeds`).
- `MergesNeedWhatTheyAsk` and `WorkspaceIsExact`: the invariants `NoLateRefusal` and
  `WorkspaceExact`.  The invariant `Work` says which files are on disk and with how many
  bytes, before merging (`Flushed`) and at each point of a level (`Levels`), that their
  names differ (`Distinct`), and why a name that is still to be given is free (`Fresh`:
  segments and earlier passes have other names, and this pass has numbered its outputs).
  `MergeFits` is the arithmetic: the output of a group takes what its inputs take but for
  all their headers save one, so twice the inputs covers spools and output.
- `DocumentsInScanOrder`: the invariant `InScanOrder`.  The invariant `Order` follows the
  documents: joined workers have an outcome (`Settled`), recorded failures are the
  diagnostics in order (`Diagnosed`), committed documents are in the segments and then
  the batch in order (`Batched`), and during merges in the outputs of the level and then
  the sources not yet consumed (`Merged`); the last level has one group (`OneGroup`).
  `Boundaries` says how each step moves the cursors between these.  `PieceOut` is the
  step of a level, for a group merged as for one passed on.

The assumptions on a scan are in `Files`: a file's parser reserves at least once, before
it reads, and its reservation only grows, since it is made for the peaks so far
(`src/index/document_parser.cpp:153` and `:174`); limits and worker
counts are positive and the fan-in at least 2, as the option checks of the code demand; a
segment without documents takes some bytes.  `IInv`, `Work` and `Order` were checked with
TLC on the states of run `full_build` before they were proved.

`MaintenanceProofs` proves, for any paths, contents, times, numbers of workers and of
segments:

- `PublicationOverlays` and `CompactionLeavesNoRest`: the action properties
  `PublishOverlaysDelta` and `CompactedClean`.  They rest on what `Resolve` does:
  `KeptSurviving` says that the records it keeps are live, one for a path, and that a
  search finds in them what it found before; `FoundConcat` that records which come later
  override those before; and `LookupCompacted`, from both, that compacting the loaded index
  with a delta shows what appending the delta would.  The invariant `Publications` follows the
  delta from plan to Manifest: a plan has one record for a path (`Typed`), its documents
  have the checksum of their text (`Plans`), the delta is the sorted plan as far as it is
  committed (`Deltas`: `Committed` drops a parsed document that differs from its
  fingerprint), and the segments to be selected are one of four forms (`Targets`).
- `UpdateIsFaithful` and `UpdateIsQuiet`: `UpdateReflectsSource` and `QuietWhenUnchanged`.
  The invariant `Updates` is about the history `seen`: a fingerprint being taken holds
  metadata and a text that the path held, though perhaps not at the same time (`Probed`);
  what the plan, or the index for a path that is not planned, says of a path already
  compared is what the path held at some time (`Faithful`); a planned path was seen to differ
  from its record (`Differs`).  `ClassifyMeaning` is the case analysis of the comparison:
  equal checksums make the old record faithful whatever the metadata did meanwhile.
- `CountsAreTrue`: `CountsAddUp`.  The invariant `Counts` equates the numbers of the result
  with cardinalities of the paths compared so far; `TargetShows` says which documents the
  new Manifest shows, and the rest is `GainsAndLosses` and the lengths of the segments.

The assumptions are that both orders list the same paths once each, that a size is
a natural number, that a file and a content are not the values for their absence, and that
there is a worker.  That different contents have different checksums is part of the model.
`Publications`, `Updates` and `Counts` were checked with TLC on the states of run
`maintenance` before they were proved.  The type invariant is the conjunct `Typed` of
`Publications`.

`SumLemmas` holds what the proofs need of `FoldFunction` and `FlattenSeq`, which the
models take from the community modules.  The library's induction theorems take an
operator as a parameter and cannot be used; induction is stated over sets instead
(`NatInductive`: a set with 0 and the successors of its members holds all naturals;
`SeqInductive`: the same for sequences and `Append`),
which is first-order.  With it the fold's choice of order is shown not to matter
(`IterPeel`), and sums change by one term where a function does (`SumUpdate`), lose the
terms that are removed (`SumWithout`) and add up over flattened sequences
(`FlattenWeight`).  A recursive function on sequences whose argument gets shorter has a
solution (`RecursionExists`) and only one (`SolvesSame`), by induction on the length.

`SegmentFileProofs` proves, for indexes and files of any size:

- `OneEncoding`: a file whose header tells the lengths of its sections (`Cut`) and that
  `validate_index_file` accepts is what the writer writes of the index loaded from it.
  Section by section (`CanonicalDocs`, `CanonicalTerms`, `CanonicalPosts`): the checks
  determine each record from what is loaded, and leave no byte of a section over.
- `GoodReadsBack`: a file written of a `Good` index is accepted and loads as that index.
  `Good` is what the reader relies on and the writer does not test: terms in order,
  postings of a term in order of documents, positions in order, and frequencies that add
  up to the token counts.

The models define orders by what they are (`Sorted`, a CHOOSE) and totals by a recursive
function (`SumTo`), so the proofs rest on lemmas that these exist and are unique
(`OrderExists`, `OrderUnique`, for integers and for strings; `UpToRec`), and on lemmas
about pieces of flattened sequences (`FlattenAt`, `FlattenCut`, `FlattenPiece`,
`FlattenTwice`).

`SegmentMergeProofs` proves, for any lists of batches:

- `BuildGood`: an index built of parsed documents is `Good`, and the writer takes it.  The
  frequencies of a document over all terms add up to its tokens because each token is
  an occurrence of one term (`TokensByTerm`, `SumFlatten`).
- `OneFileForOneIndex`: the invariant `AcceptedIsCanonical`.  The invariant `ReadInv` says
  that a file just written is `Whole` (typed, and `Cut` with the size its sections add up
  to), and that a damaged file is still typed and `Cut` if it is accepted: a damaged body
  keeps the sections, and `HeaderDamaged` shows that a damaged header is not accepted,
  because one section length that differs changes the size.
- `MergeIsOneBatch`, `WrittenIsRead` and `PeakIsCovered`: the invariants
  `MergedIsOneBatch`, `WrittenReadsBack` and `PeakCovered`.  The invariant `MergeInv` says
  of some list of batches that memory and the files were made of it and how far their merge
  has come: the documents of the sources before `source` are in the spool as one batch of
  them would be written (`DocsCopied`); each cursor stands at the first term of its file
  that is not among the first `k` of all (`Walked`); and the terms up to `k` are in the
  spool as one batch would be written (`TermsCopied`).  The first walk ends with `k` the
  number of all terms, which is therefore the count that the second works with.  A step of
  the walk (`WalkStep`) finds the least term not yet passed at exactly the sources that hold it;
  their posting lists, renumbered and joined, are its list in one batch
  (`GroupSharesAre`, from `HoldersConcat`), and what the merge copies for them is what the
  writer writes of it (`GroupCopied`, from `RowsFlatten`).  For the peak, `FileSize` gives the
  size of a file from its batch; what the merge has copied costs at most what the cursors
  have passed (`Covers`, kept by `CoversNext` because a term costs the output at most what it
  costs the inputs that hold it, `TermCheaper`).

The assumption on documents is what the code refuses: an empty path, an empty token
(`InMemoryIndex::postings_for`), a tombstone with text.

`TextParsingProofs` proves, for files of any length with any bytes, for any chunk size and
length limit, either policy, and any number of edits:

- `ChunksDoNotMatter`, `TokensAreTheRuns`, `ParsedInOneVersion` and `FailuresHaveReasons`:
  the four properties of run `text`.  The inductive invariant is `TextInv`.  While the file
  is read, what was hashed is a text `d` that is done, followed by what is pending
  (`Reading`): `d` was handed on as `DecodedText(d)`, its invalid units are counted, and
  the tokenizer is in the state in which pushing `d` in one piece would have left it; what
  is pending would be kept again; and (`Settled`) whatever bytes come next, a scan of the
  whole cuts it where `d` ends.  After the final pass all of it is done (`Whole`).
  `Versions` compares the file with the metadata read first, as long as no write has moved
  the time: what was hashed is how the content begins (`Leads`), and all of it once a short
  read was seen.  `Faults` is what each failure says of the file.

The argument has four parts.  (1) The tables of the code agree with the definition of
UTF-8 by code points: `WellFormedIs` and `ShortBegins` go through the bit ranges of
leaders and second bytes, and `UnitIs` and `UnitKinds` conclude that a pass of the loop
takes one unit of the reference, valid in the same cases.  (2) What a pass takes is local:
`TakenStable` says that more input does not change what is taken of a sequence that is not
kept, and `TakenLocal` that a unit cut out of its text is the same unit.  So scans of
consecutive chunks add up to one of the whole (`ReadOn`), and the first invalid sequence of a
chunk is the first of the file if none came before (`FirstConcat`).  (3) The tokenizer's
state is described by a cut of what it has seen into runs (`Tokenised`), which each
character keeps (`TokenisedAppend`); pushes add up (`PushedConcat`); and a replacement does
to tokens what the invalid bytes would have done, since neither has a token character
(`PushedDecoded`).  Hence the tokens of the mended text are the runs of the file's own
bytes (`TokensOfText`).  (4) The loops are recursive functions on texts, whose
argument gets shorter; that a function with such an equation exists and is the only
one is `RecursionExists` and `SolvesSame` of `SumLemmas`, on which `UnitsEquation`, `ScanEquation` and
`PushedIs` rest.

`TextAssumption` is used as it stands: contents are sequences of bytes, chunk sizes and the
length limit are positive, as the constructors of `TextReader` and `TokenizerSession`
demand.  `TextInv` was checked with TLC on the states of run `text` before it was proved.

`QueryParser`, `QueryEvaluator` and `Search` are built on recursive operators over trees,
as their code is; a module that reaches one is out of the prover's reach.

Only model-checked: what parser and evaluator do (`RejectedIffMeaningless`, `MatchesAsMeant`,
`RefusedForItsReasons`); crash safety, the refinement and
the readers' properties without `Ordered`; and everything under fairness
(`LockReleased`, `ReaderEnds`, `OperationEnds`, `Terminates`), which is outside the prover's
reach.

## 5. What is not modelled

- Scanner: one sequential traversal of a tree that keeps no state between calls; its
  result, the list of regular files in the order of their paths, is an input of
  `FullBuild` and `Maintenance`.
- Binary codec and checksums: conversions of integers to bytes.  The models count
  the bytes and take a checksum to match exactly the bytes it was computed from.
- In the search front end, `validate_options`, which refuses options before a search
  starts, and `is_safe_relative_path`, the test of a hit's path before its snippet is
  loaded: a path that fails it has no snippet, like a file that cannot be read.
- In the segment reader, the tests of a single string: UTF-8, a normalized path, an
  ASCII term.
- In segments, the fields that are copied from one place to another and compared with
  nothing: size, time and content checksum of a document.
- BM25's arithmetic, which is floating point; the models need an order of scores.
- `fnmatch`, threads, the file system: external, modelled as the code uses them.
- Peak figures in results: reported, and used for nothing.
- Command line: option parsing, calls of the library and printing.
- Other programs that write into the index directory: the code does not defend against
  them.  Segments of other writers are in `SegmentMerge`, at the reader.

## 6. Disagreements between code and documentation

1. `retirement` (`RetireAfterDurable`).  The constructor of a transaction removes
   unselected segments without first syncing the directory
   (`src/storage/index_directory.cpp:894`).  If the previous writer died between the
   rename of `MANIFEST` and its sync, the removal may concern segments that the
   durable Manifest still selects, against the comment at line 1015.  `CrashSafety`
   shows that it does no harm when the file system keeps directory changes in order.
2. `manifest_race` (`ManifestReadable`).  `read_manifest_file` takes the length of the
   file by path after it opened the stream (`src/storage/index_manifest.cpp:181`); a
   commit in between makes the read fail, and `with_active_segments` calls it outside
   its retry.
3. `discarded` (`DiscardedByCompaction`).  After a failed automatic compaction the
   result still counts the records the compaction would have removed
   (`src/index/index_maintenance.cpp:420`).
4. Phrases without positions.  `docs/index-format.md:215` says that on an index without
   positions a phrase query must report an error, and `docs/architecture.md:102` that it is
   refused.  `evaluate_conjunction` stops when no document is left
   (`src/query/query_evaluator.cpp:542`), so that the phrase of `absent AND "a b"` is never
   evaluated and the query is answered with an empty result.  A conjunct of a smaller
   estimate goes first; by its contents alone the same index refuses or answers the query.
   No answer is wrong, since a conjunction that is empty without its phrase is empty with
   it.  Run `search` has these queries, on both sides: `MatchesAsMeant` speaks only of
   queries that the index has the data for, and `RefusedForItsReasons` says where the
   refusal is certain, which is where the other operands leave a document (`needs` in
   `Meaning`).  There is no run of its own for the document's sentence.

## 7. Plan

One component with logic of its own is left: the scanner's exclusion rules, over a small
tree.  What parser and evaluator do could be proved if they were written as
recursive functions on token sequences and trees, as `TextParsing` is on texts.
