---------------------------- MODULE IndexReaders ----------------------------
(***************************************************************************)
(* Readers of the index directory: with_active_segments, which takes no    *)
(* lock.  A reader opens MANIFEST, reads every active segment by path, in  *)
(* two passes, and when that fails asks MANIFEST whether the generation    *)
(* changed meanwhile; it gives up after three attempts.  Writers, kills    *)
(* and power losses of IndexDirectory interleave with every file a reader  *)
(* opens.                                                                  *)
(***************************************************************************)
EXTENDS IdentifierHistory

CONSTANT Readers   \* processes that read the index

VARIABLES
  rd,       \* what each reader has seen, and its outcome
  window    \* history: the generations visible since each reader began

rvars == <<rd, window>>

\* An outcome is "index" (a loaded index), "rebuild" (there is no MANIFEST),
\* "changing" (the generation changed on every attempt), "damaged" (the
\* Segment's error, of an unchanged generation) or "inconsistent" (the error
\* of read_manifest_file).
NotReading == [at |-> "idle", attempt |-> 0, man |-> NoManifest,
               now |-> NoManifest, pass |-> 1, todo |-> {},
               got |-> <<<<>>, <<>>>>, outcome |-> "none"]

Reading(r) == rd[r].at \notin {"idle", "done"}

Goes(r, p) == rd' = [rd EXCEPT ![r].at = p]

Ends(r, outcome) ==
  rd' = [rd EXCEPT ![r].at = "done", ![r].outcome = outcome]

-----------------------------------------------------------------------------
(* One attempt of with_active_segments. *)

Begin(r) ==
  /\ rd[r].at = "idle"
  /\ rd' = [rd EXCEPT ![r].at = "look", ![r].attempt = 1]
  /\ window' = [window EXCEPT ![r] = {View(dir)}]

\* The loop's "continue": another attempt, three in all.
Retry(r) ==
  IF rd[r].attempt < 3
  THEN rd' = [rd EXCEPT ![r].at = "look", ![r].attempt = @ + 1]
  ELSE Ends(r, "changing")

\* path_exists(manifest_path)
Look(r) ==
  /\ rd[r].at = "look"
  /\ Goes(r, IF dir.man.generation = 0 THEN "absent" ELSE "open")
  /\ UNCHANGED window

\* Mutant of AbsentManifest: wait for a MANIFEST to appear.
BugAwaitManifest(r) ==
  /\ rd[r].at = "absent"
  /\ Goes(r, "look")
  /\ UNCHANGED window

\* Without a MANIFEST a reader looks for a legacy segment, then looks again.
AbsentManifest(r) ==
  /\ rd[r].at = "absent"
  /\ IF dir.man.generation = 0 THEN Ends(r, "rebuild") ELSE Retry(r)
  /\ UNCHANGED window

\* read_manifest_file opens a stream; a later rename does not change it ...
OpenManifest(r) ==
  /\ rd[r].at = "open"
  /\ rd' = [rd EXCEPT ![r].at = "size", ![r].man = dir.man]
  /\ UNCHANGED window

\* ... but takes the length from the path, which may name a newer file: a
\* Manifest is as long as the number of segments it selects.
SameLength(m, d) == Cardinality(m.active) = Cardinality(d.man.active)

SizeManifest(r) ==
  /\ rd[r].at = "size"
  /\ IF SameLength(rd[r].man, dir)
     THEN rd' = [rd EXCEPT ![r].at = "read", ![r].pass = 1,
                           ![r].todo = rd[r].man.active,
                           ![r].got = <<<<>>, <<>>>>]
     ELSE Ends(r, "inconsistent")
  /\ UNCHANGED window

\* load_active_segments: the next segment, in identifier order.  Both passes
\* read every segment; an absent or damaged one throws.
Reads(r, i) ==
  LET seen == [j \in DOMAIN rd[r].got[rd[r].pass] \cup {i} |->
                 IF j = i THEN dir.seg[i] ELSE rd[r].got[rd[r].pass][j]]
      rest == rd[r].todo \ {i}
      last == rest = {} /\ rd[r].pass = 2
  IN rd' = [rd EXCEPT
              ![r].got[rd[r].pass] = seen,
              ![r].todo = IF rest = {} /\ ~ last THEN rd[r].man.active ELSE rest,
              ![r].pass = IF rest = {} /\ ~ last THEN 2 ELSE @,
              ![r].at = IF last THEN "done" ELSE @,
              ![r].outcome = IF last THEN "index" ELSE @]

ReadSegment(r) ==
  /\ rd[r].at = "read"
  /\ \E i \in rd[r].todo :
       /\ \A j \in rd[r].todo : i <= j
       /\ IF Readable(dir.seg[i]) THEN Reads(r, i) ELSE Goes(r, "reopen")
  /\ UNCHANGED window

\* The catch block reads MANIFEST again, through the same two calls.
ReopenManifest(r) ==
  /\ rd[r].at = "reopen"
  /\ rd' = [rd EXCEPT ![r].at = "resize", ![r].now = dir.man]
  /\ UNCHANGED window

\* Mutant of Superseded: only the number of segments is compared.
BugCompareCounts(r) ==
  Cardinality(rd[r].now.active) # Cardinality(rd[r].man.active)

\* Did the generation this attempt reads give way to another?
Superseded(r) ==
  \/ rd[r].now.generation # rd[r].man.generation
  \/ rd[r].now.active # rd[r].man.active

ResizeManifest(r) ==
  /\ rd[r].at = "resize"
  /\ CASE ~ SameLength(rd[r].now, dir) -> Ends(r, "inconsistent")
       [] SameLength(rd[r].now, dir) /\ Superseded(r) -> Retry(r)
       [] OTHER -> Ends(r, "damaged")
  /\ UNCHANGED window

Read(r) ==
  \/ Look(r) \/ AbsentManifest(r) \/ OpenManifest(r) \/ SizeManifest(r)
  \/ ReadSegment(r) \/ ReopenManifest(r) \/ ResizeManifest(r)

-----------------------------------------------------------------------------
(* Composition. *)

\* A writer moves: readers see nothing of it but the directory.
WriterMoves ==
  /\ \E w \in Writers : Open(w) \/ Work(w) \/ Kill(w)
  /\ window' = [r \in Readers |-> IF Reading(r)
                                  THEN window[r] \cup {View(dir')}
                                  ELSE window[r]]
  /\ Remember
  /\ UNCHANGED rd

\* Readers die with the machine.
MachineStops ==
  /\ PowerLoss
  /\ Remember
  /\ rd' = [r \in Readers |-> NotReading]
  /\ window' = [r \in Readers |-> {}]

ReaderMoves(r) == (Begin(r) \/ Read(r)) /\ UNCHANGED hvars

RInit ==
  /\ HInit
  /\ rd = [r \in Readers |-> NotReading]
  /\ window = [r \in Readers |-> {}]

RNext == WriterMoves \/ MachineStops \/ \E r \in Readers : ReaderMoves(r)

\* A reader that has begun keeps running, and so does a transaction; new
\* transactions need not be opened.
RSpec ==
  /\ RInit /\ [][RNext]_<<hvars, rvars>>
  /\ \A r \in Readers : WF_<<hvars, rvars>>(Read(r) /\ UNCHANGED hvars)
  /\ \A w \in Writers : WF_vars(Work(w))

-----------------------------------------------------------------------------
(* Properties. *)

\* An index a reader returns is one complete generation that was visible at
\* some instant of the read: no mixture of two generations, nothing stale, and
\* the second pass read the very files the first one validated.
SnapshotRead ==
  \A r \in Readers : rd[r].outcome = "index" =>
    /\ rd[r].got[1] = rd[r].got[2]
    /\ [generation |-> rd[r].man.generation, segments |-> rd[r].got[1]]
         \in window[r]

\* An error of a reader is true: there was no MANIFEST, or the generation
\* changed three times under it; a segment retired under a reader is never
\* reported as damage of the index.
ErrorsJustified ==
  \A r \in Readers :
    /\ rd[r].outcome = "rebuild" => \E v \in window[r] : v.generation = 0
    /\ rd[r].outcome = "changing" => Cardinality(window[r]) > 3
    /\ rd[r].outcome # "damaged"

\* "reader ... retries across a concurrent commit": a commit alone never makes
\* a reader fail on MANIFEST itself.
ManifestReadable == \A r \in Readers : rd[r].outcome # "inconsistent"

\* A read comes to an end however many writers commit meanwhile.
ReaderEnds == \A r \in Readers : Reading(r) ~> ~ Reading(r)
=============================================================================
