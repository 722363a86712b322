-------------------------- MODULE FullBuildProofs --------------------------
(***************************************************************************)
(* Proofs about a full build (FullBuild): the accounts of the memory       *)
(* budget, the waves of workers and what refuses a build; the files of the *)
(* workspace, their names and the room merges take; and the order in which *)
(* documents and diagnostics reach the candidate.                          *)
(***************************************************************************)
EXTENDS FullBuild, SumLemmas, SequenceTheorems

Outcomes == {"no", "running", "parsed", "failed", "thrown", "refused"}

Steps ==
  {"open", "start", "join", "record", "rethrow", "commit", "store", "next",
   "flush", "assemble", "candidate", "level", "remove", "publish", "leave",
   "done", "unwind", "failed"}

\* The files of the workspace.
Names ==
  {SegmentName(n) : n \in Nat} \cup {MergeName(p, k) : p, k \in Nat}
    \cup {CandidateName}

Pieces == [name : Names, docs : Seq(DOMAIN scan)]

Typed ==
  /\ scan \in Scans /\ opt \in Options
  /\ pc \in Steps /\ back \in {"next", "commit", "candidate"}
  /\ begin \in Nat \ {0} /\ next \in Nat
  /\ worker \in [DOMAIN scan -> Outcomes]
  /\ grown \in [DOMAIN scan -> Nat] /\ held \in [DOMAIN scan -> Nat]
  /\ fatal \in BOOLEAN /\ errors \in Seq(Nat)
  /\ active \in Seq(DOMAIN scan) /\ segments \in Seq(Pieces)
  /\ charge \in [Holders -> Nat]

\* The steps that are about a wave, and those that come after its workers.
OverWave ==
  \/ pc \in {"start", "join", "record", "rethrow", "commit", "store", "next"}
  \/ pc = "flush" /\ back # "candidate"

Committing ==
  \/ pc \in {"commit", "store", "next"}
  \/ pc = "flush" /\ back # "candidate"

\* The document at next is in the batch.
Taken == pc = "next" \/ (pc = "flush" /\ back = "next")

\* A worker runs only in the wave, between its start and its join.
Waves ==
  /\ OverWave => next \in Wave
  /\ OverWave => \A i \in DOMAIN scan : i > WaveEnd => worker[i] = "no"
  /\ pc = "start" => \A i \in DOMAIN scan : i >= next => worker[i] = "no"
  /\ pc = "join" => \A i \in DOMAIN scan : i \in begin .. (next - 1) => ~ Running(i)
  /\ OverWave => \A i \in DOMAIN scan : i < begin => ~ Running(i)
  /\ pc \notin {"start", "join", "unwind"} => \A i \in DOMAIN scan : ~ Running(i)
  /\ pc = "rethrow" => next = begin
  /\ pc = "open" => begin = 1 /\ next = 1 /\ \A i \in DOMAIN scan : worker[i] = "no"

\* Bytes are held for documents that are parsed or being parsed and not yet
\* committed, and for no more than the parser's peak.
Holdings ==
  /\ \A i \in DOMAIN scan : worker[i] \notin {"running", "parsed"} => held[i] = 0
  /\ OverWave => \A i \in DOMAIN scan : i < begin => held[i] = 0
  /\ Committing => \A i \in DOMAIN scan : i < next => held[i] = 0
  /\ Taken => held[next] = 0
  /\ \A i \in DOMAIN scan : held[i] <= Demand(i)

Empty == pc \in {"done", "failed"} => used = 0

IInv == Typed /\ BudgetExact /\ Waves /\ Holdings /\ Empty /\ RefusedOnlyWhenTooBig

-----------------------------------------------------------------------------
(* Facts about the constants and the accounts. *)

LEMMA Constants ==
  ASSUME Typed
  PROVE  /\ scan \in Seq(Files) /\ Len(scan) \in Nat
         /\ DOMAIN scan = 1 .. Len(scan) /\ IsFiniteSet(DOMAIN scan)
         /\ opt \in OptionRecords /\ opt.workers > 0 /\ opt.fanIn >= 2
         /\ opt.memory \in Nat /\ opt.memory > 0
  <1>1. scan \in Seq(Files)
    BY BuildAssumption DEF Typed
  <1>2. Len(scan) \in Nat /\ DOMAIN scan = 1 .. Len(scan)
    BY <1>1, LenProperties
  <1>3. IsFiniteSet(DOMAIN scan)
    BY <1>2, FS_Interval
  <1>4. /\ opt \in OptionRecords /\ opt.workers > 0 /\ opt.fanIn >= 2
        /\ opt.memory > 0
    BY BuildAssumption DEF Typed
  <1>5. opt.memory \in Nat
    BY <1>4 DEF OptionRecords
  <1>. QED
    BY <1>1, <1>2, <1>3, <1>4, <1>5

LEMMA FileFacts ==
  ASSUME Typed, NEW i \in DOMAIN scan
  PROVE  /\ scan[i].grow \in Seq(Nat) /\ scan[i].grow # <<>>
         /\ scan[i].kept \in Nat /\ scan[i].disk \in Nat
         /\ Demand(i) \in Nat
         /\ \A k \in DOMAIN scan[i].grow : scan[i].grow[k] <= Demand(i)
  <1>1. scan[i] \in Files
    BY Constants
  <1>2. /\ scan[i].grow \in Seq(Nat) /\ scan[i].grow # <<>>
        /\ scan[i].kept \in Nat /\ scan[i].disk \in Nat
        /\ \A j, k \in DOMAIN scan[i].grow :
             j <= k => scan[i].grow[j] <= scan[i].grow[k]
    BY <1>1 DEF Files
  <1>3. /\ Len(scan[i].grow) \in DOMAIN scan[i].grow
        /\ DOMAIN scan[i].grow = 1 .. Len(scan[i].grow)
    BY <1>2, EmptySeq, LenProperties
  <1>4. Demand(i) \in Nat
    BY <1>2, <1>3 DEF Demand
  <1>5. \A k \in DOMAIN scan[i].grow : k <= Len(scan[i].grow)
    BY <1>3
  <1>. QED
    BY <1>2, <1>3, <1>4, <1>5 DEF Demand

LEMMA NextGrow ==
  ASSUME Typed, NEW i \in DOMAIN scan, grown[i] < Len(scan[i].grow)
  PROVE  /\ grown[i] + 1 \in DOMAIN scan[i].grow
         /\ scan[i].grow[grown[i] + 1] \in Nat
         /\ scan[i].grow[grown[i] + 1] <= Demand(i)
  <1> DEFINE g == scan[i].grow
             k == grown[i]
  <1>1. g \in Seq(Nat) /\ \A j \in DOMAIN g : g[j] <= Demand(i)
    BY FileFacts
  <1>2. k \in Nat /\ k < Len(g)
    BY DEF Typed
  <1> HIDE DEF g, k
  <1>3. Len(g) \in Nat /\ DOMAIN g = 1 .. Len(g) /\ \A j \in DOMAIN g : g[j] \in Nat
    BY <1>1, LenProperties
  <1>4. k + 1 \in DOMAIN g
    BY <1>2, <1>3
  <1>5. g[k + 1] \in Nat /\ g[k + 1] <= Demand(i)
    BY <1>1, <1>3, <1>4
  <1>. QED
    BY <1>4, <1>5 DEF g, k

LEMMA HoldersFinite == IsFiniteSet(Holders)
  <1>1. IsFiniteSet({"metadata"}) /\ IsFiniteSet({"active"})
        /\ IsFiniteSet({"headroom"}) /\ IsFiniteSet({"merge"})
        /\ IsFiniteSet({"manifest"})
    BY FS_Singleton
  <1>2. IsFiniteSet({"metadata"} \cup {"active"} \cup {"headroom"}
                    \cup {"merge"} \cup {"manifest"})
    BY <1>1, FS_Union
  <1>3. Holders = {"metadata"} \cup {"active"} \cup {"headroom"}
                  \cup {"merge"} \cup {"manifest"}
    BY DEF Holders
  <1>. QED
    BY <1>2, <1>3

LEMMA ChargesTyped ==
  ASSUME NEW c \in [Holders -> Nat]
  PROVE  Total(c) \in Nat
  BY HoldersFinite, SumNat DEF Total, SumOf

LEMMA AccountsTyped ==
  ASSUME Typed
  PROVE  Total(held) \in Nat /\ Total(charge) \in Nat
  <1>1. Total(held) = SumOf(held)
    BY DEF Total, SumOf
  <1>. QED
    BY <1>1, Constants, ChargesTyped, SumNat DEF Typed

\* A worker's charge is replaced.
LEMMA HeldUpdate ==
  ASSUME Typed, NEW i \in DOMAIN scan, NEW b \in Nat
  PROVE  Total([held EXCEPT ![i] = b]) = Total(held) - held[i] + b
  <1>1. held \in [DOMAIN scan -> Int] /\ IsFiniteSet(DOMAIN scan) /\ b \in Int
    BY Constants DEF Typed
  <1>2. SumOf([held EXCEPT ![i] = b]) = SumOf(held) - held[i] + b
    BY ONLY <1>1, i \in DOMAIN scan, SumUpdate
  <1>. QED
    BY <1>2 DEF Total, SumOf

\* A charge of the building thread is replaced.
LEMMA ChargeUpdate ==
  ASSUME NEW c \in [Holders -> Nat], NEW h \in Holders, NEW b \in Nat
  PROVE  Total([c EXCEPT ![h] = b]) = Total(c) - c[h] + b
  <1>1. c \in [Holders -> Int] /\ IsFiniteSet(Holders) /\ b \in Int
    BY HoldersFinite
  <1>2. SumOf([c EXCEPT ![h] = b]) = SumOf(c) - c[h] + b
    BY ONLY <1>1, h \in Holders, SumUpdate
  <1>. QED
    BY <1>2 DEF Total, SumOf

\* Two of them are replaced.
LEMMA TwoCharges ==
  ASSUME NEW c \in [Holders -> Nat], NEW e \in [Holders -> Nat],
         NEW g \in Holders, NEW h \in Holders, g # h,
         \A x \in Holders \ {g, h} : e[x] = c[x]
  PROVE  Total(e) = Total(c) - c[g] + e[g] - c[h] + e[h]
  <1> DEFINE a == e[g]
             b == e[h]
             d == [c EXCEPT ![g] = a]
  <1>1. d \in [Holders -> Nat] /\ d[h] = c[h]
    OBVIOUS
  <1>2. e = [d EXCEPT ![h] = b]
    OBVIOUS
  <1>3. Total(d) = Total(c) - c[g] + a
    BY ChargeUpdate
  <1> HIDE DEF d
  <1>4. Total([d EXCEPT ![h] = b]) = Total(d) - d[h] + b
    BY <1>1, ChargeUpdate
  <1>5. Total(c) \in Int /\ c[g] \in Nat /\ c[h] \in Nat
    BY ChargesTyped
  <1>6. e[g] \in Nat /\ e[h] \in Nat
    OBVIOUS
  <1>7. Total(e) = Total(d) - d[h] + e[h] /\ d[h] = c[h] /\ Total(d) = Total(c) - c[g] + e[g]
    BY <1>1, <1>2, <1>3, <1>4
  <1>. QED
    BY <1>5, <1>6, <1>7

LEMMA NothingHeld ==
  ASSUME Typed
  PROVE  Total([i \in DOMAIN scan |-> 0]) = 0 /\ Total([h \in Holders |-> 0]) = 0
  <1> DEFINE f == [i \in DOMAIN scan |-> 0]
             g == [h \in Holders |-> 0]
  <1>1. f \in [DOMAIN scan -> Int] /\ \A i \in DOMAIN scan : f[i] = 0
    OBVIOUS
  <1>2. g \in [Holders -> Int] /\ \A h \in Holders : g[h] = 0
    OBVIOUS
  <1> HIDE DEF f, g
  <1>3. SumOf(f) = 0
    BY <1>1, Constants, SumZero
  <1>4. SumOf(g) = 0
    BY <1>2, HoldersFinite, SumZero
  <1>. QED
    BY <1>3, <1>4 DEF Total, SumOf, f, g

\* What a batch retains.
LEMMA RetainedTyped ==
  ASSUME Typed, NEW docs \in Seq(DOMAIN scan)
  PROVE  Retained(docs) \in Nat
  <1> DEFINE f == [i \in DOMAIN docs |-> scan[docs[i]].kept]
  <1>1. f \in [DOMAIN docs -> Nat]
    BY FileFacts
  <1>2. IsFiniteSet(DOMAIN docs)
    BY FS_Interval, LenProperties
  <1>3. SumOf(f) \in Nat
    BY <1>1, <1>2, SumNat
  <1>. QED
    BY <1>3 DEF Retained, Total, SumOf

LEMMA MetadataTyped ==
  ASSUME Typed, NEW errs \in Seq(Nat), NEW segs \in Seq(Pieces)
  PROVE  Metadata(errs, segs) \in Nat
  <1>1. Len(scan) \in Nat /\ Len(errs) \in Nat /\ Len(segs) \in Nat
    BY Constants, LenProperties
  <1>. QED
    BY <1>1 DEF Metadata

LEMMA WaveFacts ==
  ASSUME Typed
  PROVE  /\ WaveEnd \in Int /\ WaveEnd <= Len(scan) /\ Wave = begin .. WaveEnd
         /\ Wave \subseteq DOMAIN scan
         /\ begin <= Len(scan) => begin <= WaveEnd
  <1>1. begin \in Nat \ {0} /\ opt.workers \in Nat /\ opt.workers > 0
    BY Constants DEF Typed, OptionRecords
  <1>. QED
    BY <1>1, Constants DEF WaveEnd, Wave, Lower

-----------------------------------------------------------------------------
(* What the steps leave alone. *)

ParserSteps == \E i \in DOMAIN scan : Parser(i)

Ending == Leave \/ Unwind

LEMMA Frame ==
  ASSUME Next
  PROVE  /\ UNCHANGED files
         /\ UNCHANGED parsing \/ StartWorker \/ Store \/ Ending \/ ParserSteps
         /\ UNCHANGED fatal \/ Join
         /\ UNCHANGED errors \/ Record
         /\ UNCHANGED active \/ Store \/ Flush
         /\ UNCHANGED segments \/ Flush
         /\ \/ UNCHANGED memory \/ Open \/ Record \/ TakeHeadroom \/ Store \/ Flush
            \/ MakeCandidate \/ RemoveInputs \/ PublishCandidate \/ Ending
            \/ ParserSteps
  <1> USE DEF files, parsing, memory, Ending, ParserSteps
  <1>1. CASE Open \/ StartWorker \/ Join \/ Record \/ Rethrow \/ TakeHeadroom
    BY <1>1 DEF Open, StartWorker, Join, Record, Rethrow, TakeHeadroom
  <1>2. CASE Store \/ NextFile \/ Flush \/ Assemble \/ MakeCandidate \/ NextLevel
    BY <1>2 DEF Store, NextFile, Flush, Assemble, MakeCandidate, NextLevel
  <1>3. CASE PassOn \/ MergeGroup \/ RemoveInputs \/ PublishCandidate
    BY <1>3 DEF PassOn, MergeGroup, RemoveInputs, PublishCandidate
  <1>4. CASE Leave \/ Unwind \/ SystemFails
    BY <1>4 DEF Leave, Unwind, Release, SystemFails
  <1>5. CASE \E i \in DOMAIN scan : Parser(i)
    BY <1>5 DEF Parser, Reserve, ParseFails, Parsed
  <1>. QED
    BY <1>1, <1>2, <1>3, <1>4, <1>5 DEF Next, Builder

\* The position of the building thread.
LEMMA StepPosition ==
  ASSUME Typed, Waves, Next
  PROVE  /\ pc' \in Steps /\ back' \in {"next", "commit", "candidate"}
         /\ begin' \in Nat \ {0} /\ next' \in Nat
  <1> USE DEF Typed, Steps
  <1>0. OverWave => WaveEnd + 1 \in Nat \ {0}
    BY WaveFacts DEF Waves, Typed
  <1>1. CASE Open \/ StartWorker \/ Join \/ Record
    BY <1>1 DEF Open, StartWorker, Join, Record, LoopTo, Fail
  <1>2. CASE Rethrow \/ TakeHeadroom \/ Store \/ Flush \/ Assemble
    BY <1>2 DEF Rethrow, TakeHeadroom, Store, Flush, Assemble, Fail
  <1>3. CASE NextFile
    <2>1. OverWave
      BY <1>3 DEF NextFile, OverWave
    <2>2. NextWave \in Nat \ {0}
      BY <1>0, <2>1 DEF NextWave
    <2>. QED
      BY <1>3, <2>2 DEF NextFile
  <1>4. CASE MakeCandidate \/ NextLevel \/ PassOn \/ MergeGroup
    BY <1>4 DEF MakeCandidate, NextLevel, PassOn, MergeGroup, Fail
  <1>5. CASE RemoveInputs \/ PublishCandidate \/ Leave \/ Unwind \/ SystemFails
    BY <1>5 DEF RemoveInputs, PublishCandidate, Leave, Unwind, Release,
                SystemFails, Fail
  <1>6. CASE \E i \in DOMAIN scan : Parser(i)
    BY <1>6 DEF Parser, Reserve, ParseFails, Parsed
  <1>. QED
    BY <1>1, <1>2, <1>3, <1>4, <1>5, <1>6 DEF Next, Builder

LEMMA StepFatal ==
  ASSUME Typed, Next
  PROVE  fatal' \in BOOLEAN
  <1>1. UNCHANGED fatal \/ fatal' = (fatal \/ worker[next] = "refused")
    <2>1. CASE Join
      BY <2>1 DEF Join
    <2>. QED
      BY <2>1, Frame
  <1>2. (fatal \/ worker[next] = "refused") \in BOOLEAN
    OBVIOUS
  <1>. QED
    BY <1>1, <1>2 DEF Typed

\* The workers, what they have read and what they hold.
TypedWorkers ==
  /\ worker \in [DOMAIN scan -> Outcomes]
  /\ grown \in [DOMAIN scan -> Nat] /\ held \in [DOMAIN scan -> Nat]

LEMMA StepWorkers ==
  ASSUME Typed, Next
  PROVE  TypedWorkers'
  <1>0. TypedWorkers /\ scan' = scan
    BY Frame DEF Typed, TypedWorkers, files
  <1> USE DEF TypedWorkers
  <1>1. CASE UNCHANGED parsing
    BY <1>0, <1>1 DEF parsing
  <1>2. CASE StartWorker
    BY <1>0, <1>2 DEF StartWorker, Outcomes
  <1>3. CASE Store
    BY <1>0, <1>3 DEF Store
  <1>4. CASE Ending
    BY <1>0, <1>4 DEF Ending, Leave, Unwind, Release
  <1>5. CASE ParserSteps
    <2> SUFFICES ASSUME NEW i \in DOMAIN scan, Parser(i) PROVE TypedWorkers'
      BY <1>5 DEF ParserSteps
    <2>1. CASE Reserve(i)
      <3>1. scan[i].grow \in Seq(Nat)
        BY FileFacts
      <3>2. grown[i] < Len(scan[i].grow) =>
              grown[i] + 1 \in Nat /\ scan[i].grow[grown[i] + 1] \in Nat
        BY <1>0, <3>1, LenProperties
      <3>3. /\ worker' \in {worker, [worker EXCEPT ![i] = "refused"]}
            /\ grown' \in {grown, [grown EXCEPT ![i] = grown[i] + 1]}
            /\ grown[i] < Len(scan[i].grow)
        BY <2>1 DEF Reserve, Ends
      <3>4. worker' \in [DOMAIN scan -> Outcomes]
        BY <1>0, <3>3 DEF Outcomes
      <3>5. grown' \in [DOMAIN scan -> Nat]
        BY <1>0, <3>2, <3>3
      <3>6. held' \in [DOMAIN scan -> Nat]
        <4>1. PICK b \in Nat : held' = [held EXCEPT ![i] = b]
          BY <2>1, <3>2 DEF Reserve, Ends
        <4>. QED
          BY <1>0, <4>1
      <3>. QED
        BY <1>0, <3>4, <3>5, <3>6
    <2>2. CASE ParseFails(i)
      <3>1. worker' \in [DOMAIN scan -> Outcomes]
        BY <1>0, <2>2 DEF ParseFails, Ends, Outcomes
      <3>2. grown' = grown /\ held' \in [DOMAIN scan -> Nat]
        BY <1>0, <2>2 DEF ParseFails, Ends
      <3>. QED
        BY <1>0, <3>1, <3>2
    <2>3. CASE Parsed(i)
      BY <1>0, <2>3 DEF Parsed, Outcomes
    <2>. QED
      BY <2>1, <2>2, <2>3 DEF Parser
  <1>. QED
    BY <1>1, <1>2, <1>3, <1>4, <1>5, Frame

\* The segments once the batch is flushed.
WithBatch ==
  Append(segments, [name |-> SegmentName(Len(segments)), docs |-> active])

LEMMA WithBatchTyped ==
  ASSUME Typed
  PROVE  WithBatch \in Seq(Pieces)
  <1>1. Len(segments) \in Nat
    BY LenProperties DEF Typed
  <1>2. SegmentName(Len(segments)) \in Names
    BY <1>1 DEF Names
  <1>3. [name |-> SegmentName(Len(segments)), docs |-> active] \in Pieces
    BY <1>2 DEF Pieces, Typed
  <1>. QED
    BY <1>3, AppendProperties DEF WithBatch, Typed

\* What a batch and a segment hold are files of the scan.
LEMMA StepBatch ==
  ASSUME Typed, Waves, Next
  PROVE  errors' \in Seq(Nat) /\ active' \in Seq(DOMAIN scan) /\ segments' \in Seq(Pieces)
  <1>1. errors' \in Seq(Nat)
    <2>1. CASE Record
      <3>1. errors' \in {errors, Append(errors, next)}
        BY <2>1 DEF Record
      <3>2. Append(errors, next) \in Seq(Nat)
        BY AppendProperties DEF Typed
      <3>. QED
        BY <3>1, <3>2 DEF Typed
    <2>. QED
      BY <2>1, Frame DEF Typed
  <1>2. active' \in Seq(DOMAIN scan)
    <2>1. CASE Store
      <3>1. next \in DOMAIN scan
        BY <2>1, WaveFacts DEF Store, Waves, OverWave
      <3>. QED
        BY <2>1, <3>1, AppendProperties DEF Store, Typed
    <2>2. CASE Flush
      BY <2>2, EmptySeq DEF Flush, Typed
    <2>. QED
      BY <2>1, <2>2, Frame DEF Typed
  <1>3. segments' \in Seq(Pieces)
    <2>1. CASE Flush
      <3>1. segments' \in {segments, WithBatch}
        BY <2>1 DEF Flush, WithBatch
      <3>. QED
        BY <3>1, WithBatchTyped DEF Typed
    <2>. QED
      BY <2>1, Frame DEF Typed
  <1>. QED
    BY <1>1, <1>2, <1>3

\* The charges of the building thread.
LEMMA StepCharge ==
  ASSUME Typed, Waves, Next
  PROVE  charge' \in [Holders -> Nat]
  <1>0. charge \in [Holders -> Nat]
    BY DEF Typed
  <1>1. CASE Open
    <2>1. Metadata(<<>>, <<>>) \in Nat
      BY MetadataTyped, EmptySeq
    <2>. QED
      BY <1>0, <1>1, <2>1 DEF Open, Resize, memory
  <1>2. CASE Record
    <2>1. Metadata(errors', segments) \in Nat
      BY StepBatch, MetadataTyped DEF Typed
    <2>. QED
      BY <1>0, <1>2, <2>1 DEF Record, Resize, memory
  <1>3. CASE TakeHeadroom
    <2>1. held[next] \in Nat
      BY <1>3, WaveFacts DEF TakeHeadroom, Waves, OverWave, Typed
    <2>. QED
      BY <1>0, <1>3, <2>1 DEF TakeHeadroom, Resize, memory
  <1>4. CASE Store
    <2>1. Retained(active') \in Nat
      BY StepBatch, RetainedTyped
    <2>2. \/ charge' = charge
          \/ charge' = [charge EXCEPT !["active"] = Retained(active'), !["headroom"] = 0]
      BY <1>4 DEF Store
    <2>3. CASE charge' = [charge EXCEPT !["active"] = Retained(active'),
                                        !["headroom"] = 0]
      BY <1>0, <2>1, <2>3
    <2>. QED
      BY <1>0, <2>2, <2>3
  <1>5. CASE Flush
    <2>1. Metadata(errors, WithBatch) \in Nat
      BY WithBatchTyped, MetadataTyped DEF Typed
    <2>2. \/ charge' = charge
          \/ charge' = [charge EXCEPT !["active"] = 0]
          \/ charge' = [charge EXCEPT !["active"] = 0,
                                      !["metadata"] = Metadata(errors, WithBatch)]
      BY <1>5 DEF Flush, WithBatch, memory
    <2>3. CASE charge' = [charge EXCEPT !["active"] = 0,
                                        !["metadata"] = Metadata(errors, WithBatch)]
      BY <1>0, <2>1, <2>3
    <2>. QED
      BY <1>0, <2>2, <2>3
  <1>6. CASE MakeCandidate
    <2>1. MergeBytes \in Nat
      BY Constants, LenProperties DEF MergeBytes, Lower, OptionRecords, Typed
    <2>. QED
      BY <1>0, <1>6, <2>1 DEF MakeCandidate, Resize, memory
  <1>7. CASE RemoveInputs \/ PublishCandidate \/ Ending
    BY <1>0, <1>7 DEF RemoveInputs, PublishCandidate, Resize, ManifestBytes,
                      Ending, Leave, Unwind, Release, memory
  <1>8. CASE ParserSteps
    BY <1>0, <1>8 DEF ParserSteps, Parser, Reserve, ParseFails, Parsed, Ends, memory
  <1>9. CASE UNCHANGED memory
    BY <1>0, <1>9 DEF memory
  <1>. QED
    BY <1>1, <1>2, <1>3, <1>4, <1>5, <1>6, <1>7, <1>8, <1>9, Frame

LEMMA StepTyped ==
  ASSUME Typed, Waves, Next
  PROVE  Typed'
  <1>1. scan' = scan /\ opt' = opt
    BY Frame DEF files
  <1>2. Pieces' = Pieces
    BY <1>1 DEF Pieces
  <1>. QED
    BY <1>1, <1>2, StepPosition, StepFatal, StepWorkers, StepBatch, StepCharge
    DEF Typed, TypedWorkers

-----------------------------------------------------------------------------
(* The budget. *)

\* One resize that fits keeps the account.
LEMMA ResizeKeepsAccount ==
  ASSUME Typed, BudgetExact, NEW h \in Holders, NEW b \in Nat, NEW c \in Nat,
         c <= charge[h], Fits(c, b), Resize(h, b), held' = held, opt' = opt
  PROVE  BudgetExact'
  <1>1. Total(held) \in Nat /\ Total(charge) \in Nat /\ opt.memory \in Nat
    BY AccountsTyped, Constants
  <1>2. charge[h] \in Nat
    BY DEF Typed
  <1>3. Total(charge') = Total(charge) - charge[h] + b
    BY ChargeUpdate DEF Resize, Typed
  <1>4. used = Total(held) + Total(charge) /\ used <= opt.memory
    BY DEF BudgetExact
  <1>5. used' = used - charge[h] + b /\ used - c + b <= opt.memory
    BY DEF Resize, Fits, Others
  <1>6. Total(held') = Total(held) /\ opt'.memory = opt.memory
    OBVIOUS
  <1>. QED
    BY <1>1, <1>2, <1>3, <1>4, <1>5, <1>6 DEF BudgetExact

LEMMA StepBudget ==
  ASSUME Typed, Waves, BudgetExact, Next
  PROVE  BudgetExact'
  <1>0. /\ opt' = opt /\ opt.memory \in Nat
        /\ Total(held) \in Nat /\ Total(charge) \in Nat
        /\ used = Total(held) + Total(charge) /\ used <= opt.memory
        /\ charge \in [Holders -> Nat]
    BY Frame, Constants, AccountsTyped DEF files, BudgetExact, Typed
  <1>n. \A h \in Holders : charge[h] \in Nat
    BY <1>0
  <1>h. /\ "metadata" \in Holders /\ "active" \in Holders /\ "headroom" \in Holders
        /\ "merge" \in Holders /\ "manifest" \in Holders
    BY DEF Holders
  <1>c. charge' \in [Holders -> Nat]
    BY StepCharge
  <1>u. CASE UNCHANGED memory /\ held' = held
    BY <1>0, <1>u DEF memory, BudgetExact
  <1>1. CASE Open
    <2>1. Metadata(<<>>, <<>>) \in Nat
      BY MetadataTyped, EmptySeq
    <2>2. held' = held
      BY <1>1 DEF Open, parsing
    <2>3. CASE Fits(0, Metadata(<<>>, <<>>))
      <3>1. Resize("metadata", Metadata(<<>>, <<>>))
        BY <1>1, <2>3 DEF Open
      <3>2. 0 <= charge["metadata"]
        BY <1>n, <1>h
      <3>. QED
        BY <1>0, <1>h, <2>1, <2>2, <2>3, <3>1, <3>2, ResizeKeepsAccount
    <2>4. CASE ~ Fits(0, Metadata(<<>>, <<>>))
      BY <1>1, <1>u, <2>2, <2>4 DEF Open
    <2>. QED
      BY <2>3, <2>4
  <1>2. CASE Record
    <2> DEFINE b == Metadata(errors', segments)
    <2>1. b \in Nat
      BY StepBatch, MetadataTyped DEF Typed
    <2>2. held' = held
      BY <1>2 DEF Record, parsing
    <2> HIDE DEF b
    <2>3. UNCHANGED memory \/ (Fits(charge["metadata"], b) /\ Resize("metadata", b))
      BY <1>2 DEF Record, b
    <2>4. charge["metadata"] \in Nat /\ charge["metadata"] <= charge["metadata"]
      BY <1>n, <1>h
    <2>. QED
      BY <1>0, <1>h, <1>u, <2>1, <2>2, <2>3, <2>4, ResizeKeepsAccount
  <1>3. CASE TakeHeadroom
    <2>1. held[next] \in Nat
      BY <1>3, WaveFacts DEF TakeHeadroom, Waves, OverWave, Typed
    <2>2. held' = held
      BY <1>3 DEF TakeHeadroom, parsing
    <2>3. \/ UNCHANGED memory
          \/ Fits(charge["headroom"], held[next]) /\ Resize("headroom", held[next])
      BY <1>3 DEF TakeHeadroom
    <2>4. charge["headroom"] \in Nat /\ charge["headroom"] <= charge["headroom"]
      BY <1>n, <1>h
    <2>. QED
      BY <1>0, <1>h, <1>u, <2>1, <2>2, <2>3, <2>4, ResizeKeepsAccount
  <1>4. CASE Store
    <2> DEFINE b == Retained(active')
    <2>1. b \in Nat
      BY StepBatch, RetainedTyped
    <2>2. next \in DOMAIN scan /\ held[next] \in Nat
      BY <1>4, WaveFacts DEF Store, Waves, OverWave, Typed
    <2>3. Total(held') = Total(held) - held[next]
      <3>1. held' = [held EXCEPT ![next] = 0]
        BY <1>4 DEF Store
      <3>2. Total([held EXCEPT ![next] = 0]) = Total(held) - held[next] + 0
        BY <2>2, HeldUpdate
      <3>. QED
        BY <1>0, <2>2, <3>1, <3>2
    <2> HIDE DEF b
    <2>4. CASE used - held[next] - charge.active + b > opt.memory
      <3>1. used' = used - held[next] /\ charge' = charge
        BY <1>4, <2>4 DEF Store, b
      <3>. QED
        BY <1>0, <2>2, <2>3, <3>1 DEF BudgetExact
    <2>5. CASE used - held[next] - charge.active + b <= opt.memory
      <3>1. ~ (used - held[next] - charge.active + b > opt.memory)
        BY <1>0, <1>n, <1>h, <2>1, <2>2, <2>5
      <3>2. /\ charge' = [charge EXCEPT !["active"] = b, !["headroom"] = 0]
            /\ used' = used - held[next] - charge.active + b - charge.headroom
        BY <1>4, <3>1 DEF Store, b
      <3>3. /\ charge'["active"] = b /\ charge'["headroom"] = 0
            /\ \A x \in Holders \ {"active", "headroom"} : charge'[x] = charge[x]
        BY <1>0, <1>h, <3>2
      <3>4. Total(charge') = Total(charge) - charge["active"] + charge'["active"]
                                           - charge["headroom"] + charge'["headroom"]
        BY <1>0, <1>c, <1>h, <3>3, TwoCharges
      <3>. QED
        BY <1>0, <1>n, <1>h, <2>1, <2>2, <2>3, <2>5, <3>2, <3>3, <3>4 DEF BudgetExact
    <2>. QED
      BY <1>0, <1>n, <1>h, <2>1, <2>2, <2>4, <2>5
  <1>5. CASE Flush
    <2> DEFINE b == Metadata(errors, WithBatch)
    <2>1. b \in Nat
      BY WithBatchTyped, MetadataTyped DEF Typed
    <2>2. held' = held
      BY <1>5 DEF Flush, parsing
    <2> HIDE DEF b
    <2>3. \/ UNCHANGED memory
          \/ /\ charge' = [charge EXCEPT !["active"] = 0]
             /\ used' = used - charge.active
          \/ /\ charge' = [charge EXCEPT !["active"] = 0, !["metadata"] = b]
             /\ used' = used - charge.active - charge.metadata + b
             /\ ~ (used - charge.active - charge.metadata + b > opt.memory)
      BY <1>5 DEF Flush, WithBatch, b
    <2>4. CASE /\ charge' = [charge EXCEPT !["active"] = 0]
               /\ used' = used - charge.active
      <3>1. Total(charge') = Total(charge) - charge["active"] + 0
        BY <1>0, <1>h, <2>4, ChargeUpdate
      <3>. QED
        BY <1>0, <1>n, <1>h, <2>2, <2>4, <3>1 DEF BudgetExact
    <2>5. CASE /\ charge' = [charge EXCEPT !["active"] = 0, !["metadata"] = b]
               /\ used' = used - charge.active - charge.metadata + b
               /\ ~ (used - charge.active - charge.metadata + b > opt.memory)
      <3>1. /\ charge'["active"] = 0 /\ charge'["metadata"] = b
            /\ \A x \in Holders \ {"active", "metadata"} : charge'[x] = charge[x]
        BY <1>0, <1>h, <2>5
      <3>2. Total(charge') = Total(charge) - charge["active"] + charge'["active"]
                                           - charge["metadata"] + charge'["metadata"]
        BY <1>0, <1>c, <1>h, <3>1, TwoCharges
      <3>. QED
        BY <1>0, <1>n, <1>h, <2>1, <2>2, <2>5, <3>1, <3>2 DEF BudgetExact
    <2>. QED
      BY <1>u, <2>2, <2>3, <2>4, <2>5
  <1>6. CASE MakeCandidate
    <2>1. MergeBytes \in Nat
      BY Constants, LenProperties DEF MergeBytes, Lower, OptionRecords, Typed
    <2>2. held' = held
      BY <1>6 DEF MakeCandidate, parsing
    <2>3. UNCHANGED memory \/ (Fits(0, MergeBytes) /\ Resize("merge", MergeBytes))
      BY <1>6 DEF MakeCandidate
    <2>4. 0 <= charge["merge"]
      BY <1>n, <1>h
    <2>. QED
      BY <1>0, <1>h, <1>u, <2>1, <2>2, <2>3, <2>4, ResizeKeepsAccount
  <1>7. CASE RemoveInputs
    <2>1. held' = held
      BY <1>7 DEF RemoveInputs, parsing
    <2>2. \/ UNCHANGED memory
          \/ /\ charge' = [charge EXCEPT !["merge"] = 0]
             /\ used' = used - charge.merge
      BY <1>7 DEF RemoveInputs
    <2>3. CASE /\ charge' = [charge EXCEPT !["merge"] = 0]
               /\ used' = used - charge.merge
      <3>1. Total(charge') = Total(charge) - charge["merge"] + 0
        BY <1>0, <1>h, <2>3, ChargeUpdate
      <3>. QED
        BY <1>0, <1>n, <1>h, <2>1, <2>3, <3>1 DEF BudgetExact
    <2>. QED
      BY <1>u, <2>1, <2>2, <2>3
  <1>8. CASE PublishCandidate
    <2>1. held' = held /\ ManifestBytes \in Nat
      BY <1>8 DEF PublishCandidate, parsing, ManifestBytes
    <2>2. \/ UNCHANGED memory
          \/ Fits(0, ManifestBytes) /\ Resize("manifest", ManifestBytes)
      BY <1>8 DEF PublishCandidate
    <2>3. 0 <= charge["manifest"]
      BY <1>n, <1>h
    <2>. QED
      BY <1>0, <1>h, <1>u, <2>1, <2>2, <2>3, ResizeKeepsAccount
  <1>9. CASE Ending
    <2>1. /\ held' = [i \in DOMAIN scan |-> 0] /\ charge' = [h \in Holders |-> 0]
          /\ used' = used - Total(held) - Total(charge)
      BY <1>9 DEF Ending, Leave, Unwind, Release
    <2>2. Total(held') = 0 /\ Total(charge') = 0
      BY <2>1, NothingHeld
    <2>. QED
      BY <1>0, <2>1, <2>2 DEF BudgetExact
  <1>10. CASE ParserSteps
    <2> SUFFICES ASSUME NEW i \in DOMAIN scan, Parser(i) PROVE BudgetExact'
      BY <1>10 DEF ParserSteps
    <2>1. held[i] \in Nat
      BY DEF Typed
    <2>2. ASSUME NEW b \in Nat, held' = [held EXCEPT ![i] = b], charge' = charge,
                 used' = used - held[i] + b, used - held[i] + b <= opt.memory
          PROVE  BudgetExact'
      <3>1. Total(held') = Total(held) - held[i] + b
        BY <2>2, HeldUpdate
      <3>. QED
        BY <1>0, <2>1, <2>2, <3>1 DEF BudgetExact
    <2>3. CASE \E as \in Outcomes : Ends(i, as)
      <3>1. /\ held' = [held EXCEPT ![i] = 0] /\ charge' = charge
            /\ used' = used - held[i]
        BY <2>3 DEF Ends, Released
      <3>2. used - held[i] = used - held[i] + 0 /\ used - held[i] + 0 <= opt.memory
        BY <1>0, <2>1
      <3>. QED
        BY <2>2, <3>1, <3>2
    <2>4. CASE Reserve(i)
      <3>1. Ends(i, "refused") \/
              LET b == scan[i].grow[grown[i] + 1]
              IN  /\ grown[i] < Len(scan[i].grow)
                  /\ held' = [held EXCEPT ![i] = b] /\ charge' = charge
                  /\ used' = used - held[i] + b /\ used - held[i] + b <= opt.memory
        BY <2>4 DEF Reserve, Fits, Others
      <3>2. grown[i] < Len(scan[i].grow) => scan[i].grow[grown[i] + 1] \in Nat
        BY NextGrow
      <3>. QED
        BY <2>2, <2>3, <3>1, <3>2 DEF Outcomes
    <2>5. CASE ParseFails(i)
      BY <2>3, <2>5 DEF ParseFails, Outcomes
    <2>6. CASE Parsed(i)
      BY <1>u, <2>6 DEF Parsed
    <2>. QED
      BY <2>4, <2>5, <2>6 DEF Parser
  <1>11. CASE StartWorker
    BY <1>u, <1>11 DEF StartWorker
  <1>. QED
    BY <1>u, <1>1, <1>2, <1>3, <1>4, <1>5, <1>6, <1>7, <1>8, <1>9, <1>10, <1>11,
       Frame DEF parsing

-----------------------------------------------------------------------------
(* The waves. *)

LEMMA SameWave ==
  ASSUME Next, begin' = begin
  PROVE  WaveEnd' = WaveEnd /\ Wave' = Wave
  BY Frame DEF files, WaveEnd, Wave, Lower

\* A step of the building thread that touches neither the workers nor the
\* wave, and goes no step back.
LEMMA WavesKept ==
  ASSUME Typed, Waves, Next, worker' = worker, begin' = begin,
         OverWave' => OverWave /\ next' \in Wave,
         pc' # "open", pc' = "start" => pc = "start" /\ next' >= next,
         pc' = "join" => pc = "join" /\ next' = next,
         pc' = "rethrow" => next' = begin,
         pc' \in {"start", "join", "unwind"} \/ pc \notin {"start", "join", "unwind"}
  PROVE  Waves'
  <1>1. scan' = scan /\ WaveEnd' = WaveEnd /\ Wave' = Wave
    BY SameWave, Frame DEF files
  <1>2. \A i : Running(i)' = Running(i)
    BY DEF Running
  <1>3. next \in Nat /\ next' \in Nat /\ DOMAIN scan = 1 .. Len(scan) /\ Len(scan) \in Nat
    BY StepPosition, Constants DEF Typed
  <1>. QED
    BY <1>1, <1>2, <1>3 DEF Waves

LEMMA StepWaves ==
  ASSUME Typed, Waves, Next
  PROVE  Waves'
  <1>0. /\ scan' = scan /\ next \in Nat /\ begin \in Nat \ {0}
        /\ DOMAIN scan = 1 .. Len(scan) /\ Len(scan) \in Nat
        /\ WaveEnd \in Int /\ WaveEnd <= Len(scan) /\ Wave = begin .. WaveEnd
    BY Frame, Constants, WaveFacts DEF files, Typed
  <1>1. CASE Open
    <2>1. /\ worker' = worker /\ begin' = begin /\ next' = next
          /\ pc' \in {"start", "assemble", "unwind"}
          /\ pc' = "start" => scan # <<>>
          /\ begin = 1 /\ next = 1 /\ \A i \in DOMAIN scan : worker[i] = "no"
      BY <1>1 DEF Open, parsing, Fail, Waves
    <2>2. WaveEnd' = WaveEnd /\ Wave' = Wave
      BY <2>1, SameWave
    <2>3. scan # <<>> => Len(scan) >= 1
      BY Constants, EmptySeq
    <2>4. pc' = "start" => next \in Wave
      BY <1>0, <2>1, <2>3, WaveFacts
    <2>. QED
      BY <1>0, <2>1, <2>2, <2>4 DEF Waves, OverWave, Running
  <1>2. CASE StartWorker
    <2>1. /\ pc = "start" /\ OverWave /\ begin' = begin /\ next \in Wave
          /\ worker' = [worker EXCEPT ![next] = "running"]
          /\ \/ next < WaveEnd /\ next' = next + 1 /\ pc' = "start"
             \/ ~ (next < WaveEnd) /\ next' = begin /\ pc' = "join"
      BY <1>2 DEF StartWorker, LoopTo, Waves, OverWave
    <2>2. WaveEnd' = WaveEnd /\ Wave' = Wave
      BY <2>1, SameWave
    <2>3. next' \in Wave
      BY <1>0, <2>1
    <2>4. worker \in [DOMAIN scan -> Outcomes]
      BY DEF Typed
    <2>5. \A i \in DOMAIN scan : i # next => worker'[i] = worker[i]
      BY <2>1, <2>4
    <2>6. \A i \in DOMAIN scan : i > WaveEnd => worker'[i] = "no"
      BY <1>0, <2>1, <2>5 DEF Waves
    <2>7. pc' = "start" => \A i \in DOMAIN scan : i >= next' => worker'[i] = "no"
      BY <1>0, <2>1, <2>5 DEF Waves
    <2>8. \A i \in DOMAIN scan : i < begin => worker'[i] # "running"
      BY <1>0, <2>1, <2>5 DEF Waves, Running
    <2>9. pc' = "join" => \A i \in DOMAIN scan : i \notin begin .. (next' - 1)
      BY <1>0, <2>1
    <2>. QED
      BY <1>0, <2>1, <2>2, <2>3, <2>6, <2>7, <2>8, <2>9 DEF Waves, Running
  <1>3. CASE Join
    <2>1. /\ pc = "join" /\ OverWave /\ begin' = begin /\ next \in Wave
          /\ worker' = worker /\ ~ Running(next)
          /\ \/ pc' = "unwind" /\ next' = next
             \/ next < WaveEnd /\ next' = next + 1 /\ pc' = "join"
             \/ ~ (next < WaveEnd) /\ next' = begin /\ pc' = "record"
      BY <1>3 DEF Join, Ready, Running, LoopTo, Fail, parsing, Waves, OverWave
    <2>2. WaveEnd' = WaveEnd /\ Wave' = Wave
      BY <2>1, SameWave
    <2>3. next' \in Wave
      BY <1>0, <2>1
    <2>4. \A i \in DOMAIN scan : Running(i)' = Running(i)
      BY <2>1 DEF Running
    <2>5. \A i \in DOMAIN scan : i \in begin .. next => ~ Running(i)
      BY <1>0, <2>1 DEF Waves
    <2>6. pc' = "join" => \A i \in DOMAIN scan : i \in begin .. (next' - 1) => ~ Running(i)
      BY <1>0, <2>1, <2>5
    <2>7. pc' = "record" => \A i \in DOMAIN scan : ~ Running(i)
      <3> SUFFICES ASSUME pc' = "record", NEW i \in DOMAIN scan PROVE ~ Running(i)
        OBVIOUS
      <3>1. next = WaveEnd
        BY <1>0, <2>1
      <3>2. CASE i > WaveEnd
        BY <2>1, <3>2 DEF Waves, Running
      <3>3. CASE i < begin
        BY <2>1, <3>3 DEF Waves
      <3>4. CASE i \in begin .. next
        BY <2>5, <3>4
      <3>. QED
        BY <1>0, <3>1, <3>2, <3>3, <3>4
    <2>. QED
      BY <1>0, <2>1, <2>2, <2>3, <2>4, <2>6, <2>7 DEF Waves
  <1>4. CASE Record
    <2>1. /\ worker' = worker /\ begin' = begin /\ pc = "record" /\ OverWave
          /\ \/ pc' = "unwind" /\ next' = next
             \/ next < WaveEnd /\ next' = next + 1 /\ pc' = "record"
             \/ ~ (next < WaveEnd) /\ next' = begin /\ pc' = "rethrow"
      BY <1>4 DEF Record, LoopTo, Fail, parsing, OverWave
    <2>2. next' \in Wave
      BY <1>0, <2>1 DEF Waves
    <2>. QED
      BY <2>1, <2>2, WavesKept DEF OverWave
  <1>5. CASE Rethrow \/ TakeHeadroom \/ Store
    <2>1. /\ worker' = worker /\ begin' = begin /\ next' = next /\ OverWave
          /\ pc' \in {"unwind", "commit", "store", "flush", "next"}
          /\ pc \notin {"start", "join", "unwind"}
      BY <1>5 DEF Rethrow, TakeHeadroom, Store, Fail, parsing, OverWave
    <2>. QED
      BY <2>1, WavesKept DEF Waves
  <1>6. CASE NextFile
    <2>1. /\ worker' = worker /\ OverWave /\ pc \in {"next", "commit"}
          /\ \/ /\ next < WaveEnd /\ next' = next + 1 /\ pc' = "commit" /\ begin' = begin
             \/ /\ ~ (next < WaveEnd) /\ next' = WaveEnd + 1 /\ begin' = WaveEnd + 1
                /\ \/ WaveEnd = Len(scan) /\ pc' = "assemble"
                   \/ WaveEnd # Len(scan) /\ pc' = "start"
      BY <1>6 DEF NextFile, NextWave, parsing, OverWave
    <2>2. next \in Wave
      BY <2>1 DEF Waves
    <2>3. CASE pc' = "commit"
      <3>1. next' \in Wave
        BY <1>0, <2>1, <2>2, <2>3
      <3>. QED
        BY <2>1, <2>3, <3>1, WavesKept DEF OverWave
    <2>4. CASE pc' \in {"assemble", "start"}
      <3>1. \A i \in DOMAIN scan : Running(i)' = Running(i)
        BY <2>1 DEF Running
      <3>2. \A i \in DOMAIN scan : ~ Running(i)
        BY <2>1 DEF Waves
      <3>3. pc' = "start" => \A i \in DOMAIN scan : i >= next' => worker'[i] = "no"
        <4>1. next' = WaveEnd + 1 /\ worker' = worker
          BY <2>1, <2>4
        <4>2. \A i \in DOMAIN scan : i > WaveEnd => worker[i] = "no"
          BY <2>1 DEF Waves
        <4>. QED
          BY <1>0, <4>1, <4>2
      <3>4. pc' = "start" => /\ next' \in Wave'
                             /\ \A i \in DOMAIN scan : i > WaveEnd' => worker'[i] = "no"
        <4>1. opt' = opt /\ opt.workers \in Nat /\ opt.workers > 0
          BY Frame, Constants DEF files, OptionRecords
        <4>2. pc' = "start" => /\ WaveEnd' \in Int /\ WaveEnd' >= next' /\ begin' = next'
                               /\ next' \in Nat /\ Wave' = begin' .. WaveEnd'
          BY <1>0, <2>1, <2>2, <2>4, <4>1 DEF WaveEnd, Lower, Wave
        <4>. QED
          BY <1>0, <3>3, <4>2
      <3>. QED
        BY <1>0, <2>4, <3>1, <3>2, <3>3, <3>4 DEF Waves, OverWave
    <2>. QED
      BY <2>1, <2>3, <2>4
  <1>7. CASE Flush
    <2>1. /\ worker' = worker /\ begin' = begin /\ next' = next /\ pc = "flush"
          /\ back' = back /\ (pc' = "unwind" \/ pc' = back)
      BY <1>7 DEF Flush, Fail, parsing
    <2>2. back \in {"next", "commit", "candidate"}
      BY DEF Typed
    <2>. QED
      BY <2>1, <2>2, WavesKept DEF Waves, OverWave
  <1>8. CASE Assemble \/ MakeCandidate \/ NextLevel \/ PassOn \/ MergeGroup
    <2>1. /\ worker' = worker /\ begin' = begin
          /\ pc' \in {"flush", "unwind", "publish", "level", "remove"}
          /\ pc' = "flush" => back' = "candidate"
          /\ pc \notin {"start", "join", "unwind"}
      BY <1>8 DEF Assemble, MakeCandidate, NextLevel, PassOn, MergeGroup, Fail, parsing
    <2>. QED
      BY <2>1, WavesKept DEF OverWave
  <1>9. CASE RemoveInputs \/ PublishCandidate \/ Leave
    <2>1. /\ worker' = worker /\ begin' = begin
          /\ pc' \in {"unwind", "publish", "level", "leave", "done"}
          /\ pc \notin {"start", "join", "unwind"}
      BY <1>9 DEF RemoveInputs, PublishCandidate, Leave, Release, Fail, parsing
    <2>. QED
      BY <2>1, WavesKept DEF OverWave
  <1>10. CASE Unwind
    <2>1. /\ worker' = worker /\ pc' = "failed" /\ \A i \in DOMAIN scan : ~ Running(i)
      BY <1>10 DEF Unwind, Joined, Release
    <2>. QED
      BY <1>0, <2>1 DEF Waves, OverWave, Running
  <1>11. CASE SystemFails
    <2>1. worker' = worker /\ begin' = begin /\ pc' = "unwind"
      BY <1>11 DEF SystemFails, Fail, parsing
    <2>. QED
      BY <2>1, WavesKept DEF OverWave
  <1>12. CASE ParserSteps
    <2> SUFFICES ASSUME NEW i \in DOMAIN scan, Parser(i) PROVE Waves'
      BY <1>12 DEF ParserSteps
    <2>1. /\ worker[i] = "running"
          /\ pc' = pc /\ back' = back /\ begin' = begin /\ next' = next
      BY DEF Parser, Reserve, ParseFails, Parsed, Running
    <2>2. \A j \in DOMAIN scan : j # i => worker'[j] = worker[j]
      BY DEF Parser, Reserve, ParseFails, Parsed, Ends, Typed
    <2>3. WaveEnd' = WaveEnd /\ Wave' = Wave
      BY <2>1, SameWave
    <2>4. pc \in {"start", "join", "unwind"}
      BY <2>1 DEF Waves, Running
    <2>5. OverWave' = OverWave
      BY <2>1 DEF OverWave
    <2>6. \A j \in DOMAIN scan : worker[j] # "running" => worker'[j] = worker[j]
      BY <2>1, <2>2
    <2>7. \A j \in DOMAIN scan : worker[j] = "no" => worker'[j] = "no"
      BY <2>6
    <2>. QED
      BY <1>0, <2>1, <2>3, <2>4, <2>5, <2>6, <2>7 DEF Waves, Running
  <1>. QED
    BY <1>1, <1>2, <1>3, <1>4, <1>5, <1>6, <1>7, <1>8, <1>9, <1>10, <1>11, <1>12
    DEF Next, Builder, ParserSteps

-----------------------------------------------------------------------------
(* What is held. *)

LEMMA StepHoldings ==
  ASSUME Typed, Waves, Holdings, Next
  PROVE  Holdings'
  <1>0. /\ scan' = scan /\ next \in Nat /\ begin \in Nat \ {0}
        /\ DOMAIN scan = 1 .. Len(scan) /\ Len(scan) \in Nat
        /\ WaveEnd \in Int /\ WaveEnd <= Len(scan) /\ Wave = begin .. WaveEnd
        /\ held \in [DOMAIN scan -> Nat] /\ worker \in [DOMAIN scan -> Outcomes]
    BY Frame, Constants, WaveFacts DEF files, Typed
  <1>d. \A i \in DOMAIN scan : Demand(i)' = Demand(i) /\ Demand(i) \in Nat
    BY <1>0, FileFacts DEF Demand
  <1>k. ASSUME worker' = worker, held' = held, begin' = begin,
               OverWave' => OverWave,
               Committing' => (Committing /\ next' = next) \/ next' = begin,
               ~ Taken'
        PROVE  Holdings'
    <2>1. Committing' => OverWave'
      BY DEF Committing, OverWave
    <2>. QED
      BY <1>0, <1>d, <1>k, <2>1 DEF Holdings
  <1>1. CASE Open
    <2>1. /\ worker' = worker /\ held' = held /\ begin' = begin
          /\ pc' \in {"start", "assemble", "unwind"}
          /\ begin = 1
      BY <1>1 DEF Open, parsing, Fail, Waves
    <2>. QED
      BY <1>0, <1>d, <2>1 DEF Holdings, OverWave, Committing, Taken
  <1>2. CASE StartWorker
    <2>1. /\ pc = "start" /\ begin' = begin /\ held' = held /\ next \in Wave
          /\ worker' = [worker EXCEPT ![next] = "running"]
          /\ pc' \in {"start", "join"}
      BY <1>2 DEF StartWorker, LoopTo, Waves, OverWave
    <2>. QED
      BY <1>0, <1>d, <2>1 DEF Holdings, OverWave, Committing, Taken
  <1>3. CASE Join \/ Record
    <2>1. /\ worker' = worker /\ held' = held /\ begin' = begin
          /\ pc \in {"join", "record"} /\ pc' \in {"join", "record", "rethrow", "unwind"}
      BY <1>3 DEF Join, Record, LoopTo, Fail, parsing
    <2>. QED
      BY <1>k, <2>1 DEF OverWave, Committing, Taken
  <1>4. CASE Rethrow
    <2>1. /\ worker' = worker /\ held' = held /\ begin' = begin /\ next' = next
          /\ pc = "rethrow" /\ pc' \in {"commit", "unwind"} /\ next = begin
      BY <1>4 DEF Rethrow, Fail, parsing, Waves
    <2>. QED
      BY <1>k, <2>1 DEF OverWave, Committing, Taken
  <1>5. CASE TakeHeadroom
    <2>1. /\ worker' = worker /\ held' = held /\ begin' = begin /\ next' = next
          /\ pc = "commit" /\ pc' \in {"store", "flush", "unwind"}
          /\ pc' = "flush" => back' = "commit"
      BY <1>5 DEF TakeHeadroom, Fail, parsing
    <2>. QED
      BY <1>k, <2>1 DEF OverWave, Committing, Taken
  <1>6. CASE Store
    <2>1. /\ worker' = worker /\ held' = [held EXCEPT ![next] = 0]
          /\ begin' = begin /\ next' = next /\ pc = "store"
          /\ pc' \in {"next", "flush", "unwind"}
          /\ pc' = "flush" => back' = "next"
      BY <1>6 DEF Store, Fail
    <2>2. next \in DOMAIN scan
      BY <2>1, WaveFacts DEF Waves, OverWave
    <2>3. held'[next] = 0 /\ \A i \in DOMAIN scan : i # next => held'[i] = held[i]
      BY <1>0, <2>1, <2>2
    <2>4. OverWave /\ Committing
      BY <2>1 DEF OverWave, Committing
    <2>. QED
      BY <1>0, <1>d, <2>1, <2>2, <2>3, <2>4 DEF Holdings
  <1>7. CASE NextFile
    <2>1. /\ worker' = worker /\ held' = held /\ OverWave /\ Committing
          /\ pc = "next" \/ (pc = "commit" /\ ~ HasDocument(next))
          /\ \/ /\ next < WaveEnd /\ next' = next + 1 /\ begin' = begin
             \/ ~ (next < WaveEnd) /\ next' = WaveEnd + 1 /\ begin' = WaveEnd + 1
          /\ pc' \in {"commit", "assemble", "start"}
      BY <1>7 DEF NextFile, NextWave, parsing, OverWave, Committing
    <2>2. next \in Wave
      BY <2>1 DEF Waves
    <2>3. held[next] = 0
      <3>1. CASE pc = "next"
        BY <3>1 DEF Holdings, Taken
      <3>2. CASE pc = "commit" /\ ~ HasDocument(next)
        <4>1. next \in DOMAIN scan /\ ~ Running(next)
          BY <2>2, <3>2, WaveFacts DEF Waves
        <4>. QED
          BY <3>2, <4>1 DEF Holdings, HasDocument, Running
      <3>. QED
        BY <2>1, <3>1, <3>2
    <2>4. \A i \in DOMAIN scan : i <= next => held[i] = 0
      BY <1>0, <2>1, <2>3 DEF Holdings
    <2>5. next' = next + 1 /\ begin' <= next'
      BY <1>0, <2>1, <2>2
    <2>6. \A i \in DOMAIN scan : i < next' => held'[i] = 0
      BY <1>0, <2>1, <2>4, <2>5
    <2>7. begin' \in Nat /\ next' \in Nat
      BY StepPosition
    <2>8. \A i \in DOMAIN scan : i < begin' => held'[i] = 0
      BY <1>0, <2>5, <2>6, <2>7
    <2>9. ~ Taken'
      BY <2>1 DEF Taken
    <2>. QED
      BY <1>0, <1>d, <2>1, <2>6, <2>8, <2>9 DEF Holdings
  <1>8. CASE Flush
    <2>1. /\ worker' = worker /\ held' = held /\ begin' = begin /\ next' = next
          /\ pc = "flush" /\ back' = back /\ pc' \in {"unwind", back}
      BY <1>8 DEF Flush, Fail, parsing
    <2>2. back \in {"next", "commit", "candidate"}
      BY DEF Typed
    <2>3. /\ OverWave' => OverWave /\ (Committing' => Committing)
          /\ Taken' => Taken
      BY <2>1, <2>2 DEF OverWave, Committing, Taken
    <2>4. Committing' => Committing
      BY <2>1, <2>2 DEF Committing
    <2>. QED
      BY <1>0, <1>d, <2>1, <2>3, <2>4 DEF Holdings
  <1>9. CASE Assemble \/ MakeCandidate \/ NextLevel \/ PassOn \/ MergeGroup
    <2>1. /\ worker' = worker /\ held' = held /\ begin' = begin
          /\ pc' \in {"flush", "unwind", "publish", "level", "remove"}
          /\ pc' = "flush" => back' = "candidate"
      BY <1>9 DEF Assemble, MakeCandidate, NextLevel, PassOn, MergeGroup, Fail, parsing
    <2>. QED
      BY <1>k, <2>1 DEF OverWave, Committing, Taken
  <1>10. CASE RemoveInputs \/ PublishCandidate \/ SystemFails
    <2>1. /\ worker' = worker /\ held' = held /\ begin' = begin
          /\ pc' \in {"unwind", "publish", "level", "leave"}
      BY <1>10 DEF RemoveInputs, PublishCandidate, SystemFails, Fail, parsing
    <2>. QED
      BY <1>k, <2>1 DEF OverWave, Committing, Taken
  <1>11. CASE Ending
    <2>1. worker' = worker /\ held' = [i \in DOMAIN scan |-> 0]
          /\ pc' \in {"done", "failed"}
      BY <1>11 DEF Ending, Leave, Unwind, Release
    <2>2. \A i \in DOMAIN scan : held'[i] = 0 /\ held'[i] <= Demand(i)
      BY <1>d, <2>1
    <2>3. ~ OverWave' /\ ~ Committing' /\ ~ Taken'
      BY <2>1 DEF OverWave, Committing, Taken
    <2>. QED
      BY <1>0, <1>d, <2>2, <2>3 DEF Holdings
  <1>12. CASE ParserSteps
    <2> SUFFICES ASSUME NEW i \in DOMAIN scan, Parser(i) PROVE Holdings'
      BY <1>12 DEF ParserSteps
    <2>1. /\ worker[i] = "running"
          /\ pc' = pc /\ back' = back /\ begin' = begin /\ next' = next
      BY DEF Parser, Reserve, ParseFails, Parsed, Running
    <2>2. /\ \A j \in DOMAIN scan : j # i => worker'[j] = worker[j] /\ held'[j] = held[j]
      BY <1>0 DEF Parser, Reserve, ParseFails, Parsed, Ends
    <2>3. /\ held'[i] <= Demand(i)
          /\ worker'[i] \notin {"running", "parsed"} => held'[i] = 0
      <3>1. CASE Reserve(i)
        <4>1. Ends(i, "refused") \/
                /\ grown[i] + 1 \in DOMAIN scan[i].grow /\ worker' = worker
                /\ held' = [held EXCEPT ![i] = scan[i].grow[grown[i] + 1]]
          <5>1. grown[i] \in Nat /\ scan[i].grow \in Seq(Nat)
            BY FileFacts DEF Typed
          <5>2. grown[i] < Len(scan[i].grow) => grown[i] + 1 \in DOMAIN scan[i].grow
            BY <5>1, LenProperties
          <5>. QED
            BY <3>1, <5>2 DEF Reserve
        <4>2. CASE Ends(i, "refused")
          BY <1>0, <1>d, <4>2 DEF Ends
        <4>. QED
          BY <1>0, <2>1, <4>1, <4>2, FileFacts
      <3>2. CASE ParseFails(i)
        BY <1>0, <1>d, <3>2 DEF ParseFails, Ends
      <3>3. CASE Parsed(i)
        BY <1>0, <3>3 DEF Parsed, Holdings
      <3>. QED
        BY <3>1, <3>2, <3>3 DEF Parser
    <2>4. pc \in {"start", "join", "unwind"}
      BY <2>1 DEF Waves, Running
    <2>5. OverWave' = OverWave /\ ~ Committing' /\ ~ Taken'
      BY <2>1, <2>4 DEF OverWave, Committing, Taken
    <2>6. OverWave => i >= begin
      BY <1>0, <2>1 DEF Waves, Running
    <2>7. OverWave => \A j \in DOMAIN scan : j < begin => held'[j] = 0
      BY <1>0, <2>2, <2>6 DEF Holdings
    <2>. QED
      BY <1>0, <1>d, <2>1, <2>2, <2>3, <2>5, <2>7 DEF Holdings
  <1>. QED
    BY <1>1, <1>2, <1>3, <1>4, <1>5, <1>6, <1>7, <1>8, <1>9, <1>10, <1>11, <1>12
    DEF Next, Builder, Ending, ParserSteps

-----------------------------------------------------------------------------
(* Refusals. *)

\* Whatever the parsers of a wave hold, they need no more than their peaks.
LEMMA WaveNeeds ==
  ASSUME Typed, Waves, Holdings, pc \in {"start", "join"},
         NEW i \in Wave, NEW b \in Nat, b <= Demand(i)
  PROVE  Total(held) - held[i] + b <= Total([j \in Wave |-> Demand(j)])
  <1> DEFINE h == [held EXCEPT ![i] = b]
             w == [j \in Wave |-> h[j]]
             d == [j \in Wave |-> Demand(j)]
  <1>1. /\ Wave \subseteq DOMAIN scan /\ Wave = begin .. WaveEnd /\ IsFiniteSet(Wave)
        /\ IsFiniteSet(DOMAIN scan) /\ begin \in Nat /\ WaveEnd \in Int
        /\ DOMAIN scan = 1 .. Len(scan) /\ Len(scan) \in Nat
        /\ held \in [DOMAIN scan -> Nat]
    BY WaveFacts, Constants, FS_Subset DEF Typed
  <1>2. Total(h) = Total(held) - held[i] + b
    BY <1>1, HeldUpdate
  <1>3. \A j \in DOMAIN scan \ Wave : held[j] = 0
    BY <1>1 DEF Holdings, Waves, OverWave
  <1>4. h \in [DOMAIN scan -> Int] /\ \A j \in DOMAIN scan \ Wave : h[j] = 0
    BY <1>1, <1>3
  <1>5. \A j \in Wave : h[j] \in Int /\ Demand(j) \in Int /\ h[j] <= Demand(j)
    BY <1>1, FileFacts DEF Holdings
  <1>6. w \in [Wave -> Int] /\ d \in [Wave -> Int] /\ \A j \in Wave : w[j] <= d[j]
    BY <1>5
  <1> HIDE DEF h
  <1>7. SumOf(h) = SumOf(w)
    BY <1>1, <1>4, SumRestrict
  <1> HIDE DEF w, d
  <1>8. SumOf(w) <= SumOf(d)
    BY <1>1, <1>6, SumMonotone
  <1>9. Total(h) = SumOf(h) /\ Total(d) = SumOf(d)
    BY DEF Total, SumOf
  <1>. QED
    BY <1>2, <1>7, <1>8, <1>9 DEF d

LEMMA StepRefused ==
  ASSUME Typed, BudgetExact, Waves, Holdings, RefusedOnlyWhenTooBig, Next
  PROVE  RefusedOnlyWhenTooBig'
  <1> SUFFICES ASSUME pc' \in {"start", "join"},
                      NEW k \in Wave', worker'[k] = "refused"
               PROVE  (Total([j \in Wave |-> Demand(j)]) + Total(charge) > opt.memory)'
    BY DEF RefusedOnlyWhenTooBig
  <1>0. scan' = scan /\ opt' = opt
    BY Frame DEF files
  <1>w. Waves' /\ Typed'
    BY StepWaves, StepTyped
  <1>k. k \in DOMAIN scan /\ k >= begin'
    <2>1. begin' \in Nat \ {0} /\ Wave' = begin' .. WaveEnd'
      BY StepPosition DEF Wave
    <2>2. WaveEnd' \in Int /\ WaveEnd' <= Len(scan)
      <3>1. /\ opt.workers \in Nat /\ Len(scan) \in Nat
            /\ WaveEnd' = Lower(begin' + opt.workers - 1, Len(scan))
        BY <1>0, Constants DEF WaveEnd, OptionRecords
      <3>. QED
        BY <2>1, <3>1 DEF Lower
    <2>. QED
      BY <2>1, <2>2, Constants
  <1>1. CASE Open \/ NextFile
    <2>1. pc' = "start" /\ begin' = next'
      BY <1>1 DEF Open, NextFile, Fail, Waves
    <2>. QED
      BY <1>0, <1>w, <1>k, <2>1 DEF Waves
  <1>2. ASSUME begin' = begin, charge' = charge, pc \in {"start", "join"},
               worker[k] = "refused"
        PROVE  (Total([j \in Wave |-> Demand(j)]) + Total(charge) > opt.memory)'
    <2>1. Wave' = Wave
      BY <1>2, SameWave
    <2>2. [j \in Wave |-> Demand(j)]' = [j \in Wave |-> Demand(j)]
      BY <1>0, <2>1 DEF Demand
    <2>. QED
      BY <1>0, <1>2, <2>1, <2>2 DEF RefusedOnlyWhenTooBig
  <1>3. CASE StartWorker
    BY <1>0, <1>2, <1>3, <1>k DEF StartWorker, LoopTo, memory, Typed
  <1>4. CASE Join
    BY <1>2, <1>4 DEF Join, LoopTo, memory, parsing, Fail
  <1>5. CASE ParserSteps
    <2> SUFFICES ASSUME NEW i \in DOMAIN scan, Parser(i)
                 PROVE  (Total([j \in Wave |-> Demand(j)]) + Total(charge) > opt.memory)'
      BY <1>5 DEF ParserSteps
    <2>1. /\ worker[i] = "running" /\ charge' = charge
          /\ pc' = pc /\ begin' = begin /\ next' = next
      BY DEF Parser, Reserve, ParseFails, Parsed, Ends, memory, Running
    <2>2. CASE k # i
      <3>1. worker'[k] = worker[k]
        BY <1>k, <2>2 DEF Parser, Reserve, ParseFails, Parsed, Ends, Typed
      <3>. QED
        BY <1>2, <2>1, <3>1
    <2>3. CASE k = i
      <3>1. Reserve(i) /\ grown[i] < Len(scan[i].grow)
            /\ ~ Fits(held[i], scan[i].grow[grown[i] + 1])
        BY <1>k, <2>1, <2>3 DEF Parser, Reserve, ParseFails, Parsed, Ends, Typed
      <3>2. grown[i] + 1 \in DOMAIN scan[i].grow /\ scan[i].grow[grown[i] + 1] \in Nat
            /\ scan[i].grow[grown[i] + 1] <= Demand(i)
        BY <3>1, NextGrow
      <3> DEFINE b == scan[i].grow[grown[i] + 1]
                 d == [j \in Wave |-> Demand(j)]
      <3>3. Wave' = Wave /\ i \in Wave
        BY <2>1, <2>3, SameWave
      <3>4. Total(held) - held[i] + b <= Total(d)
        BY <2>1, <3>2, <3>3, WaveNeeds
      <3>5. used - held[i] + b > opt.memory \/ ~ (used - held[i] + b <= opt.memory)
        BY <3>1 DEF Fits, Others
      <3>6. d' = d
        BY <1>0, <3>3 DEF Demand
      <3>7. /\ Total(held) \in Nat /\ Total(charge) \in Nat /\ held[i] \in Nat
            /\ opt.memory \in Nat /\ used = Total(held) + Total(charge)
        BY AccountsTyped, Constants DEF Typed, BudgetExact
      <3>8. Total(d) \in Int
        <4>1. Wave \subseteq DOMAIN scan /\ IsFiniteSet(Wave)
          BY WaveFacts, Constants, FS_Subset
        <4>2. d \in [Wave -> Int]
          BY <4>1, FileFacts
        <4> HIDE DEF d
        <4>. QED
          BY <4>1, <4>2, SumType DEF Total, SumOf
      <3> HIDE DEF b, d
      <3>9. Total(d) + Total(charge) > opt.memory
        BY <3>2, <3>4, <3>5, <3>7, <3>8 DEF b
      <3>. QED
        BY <1>0, <2>1, <3>6, <3>9 DEF d
    <2>. QED
      BY <2>2, <2>3
  <1>. QED
    <2>1. Open \/ NextFile \/ StartWorker \/ Join \/ ParserSteps
      BY DEF Next, Builder, ParserSteps, Record, LoopTo, Rethrow, TakeHeadroom, Store,
             Flush, Assemble, MakeCandidate, NextLevel, PassOn, MergeGroup,
             RemoveInputs, PublishCandidate, Leave, Unwind, SystemFails, Fail, Typed
    <2>. QED
      BY <1>1, <1>3, <1>4, <1>5, <2>1

LEMMA StepEmpty ==
  ASSUME Typed, BudgetExact, Waves, Empty, Next
  PROVE  Empty'
  <1> SUFFICES ASSUME pc' \in {"done", "failed"} PROVE used' = 0
    BY DEF Empty
  <1>1. CASE Ending
    <2>1. used' = used - Total(held) - Total(charge)
      BY <1>1 DEF Ending, Leave, Unwind, Release
    <2>2. /\ Total(held) \in Nat /\ Total(charge) \in Nat
          /\ used = Total(held) + Total(charge)
      BY AccountsTyped DEF BudgetExact
    <2>. QED
      BY <2>1, <2>2
  <1>2. CASE ParserSteps
    <2>1. pc \in {"start", "join", "unwind"}
      BY <1>2 DEF ParserSteps, Parser, Reserve, ParseFails, Parsed, Waves, Running
    <2>. QED
      BY <1>2, <2>1 DEF ParserSteps, Parser, Reserve, ParseFails, Parsed
  <1>. QED
    <2>1. Ending \/ ParserSteps
      BY DEF Next, Builder, ParserSteps, Ending, Open, StartWorker, Join, Record, LoopTo,
             Rethrow, TakeHeadroom, Store, NextFile, Flush, Assemble, MakeCandidate,
             NextLevel, PassOn, MergeGroup, RemoveInputs, PublishCandidate,
             SystemFails, Fail, Typed
    <2>. QED
      BY <1>1, <1>2, <2>1

-----------------------------------------------------------------------------
(* The inductive invariant. *)

LEMMA InitIInv == Init => IInv
  <1> SUFFICES ASSUME Init PROVE IInv
    OBVIOUS
  <1>1. scan \in Seq(Files) /\ DOMAIN scan = 1 .. Len(scan) /\ Len(scan) \in Nat
    BY BuildAssumption, LenProperties DEF Init
  <1>2. Typed
    <2>1. /\ errors \in Seq(Nat) /\ active \in Seq(DOMAIN scan) /\ segments \in Seq(Pieces)
          /\ fatal \in BOOLEAN
      BY EmptySeq DEF Init
    <2>2. /\ worker \in [DOMAIN scan -> Outcomes] /\ charge \in [Holders -> Nat]
          /\ grown \in [DOMAIN scan -> Nat] /\ held \in [DOMAIN scan -> Nat]
      BY DEF Init, Outcomes
    <2>. QED
      BY <2>1, <2>2 DEF Init, Typed, Steps
  <1>3. BudgetExact
    <2>1. Total(held) = 0 /\ Total(charge) = 0
      BY <1>2, NothingHeld DEF Init
    <2>. QED
      BY <1>2, <2>1, Constants DEF Init, BudgetExact
  <1>4. Waves
    BY DEF Init, Waves, OverWave, Running
  <1>5. Holdings
    BY <1>2, FileFacts DEF Init, Holdings, OverWave, Committing, Taken
  <1>6. Empty /\ RefusedOnlyWhenTooBig
    BY DEF Init, Empty, RefusedOnlyWhenTooBig
  <1>. QED
    BY <1>2, <1>3, <1>4, <1>5, <1>6 DEF IInv

LEMMA StepIInv == IInv /\ [Next]_vars => IInv'
  <1> SUFFICES ASSUME IInv, [Next]_vars PROVE IInv'
    OBVIOUS
  <1>1. CASE Next
    BY <1>1, StepTyped, StepBudget, StepWaves, StepHoldings, StepRefused, StepEmpty
    DEF IInv
  <1>2. CASE UNCHANGED vars
    <2> USE <1>2 DEF vars, files, parsing, memory, workspace
    <2>1. Typed'
      BY DEF IInv, Typed, Pieces
    <2>2. BudgetExact'
      BY DEF IInv, BudgetExact
    <2>3. Waves'
      BY DEF IInv, Waves, OverWave, Running, Wave, WaveEnd, Lower
    <2>4. Holdings'
      BY DEF IInv, Holdings, OverWave, Committing, Taken, Demand
    <2>5. Empty' /\ RefusedOnlyWhenTooBig'
      BY DEF IInv, Empty, RefusedOnlyWhenTooBig, Wave, WaveEnd, Lower, Demand
    <2>. QED
      BY <2>1, <2>2, <2>3, <2>4, <2>5 DEF IInv
  <1>. QED
    BY <1>1, <1>2

LEMMA Invariant == Spec => []IInv
  BY InitIInv, StepIInv, PTL DEF Spec

\* Every build, whatever its files, options and schedule: the counter of the
\* memory budget is the sum of the live reservations and stays within the
\* limit (BuildMemoryBudget::resize, MemoryReservation).
THEOREM BudgetIsExact == Spec => []BudgetExact
  <1>1. IInv => BudgetExact
    BY DEF IInv
  <1>. QED
    BY <1>1, Invariant, PTL

\* A wave that fits beside what the building thread holds is never refused
\* memory, in whatever order its parsers resize (document_parser.cpp: peaks
\* only grow).
THEOREM FittingWavesAreParsed == Spec => []RefusedOnlyWhenTooBig
  <1>1. IInv => RefusedOnlyWhenTooBig
    BY DEF IInv
  <1>. QED
    BY <1>1, Invariant, PTL

\* When build returns or throws, nothing is charged and no parser runs that
\* refers to its options or its budget (parse_document_wave joins them).
THEOREM NoParserOutlives == Spec => []NoneOutlives
  <1>1. IInv => NoneOutlives
    BY DEF IInv, Empty, Waves, NoneOutlives
  <1>. QED
    BY <1>1, Invariant, PTL

-----------------------------------------------------------------------------
(* The workspace: its files, and the names they are given. *)

Early ==
  pc \in {"open", "start", "join", "record", "rethrow", "commit", "store",
          "next", "flush", "assemble", "candidate"}

Merging == pc \in {"level", "remove"}

SpaceExact ==
  pc \notin {"done", "failed", "unwind"} =>
    space = Total(disk) /\ space <= opt.temporary

Pass == [sources : Seq(Pieces), merged : Seq(Pieces), taken : Nat, pass : Nat]

WorkTyped ==
  /\ level \in Pass /\ level.taken <= Len(level.sources)
  /\ IsFiniteSet(DOMAIN disk) /\ disk \in [DOMAIN disk -> Nat]

\* A piece of the scan s is in the files d, with the bytes of its documents.
BytesIn(s, docs) == Header + Total([i \in DOMAIN docs |-> s[docs[i]].disk])

Stored(d, s, piece) ==
  piece.name \in DOMAIN d /\ d[piece.name] = BytesIn(s, piece.docs)

OnDisk(piece) == Stored(disk, scan, piece)

\* Before merging there is one file for each segment.
Flushed ==
  Early =>
    /\ \A i \in DOMAIN segments :
         segments[i].name = SegmentName(i - 1) /\ OnDisk(segments[i])
    /\ \A n \in DOMAIN disk : \E i \in DOMAIN segments : n = segments[i].name
    /\ level.merged = <<>> /\ level.taken = 0

\* While merging there are the sources not yet consumed and the outputs.
Waiting == (level.taken + 1) .. Len(level.sources)

Levels ==
  Merging =>
    /\ \A i \in Waiting : OnDisk(level.sources[i])
    /\ \A i \in DOMAIN level.merged : OnDisk(level.merged[i])
    /\ \A n \in DOMAIN disk :
         \/ \E i \in Waiting : n = level.sources[i].name
         \/ \E i \in DOMAIN level.merged : n = level.merged[i].name

Distinct ==
  Merging =>
    /\ \A i, j \in Waiting : level.sources[i].name = level.sources[j].name => i = j
    /\ \A i, j \in DOMAIN level.merged :
         level.merged[i].name = level.merged[j].name => i = j
    /\ \A i \in Waiting, j \in DOMAIN level.merged :
         level.sources[i].name # level.merged[j].name

\* The names given before this level began.
EarlierNames ==
  {SegmentName(n) : n \in Nat} \cup
  {MergeName(p, k) : p \in 0 .. (level.pass - 1), k \in Nat}

\* A name that this level will still give is not in use.
Fresh ==
  Merging =>
    /\ \A i \in Waiting : level.sources[i].name \in EarlierNames
    /\ \A i \in DOMAIN level.merged :
         \/ level.merged[i].name \in EarlierNames
         \/ level.merged[i].name = MergeName(level.pass, i - 1)
         \/ pc = "remove" /\ LastLevel

Unfinished == pc = "remove" => ~ LevelDone

Work ==
  /\ WorkTyped /\ SpaceExact /\ Flushed /\ Levels /\ Distinct /\ Fresh
  /\ Unfinished /\ NoLateRefusal

-----------------------------------------------------------------------------
(* Bytes on disk. *)

DiskOf == [i \in DOMAIN scan |-> scan[i].disk]

LEMMA BytesOf ==
  ASSUME Typed, NEW docs \in Seq(DOMAIN scan)
  PROVE  /\ Bytes(docs) = Header + Weight(DiskOf, docs)
         /\ Weight(DiskOf, docs) \in Nat /\ Header \in Nat \ {0} /\ Bytes(docs) \in Nat
  <1>1. DiskOf \in [DOMAIN scan -> Nat]
    BY FileFacts DEF DiskOf
  <1>2. \A i \in DOMAIN docs : docs[i] \in DOMAIN scan
    BY LenProperties
  <1>3. [i \in DOMAIN docs |-> scan[docs[i]].disk] = [i \in DOMAIN docs |-> DiskOf[docs[i]]]
    BY <1>2 DEF DiskOf
  <1>4. Bytes(docs) = Header + Weight(DiskOf, docs)
    BY <1>3 DEF Bytes, Total, Weight, SumOf
  <1>5. Weight(DiskOf, docs) \in Nat
    BY <1>1, WeightType
  <1>6. Header \in Nat \ {0}
    BY BuildAssumption
  <1>. QED
    BY <1>4, <1>5, <1>6

LEMMA DiskTyped ==
  ASSUME NEW d, IsFiniteSet(DOMAIN d), d \in [DOMAIN d -> Nat]
  PROVE  Total(d) \in Nat
  BY SumNat DEF Total, SumOf

\* A file with a new name.
LEMMA PutNew ==
  ASSUME WorkTyped, NEW name, name \notin DOMAIN disk, NEW b \in Nat
  PROVE  /\ DOMAIN Put(name, b) = DOMAIN disk \cup {name}
         /\ IsFiniteSet(DOMAIN Put(name, b))
         /\ Put(name, b) \in [DOMAIN Put(name, b) -> Nat]
         /\ Put(name, b)[name] = b
         /\ \A n \in DOMAIN disk : Put(name, b)[n] = disk[n]
         /\ Total(Put(name, b)) = Total(disk) + b
  <1> DEFINE S == DOMAIN disk \cup {name}
             p == Put(name, b)
  <1>1. IsFiniteSet(S)
    BY FS_AddElement DEF WorkTyped
  <1>2. DOMAIN p = S /\ p \in [S -> Nat] /\ p[name] = b
        /\ \A n \in DOMAIN disk : p[n] = disk[n]
    BY DEF Put, WorkTyped
  <1>3. p \in [S -> Int] /\ name \in S
    BY <1>2
  <1>4. S \ {name} = DOMAIN disk
    OBVIOUS
  <1> HIDE DEF S, p
  <1>5. SumOf(p) = p[name] + SumOf([x \in S \ {name} |-> p[x]])
    BY <1>1, <1>3, SumPeel
  <1>6. [x \in S \ {name} |-> p[x]] = disk
    BY <1>2, <1>4 DEF WorkTyped
  <1>7. Total(disk) \in Nat
    BY DiskTyped DEF WorkTyped
  <1>8. Total(p) = Total(disk) + b
    <2>1. Total(p) = SumOf(p) /\ Total(disk) = SumOf(disk)
      BY DEF Total, SumOf
    <2>. QED
      BY <1>2, <1>5, <1>6, <1>7, <2>1
  <1>. QED
    BY <1>1, <1>2, <1>8 DEF S, p

\* The files of a group are removed.
LEMMA WithoutGroup ==
  ASSUME WorkTyped, NEW g \in Seq(Pieces),
         \A i \in DOMAIN g : g[i].name \in DOMAIN disk,
         \A i, j \in DOMAIN g : g[i].name = g[j].name => i = j
  PROVE  /\ InputBytes(g) \in Nat
         /\ Total(Without({g[i].name : i \in DOMAIN g})) = Total(disk) - InputBytes(g)
  <1> DEFINE names == {g[i].name : i \in DOMAIN g}
             h == [i \in DOMAIN g |-> g[i].name]
             e == [i \in DOMAIN g |-> disk[g[i].name]]
             r == Without(names)
             Q == DOMAIN disk \ names
  <1>1. IsFiniteSet(DOMAIN disk) /\ disk \in [DOMAIN disk -> Int]
    BY DEF WorkTyped
  <1>2. IsFiniteSet(DOMAIN g)
    BY FS_Interval, LenProperties
  <1>3. e \in [DOMAIN g -> Nat] /\ e \in [DOMAIN g -> Int]
    BY DEF WorkTyped
  <1>4. r \in [Q -> Int] /\ DOMAIN r = Q
    BY <1>1 DEF Without
  <1>5. Splits(h, disk, r, e)
    <2>1. DOMAIN h = DOMAIN e /\ DOMAIN r \subseteq DOMAIN disk
      BY <1>4
    <2>2. \A i, j \in DOMAIN h : h[i] = h[j] => i = j
      OBVIOUS
    <2>3. \A x \in DOMAIN disk : x \notin DOMAIN r <=> \E i \in DOMAIN h : h[i] = x
      BY <1>4
    <2>4. \A x \in DOMAIN r : r[x] = disk[x]
      BY DEF Without
    <2>5. \A i \in DOMAIN h : h[i] \in DOMAIN disk /\ e[i] = disk[h[i]]
      OBVIOUS
    <2> HIDE DEF h, e, r
    <2>. QED
      BY <2>1, <2>2, <2>3, <2>4, <2>5 DEF Splits
  <1> HIDE DEF h, e, r, Q
  <1>6. SumOf(r) = SumOf(disk) - SumOf(e)
    BY <1>1, <1>2, <1>3, <1>4, <1>5, SumWithout
  <1>7. SumOf(e) \in Nat
    BY <1>2, <1>3, SumNat
  <1>. QED
    BY <1>6, <1>7 DEF InputBytes, Total, SumOf, e, r

-----------------------------------------------------------------------------
(* The group that is merged next. *)

GroupSize == GroupEnd - level.taken

LEMMA GroupFacts ==
  ASSUME Typed, WorkTyped, ~ LevelDone
  PROVE  /\ Group \in Seq(Pieces) /\ Len(Group) = GroupSize /\ GroupSize \in Nat \ {0}
         /\ GroupEnd \in Nat /\ GroupEnd = level.taken + GroupSize
         /\ GroupEnd <= Len(level.sources)
         /\ DOMAIN Group = 1 .. GroupSize
         /\ \A i \in 1 .. GroupSize : /\ Group[i] = level.sources[level.taken + i]
                                      /\ level.taken + i \in Waiting
         /\ level.taken \in Nat /\ Len(level.sources) \in Nat
         /\ level.sources \in Seq(Pieces) /\ DOMAIN level.sources = 1 .. Len(level.sources)
  <1>1. /\ level.sources \in Seq(Pieces) /\ level.taken \in Nat
        /\ Len(level.sources) \in Nat /\ DOMAIN level.sources = 1 .. Len(level.sources)
        /\ \A i \in 1 .. Len(level.sources) : level.sources[i] \in Pieces
    BY LenProperties DEF WorkTyped, Pass
  <1>2. opt.fanIn \in Nat /\ opt.fanIn >= 2
    BY Constants DEF OptionRecords
  <1>3. /\ GroupEnd \in Nat /\ GroupEnd <= Len(level.sources) /\ GroupEnd > level.taken
    BY <1>1, <1>2 DEF GroupEnd, Lower, LevelDone, WorkTyped
  <1>4. \A i \in level.taken + 1 .. GroupEnd : level.sources[i] \in Pieces
    BY <1>1, <1>3
  <1>5. /\ Group \in Seq(Pieces)
        /\ Len(Group) = GroupEnd - (level.taken + 1) + 1
        /\ \A i \in 1 .. GroupEnd - (level.taken + 1) + 1 :
             Group[i] = level.sources[(level.taken + 1) + i - 1]
    <2>1. level.taken + 1 \in Int /\ GroupEnd \in Int /\ level.taken + 1 <= GroupEnd
      BY <1>1, <1>3
    <2>. QED
      BY <1>4, <2>1, SubSeqProperties DEF Group
  <1>6. GroupSize = GroupEnd - (level.taken + 1) + 1 /\ GroupSize \in Nat \ {0}
    BY <1>1, <1>3 DEF GroupSize
  <1>7. \A i \in 1 .. GroupSize : (level.taken + 1) + i - 1 = level.taken + i
                                  /\ level.taken + i \in Waiting
    BY <1>1, <1>3, <1>6 DEF Waiting
  <1>8. DOMAIN Group = 1 .. GroupSize
    BY <1>5, <1>6, LenProperties
  <1>9. GroupEnd = level.taken + GroupSize
    BY <1>1, <1>3 DEF GroupSize
  <1>10. \A i \in 1 .. GroupSize : Group[i] = level.sources[level.taken + i]
    BY <1>5, <1>6, <1>7
  <1>. QED
    BY <1>1, <1>3, <1>5, <1>6, <1>7, <1>8, <1>9, <1>10

\* The documents of a group take what its files take but for their headers: a
\* merge needs no more than the room it required.
LEMMA MergeFits ==
  ASSUME Typed, WorkTyped, NEW g \in Seq(Pieces), g # <<>>,
         \A i \in DOMAIN g : OnDisk(g[i])
  PROVE  /\ DocsOf(g) \in Seq(DOMAIN scan)
         /\ InputBytes(g) \in Nat /\ Bytes(DocsOf(g)) \in Nat
         /\ MergePeak(g) \in Nat /\ MergePeak(g) <= MergeNeed(g)
         /\ Bytes(DocsOf(g)) <= MergePeak(g)
  <1> DEFINE ss == [i \in DOMAIN g |-> g[i].docs]
             f == [i \in DOMAIN ss |-> Weight(DiskOf, ss[i])]
             e == [i \in DOMAIN g |-> disk[g[i].name]]
  <1>1. /\ DOMAIN g = 1 .. Len(g) /\ Len(g) \in Nat \ {0} /\ IsFiniteSet(DOMAIN g)
        /\ \A i \in DOMAIN g : g[i].docs \in Seq(DOMAIN scan)
    <2>1. DOMAIN g = 1 .. Len(g) /\ Len(g) \in Nat \ {0}
      BY LenProperties, EmptySeq
    <2>2. \A i \in DOMAIN g : g[i] \in Pieces
      BY <2>1
    <2>. QED
      BY <2>1, <2>2, FS_Interval DEF Pieces
  <1>2. ss \in Seq(Seq(DOMAIN scan)) /\ DOMAIN ss = DOMAIN g
        /\ \A i \in DOMAIN g : ss[i] = g[i].docs
    BY <1>1
  <1>3. DiskOf \in [DOMAIN scan -> Nat]
    BY FileFacts DEF DiskOf
  <1>4. DocsOf(g) = FlattenSeq(ss)
    BY DEF DocsOf
  <1>5. f = [i \in DOMAIN ss |-> Weight(DiskOf, ss[i])]
    OBVIOUS
  <1>6. \A i \in DOMAIN g : /\ f[i] = Weight(DiskOf, g[i].docs)
                            /\ Weight(DiskOf, g[i].docs) \in Nat
                            /\ e[i] = Header + Weight(DiskOf, g[i].docs)
    BY <1>1, <1>2, BytesOf DEF OnDisk, Stored, BytesIn, Bytes
  <1>7. Header \in Nat \ {0}
    BY BuildAssumption
  <1>8. DOMAIN f = DOMAIN g /\ DOMAIN e = DOMAIN g
    BY <1>2
  <1>9. f \in [DOMAIN g -> Int] /\ f \in [DOMAIN g -> Nat]
    <2>1. f = [i \in DOMAIN g |-> f[i]]
      BY <1>2
    <2> HIDE DEF f, ss
    <2>. QED
      BY <1>6, <2>1
  <1>10. e \in [DOMAIN g -> Int] /\ e \in [DOMAIN g -> Nat]
    <2>1. e = [i \in DOMAIN g |-> e[i]]
      OBVIOUS
    <2> HIDE DEF e
    <2>. QED
      BY <1>6, <1>7, <2>1
  <1>11. InputBytes(g) = SumOf(e)
    BY DEF InputBytes, Total, SumOf
  <1> HIDE DEF ss, f, e
  <1>12. FlattenSeq(ss) \in Seq(DOMAIN scan) /\ Weight(DiskOf, FlattenSeq(ss)) = SumOf(f)
    BY <1>2, <1>3, <1>5, FlattenWeight
  <1>13. Bytes(DocsOf(g)) = Header + SumOf(f) /\ SumOf(f) \in Nat
    BY <1>4, <1>12, BytesOf
  <1>14. SumOf(e) \in Nat
    BY <1>1, <1>10, SumNat
  <1>15. SumOf(f) + Header <= SumOf(e)
    <2>1. 1 \in DOMAIN g /\ \A i \in DOMAIN g : f[i] <= e[i]
      BY <1>1, <1>6, <1>7
    <2>2. SumOf(f) + (e[1] - f[1]) <= SumOf(e)
      BY <1>1, <1>9, <1>10, <2>1, SumExceeds
    <2>3. e[1] - f[1] = Header
      BY <1>6, <1>7, <2>1
    <2>. QED
      BY <2>2, <2>3
  <1>. QED
    BY <1>4, <1>7, <1>11, <1>12, <1>13, <1>14, <1>15 DEF MergePeak, MergeNeed

-----------------------------------------------------------------------------
(* The steps that touch the workspace. *)

Frozen == UNCHANGED <<files, segments, workspace, level>>

\* The other steps do not touch it, and do not begin to merge.
LEMMA WorkFrame ==
  ASSUME Typed, Next
  PROVE  \/ Flush \/ MakeCandidate \/ NextLevel \/ PassOn \/ MergeGroup
         \/ RemoveInputs \/ Ending
         \/ /\ Frozen
            /\ why' # "late" \/ why' = why
            /\ Early' => Early
            /\ Merging' => Merging /\ pc' = pc
            /\ pc' \notin {"done", "failed", "unwind"}
                 => pc \notin {"done", "failed", "unwind"}
  <1> USE DEF Frozen, Early, Merging, files, workspace
  <1>1. CASE Open \/ StartWorker \/ Join \/ Record \/ Rethrow \/ TakeHeadroom
    BY <1>1 DEF Open, StartWorker, Join, Record, Rethrow, TakeHeadroom, LoopTo, Fail
  <1>2. CASE Store \/ NextFile \/ Assemble \/ PublishCandidate
    BY <1>2 DEF Store, NextFile, Assemble, PublishCandidate, Fail
  <1>3. CASE SystemFails
    BY <1>3 DEF SystemFails, Fail
  <1>4. CASE \E i \in DOMAIN scan : Parser(i)
    BY <1>4 DEF Parser, Reserve, ParseFails, Parsed
  <1>. QED
    BY <1>1, <1>2, <1>3, <1>4 DEF Next, Builder, Ending

\* Files that are kept keep their pieces.
LEMMA StoredKept ==
  ASSUME NEW d, NEW e, NEW s, NEW p, Stored(d, s, p),
         p.name \in DOMAIN e, e[p.name] = d[p.name]
  PROVE  Stored(e, s, p)
  BY DEF Stored

LEMMA WorkKept ==
  ASSUME Typed, Work, Frozen, why' # "late" \/ why' = why,
         Early' => Early, Merging' => Merging /\ pc' = pc,
         pc' \notin {"done", "failed", "unwind"}
           => pc \notin {"done", "failed", "unwind"}
  PROVE  Work'
  <1>1. /\ scan' = scan /\ opt' = opt /\ segments' = segments /\ disk' = disk
        /\ space' = space /\ level' = level
    BY DEF Frozen, files, workspace
  <1>2. WorkTyped' /\ SpaceExact'
    BY <1>1 DEF Work, WorkTyped, SpaceExact, Pass, Pieces
  <1>3. Flushed'
    BY <1>1 DEF Work, Flushed, OnDisk
  <1>4. Levels' /\ Distinct'
    BY <1>1 DEF Work, Levels, Distinct, Waiting, OnDisk
  <1>5. Fresh'
    <2>1. EarlierNames' = EarlierNames /\ Waiting' = Waiting /\ LastLevel' = LastLevel
          /\ level.pass' = level.pass /\ level.merged' = level.merged
          /\ level.sources' = level.sources
      BY <1>1 DEF EarlierNames, Waiting, LastLevel
    <2>. QED
      BY <2>1 DEF Work, Fresh, Merging, MergeName
  <1>6. Unfinished' /\ NoLateRefusal'
    BY <1>1 DEF Work, Unfinished, LevelDone, NoLateRefusal, Merging
  <1>. QED
    BY <1>2, <1>3, <1>4, <1>5, <1>6 DEF Work

LEMMA SegmentNames ==
  ASSUME NEW m, NEW n, SegmentName(m) = SegmentName(n)
  PROVE  m = n
  BY DEF SegmentName

LEMMA FlushWork ==
  ASSUME Typed, Work, Flush
  PROVE  Work'
  <1>0. /\ scan' = scan /\ opt' = opt /\ level' = level /\ pc = "flush"
        /\ back \in {"next", "commit", "candidate"} /\ Early
    BY DEF Flush, files, Typed, Early
  <1>1. CASE active = <<>> \/ Bytes(active) > Remaining
    <2>1. Frozen /\ pc' \in {back, "unwind"} /\ why' \in {why, "space"}
      BY <1>1 DEF Flush, Frozen, workspace, Fail
    <2>. QED
      BY <1>0, <2>1, WorkKept DEF Merging, Early
  <1>2. CASE active # <<>> /\ ~ (Bytes(active) > Remaining)
    <2> DEFINE k == Len(segments)
               b == Bytes(active)
    <2>1. /\ pc' \in {back, "unwind"} /\ why' \in {why, "memory"}
          /\ segments' = WithBatch
          /\ disk' = Put(SegmentName(k), b) /\ space' = space + b
      BY <1>2 DEF Flush, Fail, WithBatch
    <2>2. k \in Nat /\ DOMAIN segments = 1 .. k
      BY LenProperties DEF Typed
    <2>3. /\ b \in Nat /\ space = Total(disk) /\ Total(disk) \in Nat
          /\ ~ (b > opt.temporary - space) /\ opt.temporary \in Nat
      BY <1>0, <1>2, BytesOf, DiskTyped, Constants
      DEF Typed, Work, SpaceExact, WorkTyped, Remaining, OptionRecords
    <2>4. SegmentName(k) \notin DOMAIN disk
      <3>1. \A i \in DOMAIN segments : segments[i].name = SegmentName(i - 1) /\ i - 1 # k
        BY <1>0, <2>2 DEF Work, Flushed
      <3>2. \A n \in DOMAIN disk : \E i \in DOMAIN segments : n = segments[i].name
        BY <1>0 DEF Work, Flushed
      <3>. QED
        BY <3>1, <3>2, SegmentNames
    <2> HIDE DEF b, k
    <2>5. /\ DOMAIN disk' = DOMAIN disk \cup {SegmentName(k)}
          /\ IsFiniteSet(DOMAIN disk') /\ disk' \in [DOMAIN disk' -> Nat]
          /\ disk'[SegmentName(k)] = b /\ \A n \in DOMAIN disk : disk'[n] = disk[n]
          /\ Total(disk') = Total(disk) + b
      <3> DEFINE name == SegmentName(k)
                 p == Put(name, b)
      <3>0. name \notin DOMAIN disk /\ b \in Nat
        BY <2>3, <2>4
      <3>1. /\ DOMAIN p = DOMAIN disk \cup {name}
            /\ IsFiniteSet(DOMAIN p) /\ p \in [DOMAIN p -> Nat]
            /\ p[name] = b /\ \A n \in DOMAIN disk : p[n] = disk[n]
            /\ Total(p) = Total(disk) + b
        <4>1. WorkTyped
          BY DEF Work
        <4> HIDE DEF name
        <4>. QED
          BY ONLY <3>0, <4>1, PutNew
      <3> HIDE DEF p
      <3>2. disk' = p
        BY <2>1 DEF p
      <3>. QED
        BY <3>1, <3>2
    <2>6. WorkTyped'
      BY <1>0, <2>5 DEF Work, WorkTyped, Pass, Pieces
    <2>7. SpaceExact'
      BY <1>0, <2>1, <2>3, <2>5 DEF SpaceExact
    <2>8. Flushed'
      <3>1. /\ DOMAIN WithBatch = 1 .. (k + 1)
            /\ WithBatch[k + 1] = [name |-> SegmentName(k), docs |-> active]
            /\ \A i \in 1 .. k : WithBatch[i] = segments[i]
        BY <2>2, AppendProperties DEF WithBatch, Typed, k
      <3>2. \A i \in 1 .. k : /\ segments[i].name = SegmentName(i - 1)
                              /\ Stored(disk, scan, segments[i])
        BY <1>0, <2>2 DEF Work, Flushed, OnDisk
      <3>3. \A i \in 1 .. k : Stored(disk', scan, segments[i])
        BY <2>5, <3>2 DEF Stored
      <3>4. Stored(disk', scan, [name |-> SegmentName(k), docs |-> active])
        BY <2>5 DEF Stored, BytesIn, Bytes, b
      <3>5. \A n \in DOMAIN disk : \E i \in 1 .. k : n = segments[i].name
        BY <1>0, <2>2 DEF Work, Flushed
      <3>6. level'.merged = <<>> /\ level'.taken = 0
        BY <1>0 DEF Work, Flushed
      <3>7. \A i \in DOMAIN WithBatch : /\ WithBatch[i].name = SegmentName(i - 1)
                                        /\ Stored(disk', scan, WithBatch[i])
        BY <2>2, <3>1, <3>2, <3>3, <3>4
      <3>8. \A n \in DOMAIN disk' : \E i \in DOMAIN WithBatch : n = WithBatch[i].name
        <4>1. k + 1 \in 1 .. (k + 1) /\ \A i \in 1 .. k : i \in 1 .. (k + 1)
          BY <2>2
        <4>. QED
          BY <2>5, <3>1, <3>5, <4>1
      <3>. QED
        BY <1>0, <2>1, <3>6, <3>7, <3>8 DEF Flushed, OnDisk, SegmentName
    <2>9. ~ Merging' /\ pc' # "remove" /\ why' # "late"
      BY <1>0, <2>1 DEF Merging, Work, NoLateRefusal
    <2>. QED
      BY <2>6, <2>7, <2>8, <2>9
      DEF Work, Levels, Distinct, Fresh, Unfinished, NoLateRefusal
  <1>. QED
    BY <1>1, <1>2

\* Before and after merging, only the accounts matter.
LEMMA WorkOver ==
  ASSUME WorkTyped', SpaceExact', pc' \in Steps, ~ Early', ~ Merging', why' # "late"
  PROVE  Work'
  BY DEF Work, Flushed, Levels, Distinct, Fresh, Unfinished, NoLateRefusal, Merging

LEMMA CandidateWork ==
  ASSUME Typed, Work, MakeCandidate
  PROVE  Work'
  <1>0. /\ scan' = scan /\ opt' = opt /\ segments' = segments
        /\ pc = "candidate" /\ Early /\ pc' \in Steps
        /\ WorkTyped /\ space = Total(disk) /\ space <= opt.temporary
        /\ why # "late"
    BY DEF MakeCandidate, files, Early, Work, SpaceExact, NoLateRefusal, Fail, Steps
  <1>1. /\ \A i \in DOMAIN segments :
             segments[i].name = SegmentName(i - 1) /\ Stored(disk, scan, segments[i])
        /\ \A n \in DOMAIN disk : \E i \in DOMAIN segments : n = segments[i].name
        /\ level.merged = <<>> /\ level.taken = 0
    BY <1>0 DEF Work, Flushed, OnDisk
  <1>2. /\ segments \in Seq(Pieces) /\ DOMAIN segments = 1 .. Len(segments)
        /\ Len(segments) \in Nat /\ Total(disk) \in Nat /\ opt.temporary \in Nat
        /\ Header \in Nat
    BY <1>0, LenProperties, DiskTyped, Constants, BuildAssumption
    DEF Typed, WorkTyped, OptionRecords
  <1>3. CASE segments = <<>> /\ ~ (Header > Remaining)
    <2>1. /\ disk' = Put(CandidateName, Header) /\ space' = space + Header
          /\ pc' = "publish" /\ why' = why /\ level' = level
      BY <1>3 DEF MakeCandidate
    <2> DEFINE name == CandidateName
               p == Put(name, Header)
    <2>2. name \notin DOMAIN disk
      BY <1>1, <1>2, <1>3, EmptySeq
    <2>3. /\ IsFiniteSet(DOMAIN p) /\ p \in [DOMAIN p -> Nat]
          /\ Total(p) = Total(disk) + Header
      <3> HIDE DEF name
      <3>. QED
        BY ONLY <1>0, <1>2, <2>2, PutNew
    <2>4. disk' = p
      BY <2>1
    <2> HIDE DEF p, name
    <2>5. WorkTyped'
      BY <1>0, <2>1, <2>3, <2>4 DEF WorkTyped, Pass, Pieces
    <2>6. SpaceExact'
      BY <1>0, <1>2, <1>3, <2>1, <2>3, <2>4 DEF SpaceExact, Remaining
    <2>. QED
      BY <1>0, <2>1, <2>5, <2>6, WorkOver DEF Early, Merging
  <1>4. CASE Len(segments) = 1
    <2> DEFINE old == segments[1].name
               p == [n \in {CandidateName} |-> disk[old]]
    <2>1. /\ disk' = p /\ space' = space /\ pc' = "publish" /\ why' = why /\ level' = level
      <3>1. segments # <<>>
        BY <1>4, EmptySeq
      <3>. QED
        BY <1>4, <3>1 DEF MakeCandidate
    <2>2. old \in DOMAIN disk /\ DOMAIN disk = {old}
      <3>1. DOMAIN segments = {1}
        BY <1>2, <1>4
      <3>2. old \in DOMAIN disk
        BY <1>1, <3>1 DEF Stored
      <3>3. \A n \in DOMAIN disk : n = old
        BY <1>1, <3>1
      <3> HIDE DEF old
      <3>. QED
        BY <3>2, <3>3
    <2>3. disk \in [{old} -> Int] /\ disk[old] \in Nat
      BY <1>0, <2>2 DEF WorkTyped
    <2>4. SumOf(disk) = disk[old]
      BY <2>3, SumSingle
    <2>5. /\ p \in [{CandidateName} -> Int] /\ p \in [DOMAIN p -> Nat]
          /\ DOMAIN p = {CandidateName} /\ p[CandidateName] = disk[old]
      BY <2>3
    <2> HIDE DEF p, old
    <2>6. SumOf(p) = disk[old]
      BY <2>5, SumSingle
    <2>7. IsFiniteSet(DOMAIN p)
      BY <2>5, FS_Singleton
    <2>8. Total(p) = Total(disk)
      BY <2>4, <2>6 DEF Total, SumOf
    <2>9. WorkTyped'
      BY <1>0, <2>1, <2>5, <2>7 DEF WorkTyped, Pass, Pieces
    <2>10. SpaceExact'
      BY <1>0, <2>1, <2>8 DEF SpaceExact
    <2>. QED
      BY <1>0, <2>1, <2>9, <2>10, WorkOver DEF Early, Merging
  <1>5. CASE ~ (segments = <<>> /\ ~ (Header > Remaining)) /\ Len(segments) # 1
             /\ pc' = "unwind"
    <2>1. Frozen /\ why' \in {"space", "memory"}
      BY <1>5 DEF MakeCandidate, Frozen, workspace, Fail
    <2>. QED
      BY <2>1, <1>5, WorkKept DEF Merging, Early
  <1>6. CASE segments # <<>> /\ Len(segments) # 1 /\ pc' # "unwind"
    <2>1. /\ pc' = "level" /\ why' = why /\ disk' = disk /\ space' = space
          /\ level' = [level EXCEPT !.sources = segments]
      BY <1>6 DEF MakeCandidate, Fail, workspace
    <2>2. /\ level'.sources = segments /\ level'.merged = <<>> /\ level'.taken = 0
          /\ level'.pass = level.pass /\ level' \in Pass /\ level.pass \in Nat
      BY <1>0, <1>1, <1>2, <2>1 DEF WorkTyped, Pass
    <2>3. WorkTyped'
      BY <1>0, <1>2, <2>1, <2>2 DEF WorkTyped, Pass, Pieces
    <2>4. SpaceExact'
      BY <1>0, <2>1 DEF SpaceExact
    <2>5. Waiting' = DOMAIN segments /\ DOMAIN level'.merged = {}
      BY <1>2, <2>2 DEF Waiting
    <2>6. Levels'
      BY <1>0, <1>1, <2>1, <2>2, <2>5 DEF Levels, OnDisk
    <2>7. Distinct'
      <3>1. \A i, j \in DOMAIN segments : segments[i].name = segments[j].name => i = j
        BY <1>1, <1>2 DEF SegmentName
      <3>. QED
        BY <2>2, <2>5, <3>1 DEF Distinct
    <2>8. Fresh'
      <3>1. \A i \in DOMAIN segments : segments[i].name \in EarlierNames'
        <4>1. \A n \in Nat : SegmentName(n) \in EarlierNames'
          BY DEF EarlierNames
        <4>2. \A i \in DOMAIN segments : i - 1 \in Nat
          BY <1>2
        <4>. QED
          BY <1>1, <4>1, <4>2
      <3>. QED
        BY <2>2, <2>5, <3>1 DEF Fresh
    <2>. QED
      BY <1>0, <2>1, <2>3, <2>4, <2>6, <2>7, <2>8
      DEF Work, Flushed, Unfinished, NoLateRefusal, Early
  <1>. QED
    <2>1. pc' = "unwind" => segments # <<>> \/ Header > Remaining
      BY DEF MakeCandidate
    <2>2. segments = <<>> => Len(segments) # 1
      BY EmptySeq
    <2>3. segments = <<>> /\ Header > Remaining => pc' = "unwind"
      BY DEF MakeCandidate, Fail
    <2>. QED
      BY <1>3, <1>4, <1>5, <1>6, <2>1, <2>2, <2>3

LEMMA NextLevelWork ==
  ASSUME Typed, Work, NextLevel
  PROVE  Work'
  <1>1. /\ scan' = scan /\ opt' = opt /\ segments' = segments /\ disk' = disk
        /\ space' = space /\ pc = "level" /\ pc' = "level" /\ why' = why /\ Merging
        /\ level' = [sources |-> level.merged, merged |-> <<>>, taken |-> 0,
                     pass |-> level.pass + 1]
        /\ level.taken = Len(level.sources)
    BY DEF NextLevel, files, workspace, Merging, LevelDone
  <1>2. /\ WorkTyped /\ level.pass \in Nat /\ level.merged \in Seq(Pieces)
        /\ level.taken \in Nat
        /\ DOMAIN level.merged = 1 .. Len(level.merged) /\ Len(level.merged) \in Nat
    BY LenProperties DEF Work, WorkTyped, Pass
  <1>3. /\ level'.sources = level.merged /\ level'.merged = <<>> /\ level'.taken = 0
        /\ level'.pass = level.pass + 1 /\ Waiting = {}
        /\ Waiting' = DOMAIN level.merged /\ DOMAIN level'.merged = {}
    BY <1>1, <1>2 DEF Waiting
  <1>4. WorkTyped'
    BY <1>1, <1>2, EmptySeq DEF WorkTyped, Pass, Pieces
  <1>5. SpaceExact' /\ NoLateRefusal' /\ Unfinished'
    BY <1>1 DEF Work, SpaceExact, NoLateRefusal, Unfinished
  <1>6. Levels'
    BY <1>1, <1>3 DEF Work, Levels, OnDisk
  <1>7. Distinct'
    BY <1>1, <1>3 DEF Work, Distinct
  <1>8. Fresh'
    <2>1. \A i \in DOMAIN level.merged :
            \/ level.merged[i].name \in EarlierNames
            \/ level.merged[i].name = MergeName(level.pass, i - 1)
      BY <1>1 DEF Work, Fresh
    <2>2. EarlierNames \subseteq EarlierNames'
      BY <1>2, <1>3 DEF EarlierNames, SegmentName, MergeName
    <2>3. \A i \in DOMAIN level.merged : MergeName(level.pass, i - 1) \in EarlierNames'
      BY <1>2, <1>3 DEF EarlierNames, MergeName
    <2>4. \A i \in DOMAIN level.merged : level.merged[i].name \in EarlierNames'
      BY <2>1, <2>2, <2>3
    <2>. QED
      BY <1>3, <2>4 DEF Fresh
  <1>. QED
    BY <1>1, <1>4, <1>5, <1>6, <1>7, <1>8 DEF Work, Flushed, Early

LEMMA PassOnWork ==
  ASSUME Typed, Work, PassOn
  PROVE  Work'
  <1> DEFINE a == level.taken + 1
             w == level.sources[a]
             m == Len(level.merged)
  <1>1. /\ scan' = scan /\ opt' = opt /\ segments' = segments /\ disk' = disk
        /\ space' = space /\ pc = "level" /\ pc' = "level" /\ why' = why /\ Merging
        /\ level' = [level EXCEPT !.merged = Append(@, Group[1]), !.taken = GroupEnd]
        /\ ~ LevelDone /\ Len(Group) = 1
    BY DEF PassOn, files, workspace, Merging
  <1>2. WorkTyped
    BY DEF Work
  <1>3. /\ GroupEnd = a /\ Group[1] = w /\ a \in Waiting
        /\ level.taken \in Nat /\ a <= Len(level.sources) /\ Len(level.sources) \in Nat
        /\ w \in Pieces
    BY <1>1, <1>2, GroupFacts
  <1>4. /\ level.merged \in Seq(Pieces) /\ m \in Nat /\ DOMAIN level.merged = 1 .. m
        /\ level \in Pass
    BY <1>2, LenProperties DEF WorkTyped, Pass
  <1>5. /\ level'.sources = level.sources /\ level'.taken = a
        /\ level'.pass = level.pass /\ level'.merged = Append(level.merged, w)
        /\ level' \in Pass
    <2>1. Append(level.merged, w) \in Seq(Pieces)
      BY <1>3, <1>4, AppendProperties
    <2>2. level' = [level EXCEPT !.merged = Append(level.merged, w), !.taken = a]
      BY <1>1, <1>3
    <2>3. a \in Nat
      BY <1>3
    <2> HIDE DEF a, w, m
    <2>. QED
      BY <1>4, <2>1, <2>2, <2>3 DEF Pass
  <1>6. /\ DOMAIN level'.merged = 1 .. (m + 1) /\ level'.merged[m + 1] = w
        /\ \A i \in 1 .. m : level'.merged[i] = level.merged[i]
    BY <1>3, <1>4, <1>5, AppendProperties
  <1>7. /\ \A i \in Waiting' : i \in Waiting /\ i # a
        /\ \A i \in Waiting : i # a => i \in Waiting'
    BY <1>3, <1>5 DEF Waiting
  <1>8. \A i \in 1 .. (m + 1) : i \in 1 .. m \/ i = m + 1
    BY <1>4
  <1> HIDE DEF a, w, m
  <1>9. WorkTyped'
    BY <1>1, <1>2, <1>3, <1>5 DEF WorkTyped, Pass, Pieces
  <1>10. SpaceExact' /\ NoLateRefusal' /\ Unfinished'
    BY <1>1 DEF Work, SpaceExact, NoLateRefusal, Unfinished
  <1>11. Levels'
    <2>1. /\ \A i \in Waiting : Stored(disk, scan, level.sources[i])
          /\ \A i \in 1 .. m : Stored(disk, scan, level.merged[i])
          /\ \A n \in DOMAIN disk : \/ \E i \in Waiting : n = level.sources[i].name
                                    \/ \E i \in 1 .. m : n = level.merged[i].name
      BY <1>1, <1>4 DEF Work, Levels, OnDisk
    <2>2. \A i \in Waiting' : Stored(disk', scan', level'.sources[i])
      BY <1>1, <1>5, <1>7, <2>1
    <2>3. \A i \in 1 .. (m + 1) : Stored(disk', scan', level'.merged[i])
      BY <1>1, <1>3, <1>6, <1>8, <2>1 DEF w
    <2>4. \A n \in DOMAIN disk' : \/ \E i \in Waiting' : n = level'.sources[i].name
                                  \/ \E i \in 1 .. (m + 1) : n = level'.merged[i].name
      <3> TAKE n \in DOMAIN disk'
      <3>1. CASE \E i \in Waiting : n = level.sources[i].name
        <4>1. PICK i \in Waiting : n = level.sources[i].name
          BY <3>1
        <4>2. CASE i = a
          <5>1. m + 1 \in 1 .. (m + 1) /\ n = level'.merged[m + 1].name
            BY <1>4, <1>6, <4>1, <4>2 DEF w
          <5>. QED
            BY <5>1
        <4>3. CASE i # a
          BY <1>5, <1>7, <4>1, <4>3
        <4>. QED
          BY <4>2, <4>3
      <3>2. CASE \E i \in 1 .. m : n = level.merged[i].name
        <4>1. PICK i \in 1 .. m : n = level.merged[i].name
          BY <3>2
        <4>2. i \in 1 .. (m + 1) /\ n = level'.merged[i].name
          BY <1>4, <1>6, <4>1
        <4>. QED
          BY <4>2
      <3>. QED
        BY <1>1, <2>1, <3>1, <3>2
    <2>. QED
      BY <1>6, <2>2, <2>3, <2>4 DEF Levels, OnDisk
  <1>12. Distinct'
    <2>1. /\ \A i, j \in Waiting : level.sources[i].name = level.sources[j].name => i = j
          /\ \A i, j \in 1 .. m : level.merged[i].name = level.merged[j].name => i = j
          /\ \A i \in Waiting, j \in 1 .. m :
               level.sources[i].name # level.merged[j].name
      BY <1>1, <1>4 DEF Work, Distinct
    <2>2. \A i, j \in Waiting' : level'.sources[i].name = level'.sources[j].name => i = j
      BY <1>5, <1>7, <2>1
    <2>3. \A i, j \in 1 .. (m + 1) :
            level'.merged[i].name = level'.merged[j].name => i = j
      BY <1>3, <1>6, <1>8, <2>1 DEF w
    <2>4. \A i \in Waiting', j \in 1 .. (m + 1) :
            level'.sources[i].name # level'.merged[j].name
      <3> TAKE i \in Waiting', j \in 1 .. (m + 1)
      <3>1. level'.sources[i] = level.sources[i] /\ i \in Waiting /\ i # a
        BY <1>5, <1>7
      <3>2. CASE j = m + 1
        BY <1>3, <1>6, <2>1, <3>1, <3>2 DEF w
      <3>3. CASE j \in 1 .. m
        BY <1>6, <2>1, <3>1, <3>3
      <3>. QED
        BY <1>8, <3>2, <3>3
    <2>. QED
      BY <1>6, <2>2, <2>3, <2>4 DEF Distinct
  <1>13. Fresh'
    <2>1. /\ \A i \in Waiting : level.sources[i].name \in EarlierNames
          /\ \A i \in 1 .. m : \/ level.merged[i].name \in EarlierNames
                               \/ level.merged[i].name = MergeName(level.pass, i - 1)
      BY <1>1, <1>4 DEF Work, Fresh
    <2>2. EarlierNames' = EarlierNames
      BY <1>5 DEF EarlierNames
    <2>3. \A i \in Waiting' : level'.sources[i].name \in EarlierNames'
      BY <1>5, <1>7, <2>1, <2>2
    <2>4. \A i \in 1 .. (m + 1) :
            \/ level'.merged[i].name \in EarlierNames'
            \/ level'.merged[i].name = MergeName(level'.pass, i - 1)
      BY <1>3, <1>5, <1>6, <1>8, <2>1, <2>2 DEF w
    <2>. QED
      BY <1>6, <2>3, <2>4 DEF Fresh
  <1>. QED
    BY <1>1, <1>9, <1>10, <1>11, <1>12, <1>13 DEF Work, Flushed, Early

\* The output of a merge has a name of its own.
LEMMA MergeNameFree ==
  ASSUME Typed, Work, pc = "level"
  PROVE  /\ CandidateName \notin DOMAIN disk
         /\ MergeName(level.pass, Len(level.merged)) \notin DOMAIN disk
  <1>1. /\ level.pass \in Nat /\ Len(level.merged) \in Nat
        /\ DOMAIN level.merged = 1 .. Len(level.merged)
    BY LenProperties DEF Work, WorkTyped, Pass
  <1>2. \A n \in EarlierNames : n # CandidateName
                                /\ \A k \in Nat : n # MergeName(level.pass, k)
    BY <1>1 DEF EarlierNames, SegmentName, MergeName, CandidateName
  <1>3. \A k, l \in Nat : /\ MergeName(level.pass, k) # CandidateName
                          /\ k # l => MergeName(level.pass, k) # MergeName(level.pass, l)
    BY DEF MergeName, CandidateName
  <1>4. \A i \in DOMAIN level.merged : i - 1 \in Nat /\ i - 1 # Len(level.merged)
    BY <1>1
  <1>5. /\ \A i \in Waiting : level.sources[i].name \in EarlierNames
        /\ \A i \in DOMAIN level.merged :
             \/ level.merged[i].name \in EarlierNames
             \/ level.merged[i].name = MergeName(level.pass, i - 1)
        /\ \A n \in DOMAIN disk :
             \/ \E i \in Waiting : n = level.sources[i].name
             \/ \E i \in DOMAIN level.merged : n = level.merged[i].name
    BY DEF Work, Fresh, Levels, Merging
  <1>. QED
    BY <1>1, <1>2, <1>3, <1>4, <1>5

LEMMA MergeGroupWork ==
  ASSUME Typed, Work, MergeGroup
  PROVE  Work'
  <1> DEFINE m == Len(level.merged)
             name == IF LastLevel THEN CandidateName ELSE MergeName(level.pass, m)
             bytes == Bytes(DocsOf(Group))
             out == [name |-> name, docs |-> DocsOf(Group)]
  <1>1. /\ scan' = scan /\ opt' = opt /\ segments' = segments
        /\ pc = "level" /\ Merging /\ ~ LevelDone /\ WorkTyped
        /\ space = Total(disk) /\ space <= opt.temporary /\ why # "late"
    BY DEF MergeGroup, files, Merging, Work, SpaceExact, NoLateRefusal
  <1>2. /\ Group \in Seq(Pieces) /\ Group # <<>>
        /\ \A i \in DOMAIN Group : OnDisk(Group[i])
    <2>1. /\ Group \in Seq(Pieces) /\ Len(Group) \in Nat \ {0}
          /\ \A i \in DOMAIN Group : /\ Group[i] = level.sources[level.taken + i]
                                     /\ level.taken + i \in Waiting
      BY <1>1, GroupFacts
    <2>2. \A i \in Waiting : OnDisk(level.sources[i])
      BY <1>1 DEF Work, Levels
    <2>. QED
      BY <2>1, <2>2, EmptySeq
  <1>3. /\ DocsOf(Group) \in Seq(DOMAIN scan)
        /\ InputBytes(Group) \in Nat /\ bytes \in Nat
        /\ MergePeak(Group) \in Nat /\ MergePeak(Group) <= MergeNeed(Group)
        /\ bytes <= MergePeak(Group) /\ MergeNeed(Group) \in Nat
    BY <1>1, <1>2, MergeFits DEF MergeNeed
  <1>4. Total(disk) \in Nat /\ opt.temporary \in Nat /\ Remaining = opt.temporary - space
    BY <1>1, DiskTyped, Constants DEF WorkTyped, OptionRecords, Remaining
  <1>5. CASE MergeNeed(Group) > Remaining
    <2>1. Frozen /\ pc' = "unwind" /\ why' = "space"
      BY <1>5 DEF MergeGroup, Frozen, Fail
    <2>. QED
      BY <2>1, WorkKept DEF Merging, Early
  <1>6. CASE ~ (MergeNeed(Group) > Remaining)
    <2>1. ~ (MergePeak(Group) > Remaining)
      BY <1>1, <1>3, <1>4, <1>6
    <2>2. /\ disk' = Put(name, bytes) /\ space' = space + bytes
          /\ level' = [level EXCEPT !.merged = Append(@, out)]
          /\ pc' = "remove" /\ why' = why
      BY <1>6, <2>1 DEF MergeGroup
    <2>3. /\ level.merged \in Seq(Pieces) /\ m \in Nat /\ DOMAIN level.merged = 1 .. m
          /\ level \in Pass /\ level.pass \in Nat
      BY <1>1, LenProperties DEF WorkTyped, Pass
    <2>4. name \in Names /\ name \notin DOMAIN disk
      BY <1>1, <2>3, MergeNameFree DEF Names
    <2>5. out \in Pieces /\ out.name = name /\ out.docs = DocsOf(Group)
      BY <1>3, <2>4 DEF Pieces
    <2>6. LastLevel \/ name = MergeName(level.pass, m)
      OBVIOUS
    <2>7. bytes = BytesIn(scan, out.docs)
      BY DEF BytesIn, Bytes
    <2> HIDE DEF m, name, bytes, out
    <2>8. /\ DOMAIN disk' = DOMAIN disk \cup {name}
          /\ IsFiniteSet(DOMAIN disk') /\ disk' \in [DOMAIN disk' -> Nat]
          /\ disk'[name] = bytes /\ \A n \in DOMAIN disk : disk'[n] = disk[n]
          /\ Total(disk') = Total(disk) + bytes
      <3> DEFINE p == Put(name, bytes)
      <3>1. /\ DOMAIN p = DOMAIN disk \cup {name}
            /\ IsFiniteSet(DOMAIN p) /\ p \in [DOMAIN p -> Nat]
            /\ p[name] = bytes /\ \A n \in DOMAIN disk : p[n] = disk[n]
            /\ Total(p) = Total(disk) + bytes
        <4>1. WorkTyped /\ name \notin DOMAIN disk /\ bytes \in Nat
          BY <1>1, <1>3, <2>4
        <4>. QED
          BY ONLY <4>1, PutNew
      <3> HIDE DEF p
      <3>2. disk' = p
        BY <2>2 DEF p
      <3>. QED
        BY <3>1, <3>2
    <2>9. /\ level'.sources = level.sources /\ level'.taken = level.taken
          /\ level'.pass = level.pass /\ level'.merged = Append(level.merged, out)
          /\ level' \in Pass
      <3>1. Append(level.merged, out) \in Seq(Pieces)
        BY <2>3, <2>5, AppendProperties
      <3>2. level' = [level EXCEPT !.merged = Append(level.merged, out)]
        BY <2>2
      <3>. QED
        BY <2>3, <3>1, <3>2 DEF Pass
    <2>10. /\ DOMAIN level'.merged = 1 .. (m + 1) /\ level'.merged[m + 1] = out
           /\ \A i \in 1 .. m : level'.merged[i] = level.merged[i]
      BY <2>3, <2>5, <2>9, AppendProperties DEF m
    <2>11. /\ \A i \in 1 .. (m + 1) : i \in 1 .. m \/ i = m + 1
           /\ m + 1 \in 1 .. (m + 1) /\ \A i \in 1 .. m : i \in 1 .. (m + 1)
           /\ (m + 1) - 1 = m
      BY <2>3
    <2>12. Waiting' = Waiting /\ LastLevel' = LastLevel /\ LevelDone' = LevelDone
           /\ EarlierNames' = EarlierNames
      BY <1>1, <2>9 DEF Waiting, LastLevel, LevelDone, EarlierNames
    <2>13. WorkTyped'
      BY <1>1, <2>8, <2>9 DEF WorkTyped, Pass, Pieces
    <2>14. SpaceExact'
      BY <1>1, <1>3, <1>4, <2>1, <2>2, <2>8 DEF SpaceExact
    <2>15. /\ \A i \in Waiting : Stored(disk, scan, level.sources[i])
           /\ \A i \in 1 .. m : Stored(disk, scan, level.merged[i])
           /\ \A n \in DOMAIN disk : \/ \E i \in Waiting : n = level.sources[i].name
                                     \/ \E i \in 1 .. m : n = level.merged[i].name
      BY <1>1, <2>3 DEF Work, Levels, OnDisk
    <2>16. Levels'
      <3>1. \A i \in Waiting' : Stored(disk', scan', level'.sources[i])
        BY <1>1, <2>8, <2>9, <2>12, <2>15 DEF Stored
      <3>2. \A i \in 1 .. (m + 1) : Stored(disk', scan', level'.merged[i])
        <4>1. Stored(disk', scan, out)
          BY <2>5, <2>7, <2>8 DEF Stored
        <4>2. \A i \in 1 .. m : Stored(disk', scan, level.merged[i])
          BY <2>8, <2>15 DEF Stored
        <4>. QED
          BY <1>1, <2>10, <2>11, <4>1, <4>2
      <3>3. \A n \in DOMAIN disk' : \/ \E i \in Waiting' : n = level'.sources[i].name
                                    \/ \E i \in 1 .. (m + 1) : n = level'.merged[i].name
        <4> TAKE n \in DOMAIN disk'
        <4>1. CASE n = name
          BY <2>5, <2>10, <2>11, <4>1
        <4>2. CASE n \in DOMAIN disk
          BY <2>9, <2>10, <2>11, <2>12, <2>15, <4>2
        <4>. QED
          BY <2>8, <4>1, <4>2
      <3>. QED
        BY <2>10, <3>1, <3>2, <3>3 DEF Levels, OnDisk
    <2>17. Distinct'
      <3>1. /\ \A i, j \in Waiting : level.sources[i].name = level.sources[j].name => i = j
            /\ \A i, j \in 1 .. m : level.merged[i].name = level.merged[j].name => i = j
            /\ \A i \in Waiting, j \in 1 .. m :
                 level.sources[i].name # level.merged[j].name
        BY <1>1, <2>3 DEF Work, Distinct
      <3>2. /\ \A i \in Waiting : level.sources[i].name # name
            /\ \A i \in 1 .. m : level.merged[i].name # name
        BY <2>4, <2>15 DEF Stored
      <3>3. \A i, j \in Waiting' : level'.sources[i].name = level'.sources[j].name => i = j
        BY <2>9, <2>12, <3>1
      <3>4. \A i, j \in 1 .. (m + 1) :
              level'.merged[i].name = level'.merged[j].name => i = j
        BY <2>5, <2>10, <2>11, <3>1, <3>2
      <3>5. \A i \in Waiting', j \in 1 .. (m + 1) :
              level'.sources[i].name # level'.merged[j].name
        BY <2>5, <2>9, <2>10, <2>11, <2>12, <3>1, <3>2
      <3>. QED
        BY <2>10, <3>3, <3>4, <3>5 DEF Distinct
    <2>18. Fresh'
      <3>1. /\ \A i \in Waiting : level.sources[i].name \in EarlierNames
            /\ \A i \in 1 .. m : \/ level.merged[i].name \in EarlierNames
                                 \/ level.merged[i].name = MergeName(level.pass, i - 1)
        BY <1>1, <2>3 DEF Work, Fresh
      <3>2. \A i \in Waiting' : level'.sources[i].name \in EarlierNames'
        BY <2>9, <2>12, <3>1
      <3>3. \A i \in 1 .. (m + 1) :
              \/ level'.merged[i].name \in EarlierNames'
              \/ level'.merged[i].name = MergeName(level'.pass, i - 1)
              \/ LastLevel'
        BY <2>5, <2>6, <2>9, <2>10, <2>11, <2>12, <3>1
      <3>. QED
        BY <2>2, <2>10, <3>2, <3>3 DEF Fresh
    <2>. QED
      BY <1>1, <2>2, <2>12, <2>13, <2>14, <2>16, <2>17, <2>18
      DEF Work, Flushed, Early, Unfinished, NoLateRefusal
  <1>. QED
    BY <1>5, <1>6

LEMMA RemoveWork ==
  ASSUME Typed, Work, RemoveInputs
  PROVE  Work'
  <1> DEFINE gone == {Group[i].name : i \in DOMAIN Group}
  <1>1. /\ scan' = scan /\ opt' = opt /\ segments' = segments
        /\ pc = "remove" /\ Merging /\ ~ LevelDone /\ WorkTyped
        /\ space = Total(disk) /\ space <= opt.temporary /\ why # "late" /\ why' = why
        /\ disk' = Without(gone) /\ space' = space - InputBytes(Group)
    BY DEF RemoveInputs, files, Merging, Work, SpaceExact, NoLateRefusal, Unfinished
  <1>2. /\ Group \in Seq(Pieces) /\ DOMAIN Group = 1 .. GroupSize
        /\ \A i \in 1 .. GroupSize : /\ Group[i] = level.sources[level.taken + i]
                                     /\ level.taken + i \in Waiting
        /\ GroupEnd \in Nat /\ GroupEnd <= Len(level.sources)
        /\ GroupEnd = level.taken + GroupSize /\ GroupSize \in Nat \ {0}
        /\ level.taken \in Nat /\ Len(level.sources) \in Nat
    BY <1>1, GroupFacts
  <1>3. /\ \A i \in Waiting : Stored(disk, scan, level.sources[i])
        /\ \A i \in DOMAIN level.merged : Stored(disk, scan, level.merged[i])
        /\ \A n \in DOMAIN disk :
             \/ \E i \in Waiting : n = level.sources[i].name
             \/ \E i \in DOMAIN level.merged : n = level.merged[i].name
    BY <1>1 DEF Work, Levels, OnDisk
  <1>4. /\ \A i, j \in Waiting : level.sources[i].name = level.sources[j].name => i = j
        /\ \A i, j \in DOMAIN level.merged :
             level.merged[i].name = level.merged[j].name => i = j
        /\ \A i \in Waiting, j \in DOMAIN level.merged :
             level.sources[i].name # level.merged[j].name
    BY <1>1 DEF Work, Distinct
  <1>5. /\ \A i \in DOMAIN Group : Group[i].name \in DOMAIN disk
        /\ \A i, j \in DOMAIN Group : Group[i].name = Group[j].name => i = j
    <2>1. \A i \in DOMAIN Group : Group[i].name \in DOMAIN disk
      BY <1>2, <1>3 DEF Stored
    <2>2. ASSUME NEW i \in DOMAIN Group, NEW j \in DOMAIN Group,
                 Group[i].name = Group[j].name
          PROVE  i = j
      <3>1. level.taken + i = level.taken + j
        <4>1. /\ level.taken + i \in Waiting /\ level.taken + j \in Waiting
              /\ level.sources[level.taken + i].name = level.sources[level.taken + j].name
          BY <1>2, <2>2
        <4>. QED
          BY <1>4, <4>1
      <3>. QED
        BY <1>2, <3>1
    <2>. QED
      BY <2>1, <2>2
  <1>6. InputBytes(Group) \in Nat /\ Total(disk') = Total(disk) - InputBytes(Group)
    <2>1. InputBytes(Group) \in Nat
          /\ Total(Without(gone)) = Total(disk) - InputBytes(Group)
      BY ONLY <1>1, <1>2, <1>5, WithoutGroup
    <2> HIDE DEF gone
    <2>. QED
      BY <1>1, <2>1
  <1>7. Total(disk) \in Nat /\ opt.temporary \in Nat
    BY <1>1, DiskTyped, Constants DEF WorkTyped, OptionRecords
  <1>8. SpaceExact'
    BY <1>1, <1>6, <1>7 DEF SpaceExact
  <1>9. /\ DOMAIN disk' = DOMAIN disk \ gone
        /\ \A n \in DOMAIN disk' : disk'[n] = disk[n]
        /\ IsFiniteSet(DOMAIN disk') /\ disk' \in [DOMAIN disk' -> Nat]
    <2> HIDE DEF gone
    <2>1. DOMAIN disk' = DOMAIN disk \ gone /\ \A n \in DOMAIN disk' : disk'[n] = disk[n]
      BY <1>1 DEF Without
    <2>2. disk' \in [DOMAIN disk' -> Nat]
      BY <1>1 DEF Without, WorkTyped
    <2>3. IsFiniteSet(DOMAIN disk')
      BY <1>1, <2>1, FS_Subset DEF WorkTyped
    <2>. QED
      BY <2>1, <2>2, <2>3
  <1>10. CASE LastLevel
    <2>1. pc' = "publish" /\ level' = level
      BY <1>10 DEF RemoveInputs
    <2>2. WorkTyped'
      BY <1>1, <1>9, <2>1 DEF WorkTyped, Pass, Pieces
    <2>. QED
      BY <1>1, <1>8, <2>1, <2>2, WorkOver DEF Steps, Early, Merging
  <1>11. CASE ~ LastLevel
    <2>1. pc' = "level" /\ level' = [level EXCEPT !.taken = GroupEnd]
      BY <1>11 DEF RemoveInputs
    <2>2. /\ level'.sources = level.sources /\ level'.merged = level.merged
          /\ level'.taken = GroupEnd /\ level'.pass = level.pass /\ level' \in Pass
      BY <1>1, <1>2, <2>1 DEF WorkTyped, Pass
    <2>3. WorkTyped'
      BY <1>1, <1>2, <1>9, <2>2 DEF WorkTyped, Pass, Pieces
    <2>4. /\ \A i \in Waiting' : i \in Waiting /\ i > GroupEnd
          /\ \A i \in Waiting : i > GroupEnd => i \in Waiting'
          /\ \A i \in Waiting : ~ (i > GroupEnd) =>
               i - level.taken \in 1 .. GroupSize /\ level.taken + (i - level.taken) = i
      BY <1>2, <2>2 DEF Waiting
    <2>5. \A n : n \in gone <=> \E i \in Waiting : ~ (i > GroupEnd)
                                                 /\ n = level.sources[i].name
      <3>1. ASSUME NEW i \in DOMAIN Group
            PROVE  /\ level.taken + i \in Waiting /\ ~ (level.taken + i > GroupEnd)
                   /\ Group[i].name = level.sources[level.taken + i].name
        BY <1>2
      <3>2. ASSUME NEW i \in Waiting, ~ (i > GroupEnd)
            PROVE  level.sources[i].name \in gone
        <4>1. /\ i - level.taken \in DOMAIN Group
              /\ Group[i - level.taken] = level.sources[i]
          BY <1>2, <2>4, <3>2
        <4>. QED
          BY <4>1
      <3>. QED
        BY <3>1, <3>2
    <2> HIDE DEF gone
    <2>6. \A i \in Waiting' : level.sources[i].name \notin gone
      BY <1>4, <2>4, <2>5
    <2>7. \A i \in DOMAIN level.merged : level.merged[i].name \notin gone
      BY <1>4, <2>5
    <2>8. Levels'
      <3>1. \A i \in Waiting' : Stored(disk', scan', level'.sources[i])
        BY <1>1, <1>3, <1>9, <2>2, <2>4, <2>6 DEF Stored
      <3>2. \A i \in DOMAIN level'.merged : Stored(disk', scan', level'.merged[i])
        BY <1>1, <1>3, <1>9, <2>2, <2>7 DEF Stored
      <3>3. \A n \in DOMAIN disk' :
              \/ \E i \in Waiting' : n = level'.sources[i].name
              \/ \E i \in DOMAIN level'.merged : n = level'.merged[i].name
        BY <1>3, <1>9, <2>2, <2>4, <2>5
      <3>. QED
        BY <3>1, <3>2, <3>3 DEF Levels, OnDisk
    <2>9. Distinct'
      BY <1>4, <2>2, <2>4 DEF Distinct
    <2>10. Fresh'
      <3>1. EarlierNames' = EarlierNames
        BY <2>2 DEF EarlierNames
      <3>2. /\ \A i \in Waiting : level.sources[i].name \in EarlierNames
            /\ \A i \in DOMAIN level.merged :
                 \/ level.merged[i].name \in EarlierNames
                 \/ level.merged[i].name = MergeName(level.pass, i - 1)
        BY <1>1, <1>11 DEF Work, Fresh
      <3>. QED
        BY <2>2, <2>4, <3>1, <3>2 DEF Fresh
    <2>. QED
      BY <1>1, <1>8, <2>1, <2>3, <2>8, <2>9, <2>10
      DEF Work, Flushed, Early, Unfinished, NoLateRefusal
  <1>. QED
    BY <1>10, <1>11

LEMMA EndingWork ==
  ASSUME Typed, Work, Ending
  PROVE  Work'
  <1>1. /\ scan' = scan /\ level' = level /\ disk' = <<>> /\ why' = why
        /\ pc' \in {"done", "failed"}
    BY DEF Ending, Leave, Unwind, Release, files
  <1>2. DOMAIN <<>> = {} /\ IsFiniteSet({}) /\ <<>> \in [{} -> Nat]
    BY FS_EmptySet
  <1>3. WorkTyped'
    BY <1>1, <1>2 DEF Work, WorkTyped, Pass, Pieces
  <1>4. SpaceExact'
    BY <1>1 DEF SpaceExact
  <1>. QED
    BY <1>1, <1>3, <1>4, WorkOver DEF Work, NoLateRefusal, Steps, Early, Merging

LEMMA StepWork ==
  ASSUME Typed, Work, Next
  PROVE  Work'
  BY WorkFrame, FlushWork, CandidateWork, NextLevelWork, PassOnWork, MergeGroupWork,
     RemoveWork, EndingWork, WorkKept

LEMMA InitWork == Init => Work
  <1> SUFFICES ASSUME Init PROVE Work
    OBVIOUS
  <1>1. Typed
    BY InitIInv DEF IInv
  <1>2. DOMAIN <<>> = {} /\ IsFiniteSet({}) /\ <<>> \in [{} -> Nat] /\ Len(<<>>) = 0
    BY FS_EmptySet
  <1>3. WorkTyped
    <2>1. level \in Pass
      BY EmptySeq DEF Init, Pass
    <2>. QED
      BY <1>2, <2>1 DEF Init, WorkTyped
  <1>4. SpaceExact
    <2>1. <<>> \in [{} -> Int]
      BY <1>2
    <2>2. SumOf(<<>>) = 0
      BY <2>1, SumEmpty
    <2>3. Total(<<>>) = 0
      BY <2>2 DEF Total, SumOf
    <2>4. opt.temporary \in Nat
      BY <1>1, Constants DEF OptionRecords
    <2>. QED
      BY <2>3, <2>4 DEF Init, SpaceExact
  <1>5. Flushed
    BY <1>2 DEF Init, Flushed
  <1>. QED
    BY <1>3, <1>4, <1>5
    DEF Init, Work, Levels, Distinct, Fresh, Unfinished, NoLateRefusal, Merging

LEMMA UnchangedWork ==
  ASSUME Typed, Work, UNCHANGED vars
  PROVE  Work'
  <1>1. Frozen /\ why' = why /\ pc' = pc
    BY DEF vars, Frozen, files, workspace
  <1>. QED
    BY <1>1, WorkKept DEF Early, Merging

LEMMA WorkInvariant == Spec => []Work
  <1>1. Init => Work
    BY InitWork
  <1>2. IInv /\ Work /\ [Next]_vars => Work'
    BY StepWork, UnchangedWork DEF IInv
  <1>. QED
    BY <1>1, <1>2, Invariant, PTL DEF Spec

\* Every merge that finds the room it requires stays within it: temporary
\* files never pass their budget unnoticed (merge_segment_group).
THEOREM MergesNeedWhatTheyAsk == Spec => []NoLateRefusal
  <1>1. Work => NoLateRefusal
    BY DEF Work
  <1>. QED
    BY <1>1, WorkInvariant, PTL

\* The workspace's counter is the sum of its files and within its budget, and
\* a merge level has exactly its inputs not yet consumed and its outputs on
\* disk, each under a name of its own (BuildWorkspace, merge_segment_levels).
THEOREM WorkspaceIsExact == Spec => []WorkspaceExact
  <1>1. IInv /\ Work => WorkspaceExact
    <2> SUFFICES ASSUME Typed, Work, pc \notin {"done", "failed", "unwind"}
                 PROVE  /\ space = Total(disk) /\ space <= opt.temporary
                        /\ pc = "level" =>
                             LET rest == SubSeq(level.sources, level.taken + 1,
                                                Len(level.sources))
                                 live == rest \o level.merged
                             IN /\ DOMAIN disk = {live[i].name : i \in DOMAIN live}
                                /\ \A i, j \in DOMAIN live :
                                     live[i].name = live[j].name => i = j
      BY DEF IInv, WorkspaceExact
    <2>1. space = Total(disk) /\ space <= opt.temporary
      BY DEF Work, SpaceExact
    <2> DEFINE rest == SubSeq(level.sources, level.taken + 1, Len(level.sources))
               live == rest \o level.merged
               t == level.taken
               r == Len(level.sources) - t
               m == Len(level.merged)
    <2>2. ASSUME pc = "level"
          PROVE  /\ DOMAIN disk = {live[i].name : i \in DOMAIN live}
                 /\ \A i, j \in DOMAIN live : live[i].name = live[j].name => i = j
      <3>1. /\ level.sources \in Seq(Pieces) /\ level.merged \in Seq(Pieces)
            /\ t \in Nat /\ Len(level.sources) \in Nat /\ r \in Nat /\ m \in Nat
            /\ DOMAIN level.merged = 1 .. m
            /\ \A i \in 1 .. Len(level.sources) : level.sources[i] \in Pieces
        BY LenProperties DEF Work, WorkTyped, Pass
      <3>2. /\ rest \in Seq(Pieces) /\ Len(rest) = r
            /\ \A i \in 1 .. r : rest[i] = level.sources[t + i] /\ t + i \in Waiting
        <4>1. \A i \in t + 1 .. Len(level.sources) : level.sources[i] \in Pieces
          BY <3>1
        <4>2. t + 1 \in Int /\ Len(level.sources) \in Int
          BY <3>1
        <4>3. /\ rest \in Seq(Pieces)
              /\ Len(rest) = IF t + 1 <= Len(level.sources)
                             THEN Len(level.sources) - (t + 1) + 1 ELSE 0
              /\ \A i \in 1 .. Len(level.sources) - (t + 1) + 1 :
                   rest[i] = level.sources[(t + 1) + i - 1]
          BY <4>1, <4>2, SubSeqProperties
        <4>4. Len(level.sources) - (t + 1) + 1 = r
          BY <3>1
        <4>5. \A i \in 1 .. r : (t + 1) + i - 1 = t + i /\ t + i \in Waiting
          BY <3>1 DEF Waiting
        <4> HIDE DEF rest
        <4>6. Len(rest) = r
          BY <3>1, <4>3
        <4>. QED
          BY <4>3, <4>4, <4>5, <4>6
      <3>3. \A k \in Waiting : k - t \in 1 .. r /\ t + (k - t) = k
        BY <3>1 DEF Waiting
      <3> HIDE DEF rest, t, r, m
      <3>4. /\ DOMAIN live = 1 .. (r + m)
            /\ \A i \in 1 .. (r + m) : live[i] = IF i <= r THEN level.sources[t + i]
                                                 ELSE level.merged[i - r]
            /\ \A i \in 1 .. (r + m) : IF i <= r THEN i \in 1 .. r ELSE i - r \in 1 .. m
        <4>1. live \in Seq(Pieces) /\ Len(live) = r + m
              /\ \A i \in 1 .. (r + m) : live[i] = IF i <= r THEN rest[i]
                                                   ELSE level.merged[i - r]
          BY <3>1, <3>2, ConcatProperties DEF m
        <4>2. \A i \in 1 .. (r + m) : IF i <= r THEN i \in 1 .. r ELSE i - r \in 1 .. m
          BY <3>1
        <4>3. DOMAIN live = 1 .. (r + m)
          BY <4>1, LenProperties
        <4>. QED
          BY <3>2, <4>1, <4>2, <4>3
      <3>5. /\ \A i \in Waiting : level.sources[i].name \in DOMAIN disk
            /\ \A i \in 1 .. m : level.merged[i].name \in DOMAIN disk
            /\ \A n \in DOMAIN disk : \/ \E i \in Waiting : n = level.sources[i].name
                                      \/ \E i \in 1 .. m : n = level.merged[i].name
        BY <2>2, <3>1 DEF Work, Levels, OnDisk, Stored, Merging
      <3>6. /\ \A i, j \in Waiting : level.sources[i].name = level.sources[j].name => i = j
            /\ \A i, j \in 1 .. m : level.merged[i].name = level.merged[j].name => i = j
            /\ \A i \in Waiting, j \in 1 .. m :
                 level.sources[i].name # level.merged[j].name
        BY <2>2, <3>1 DEF Work, Distinct, Merging
      <3> HIDE DEF live
      <3>7. \A i \in DOMAIN live : live[i].name \in DOMAIN disk
        BY <3>2, <3>4, <3>5
      <3>8. \A n \in DOMAIN disk : \E i \in DOMAIN live : n = live[i].name
        <4> TAKE n \in DOMAIN disk
        <4>1. CASE \E k \in Waiting : n = level.sources[k].name
          <5>1. PICK k \in Waiting : n = level.sources[k].name
            BY <4>1
          <5>2. k - t \in 1 .. (r + m) /\ k - t <= r
            BY <3>1, <3>3
          <5>3. live[k - t] = level.sources[k]
            BY <3>3, <3>4, <5>2
          <5>. QED
            BY <3>4, <5>1, <5>2, <5>3
        <4>2. CASE \E k \in 1 .. m : n = level.merged[k].name
          <5>1. PICK k \in 1 .. m : n = level.merged[k].name
            BY <4>2
          <5>2. r + k \in 1 .. (r + m) /\ ~ (r + k <= r) /\ (r + k) - r = k
            BY <3>1
          <5>3. live[r + k] = level.merged[k]
            BY <3>4, <5>2
          <5>. QED
            BY <3>4, <5>1, <5>2, <5>3
        <4>. QED
          BY <3>5, <4>1, <4>2
      <3>9. ASSUME NEW i \in DOMAIN live, NEW j \in DOMAIN live,
                   live[i].name = live[j].name
            PROVE  i = j
        <4>0. i \in 1 .. (r + m) /\ j \in 1 .. (r + m)
          BY <3>4
        <4>1. CASE i <= r /\ j <= r
          <5>1. t + i = t + j
            BY <3>2, <3>4, <3>6, <3>9, <4>0, <4>1
          <5>. QED
            BY <3>1, <4>0, <5>1
        <4>2. CASE ~ (i <= r) /\ ~ (j <= r)
          <5>1. i - r = j - r
            BY <3>4, <3>6, <3>9, <4>0, <4>2
          <5>. QED
            BY <3>1, <4>0, <5>1
        <4>3. CASE i <= r /\ ~ (j <= r)
          BY <3>2, <3>4, <3>6, <3>9, <4>0, <4>3
        <4>4. CASE ~ (i <= r) /\ j <= r
          BY <3>2, <3>4, <3>6, <3>9, <4>0, <4>4
        <4>. QED
          BY <4>1, <4>2, <4>3, <4>4
      <3>. QED
        BY <3>7, <3>8, <3>9
    <2>. QED
      BY <2>1, <2>2
  <1>. QED
    BY <1>1, Invariant, WorkInvariant, PTL

-----------------------------------------------------------------------------
(* Documents in ascending order. *)

\* All documents of s come before all of t.
Before(s, t) == \A i \in DOMAIN s, j \in DOMAIN t : s[i] < t[j]

In(i, docs) == \E k \in DOMAIN docs : docs[k] = i

LEMMA BeforeMeans ==
  ASSUME NEW s, NEW t
  PROVE  Before(s, t) <=> \A i, j : In(i, s) /\ In(j, t) => i < j
  BY DEF Before, In

LEMMA NoneOrdered ==
  /\ Ascending(<<>>) /\ \A i : ~ In(i, <<>>)
  /\ \A s : Before(s, <<>>) /\ Before(<<>>, s)
  BY DEF Ascending, In, Before

LEMMA AppendOrdered ==
  ASSUME NEW X, NEW s \in Seq(X), NEW x \in X
  PROVE  /\ \A i : In(i, Append(s, x)) <=> In(i, s) \/ i = x
         /\ Ascending(s) /\ (\A i : In(i, s) => i < x) => Ascending(Append(s, x))
  <1> DEFINE n == Len(s)
             t == Append(s, x)
  <1>1. /\ n \in Nat /\ DOMAIN s = 1 .. n /\ DOMAIN t = 1 .. (n + 1) /\ t[n + 1] = x
        /\ \A k \in 1 .. n : t[k] = s[k]
    BY AppendProperties, LenProperties
  <1>2. /\ \A k \in 1 .. (n + 1) : k \in 1 .. n \/ k = n + 1
        /\ \A k \in 1 .. n : k \in 1 .. (n + 1)
        /\ n + 1 \in 1 .. (n + 1)
    BY <1>1
  <1> HIDE DEF n, t
  <1>3. \A i : In(i, t) <=> In(i, s) \/ i = x
    BY <1>1, <1>2 DEF In
  <1>4. ASSUME Ascending(s), \A i : In(i, s) => i < x
        PROVE  Ascending(t)
    <2> SUFFICES ASSUME NEW k \in 1 .. (n + 1), NEW l \in 1 .. (n + 1), k < l
                 PROVE  t[k] < t[l]
      BY <1>1 DEF Ascending
    <2>1. k \in 1 .. n
      BY <1>1
    <2>2. CASE l \in 1 .. n
      BY <1>1, <1>4, <2>1, <2>2 DEF Ascending
    <2>3. CASE l = n + 1
      <3>1. In(s[k], s)
        BY <1>1, <2>1 DEF In
      <3>. QED
        BY <1>1, <1>4, <2>1, <2>3, <3>1
    <2>. QED
      BY <1>2, <2>2, <2>3
  <1>. QED
    BY <1>3, <1>4 DEF t

LEMMA ConcatOrdered ==
  ASSUME NEW s \in Seq(Int), NEW t \in Seq(Int)
  PROVE  /\ \A i : In(i, s \o t) <=> In(i, s) \/ In(i, t)
         /\ Ascending(s) /\ Ascending(t) /\ Before(s, t) => Ascending(s \o t)
  <1> DEFINE m == Len(s)
             n == Len(t)
             c == s \o t
  <1>1. /\ m \in Nat /\ n \in Nat /\ DOMAIN s = 1 .. m /\ DOMAIN t = 1 .. n
        /\ DOMAIN c = 1 .. (m + n)
        /\ \A k \in 1 .. (m + n) : c[k] = IF k <= m THEN s[k] ELSE t[k - m]
    BY ConcatProperties, LenProperties
  <1>2. /\ \A k \in 1 .. (m + n) : IF k <= m THEN k \in 1 .. m ELSE k - m \in 1 .. n
        /\ \A k \in 1 .. m : k \in 1 .. (m + n) /\ k <= m
        /\ \A k \in 1 .. n : m + k \in 1 .. (m + n) /\ ~ (m + k <= m) /\ (m + k) - m = k
    BY <1>1
  <1> HIDE DEF m, n, c
  <1>3. \A i : In(i, c) <=> In(i, s) \/ In(i, t)
    <2>1. ASSUME NEW i, In(i, c) PROVE In(i, s) \/ In(i, t)
      BY <1>1, <1>2, <2>1 DEF In
    <2>2. ASSUME NEW i, In(i, s) PROVE In(i, c)
      BY <1>1, <1>2, <2>2 DEF In
    <2>3. ASSUME NEW i, In(i, t) PROVE In(i, c)
      <3>1. PICK k \in 1 .. n : t[k] = i
        BY <1>1, <2>3 DEF In
      <3>2. m + k \in 1 .. (m + n) /\ c[m + k] = i
        BY <1>1, <1>2, <3>1
      <3>. QED
        BY <1>1, <3>2 DEF In
    <2>. QED
      BY <2>1, <2>2, <2>3
  <1>4. ASSUME Ascending(s), Ascending(t), Before(s, t)
        PROVE  Ascending(c)
    <2> SUFFICES ASSUME NEW k \in 1 .. (m + n), NEW l \in 1 .. (m + n), k < l
                 PROVE  c[k] < c[l]
      BY <1>1 DEF Ascending
    <2>1. CASE l <= m
      <3>1. k <= m
        BY <1>1, <2>1
      <3>. QED
        BY <1>1, <1>2, <1>4, <2>1, <3>1 DEF Ascending
    <2>2. CASE k <= m /\ ~ (l <= m)
      BY <1>1, <1>2, <1>4, <2>2 DEF Before
    <2>3. CASE ~ (k <= m) /\ ~ (l <= m)
      <3>1. k - m < l - m
        BY <1>1
      <3>2. k - m \in 1 .. n /\ l - m \in 1 .. n
        BY <1>2, <2>3
      <3>3. t[k - m] < t[l - m]
        BY <1>1, <1>4, <3>1, <3>2 DEF Ascending
      <3>. QED
        BY <1>1, <2>3, <3>3
    <2>. QED
      BY <2>1, <2>2, <2>3
  <1>. QED
    BY <1>3, <1>4 DEF c

\* Sequences in ascending order, one after another, are one such sequence.
LEMMA FlattenOrdered ==
  ASSUME NEW ss \in Seq(Seq(Int)),
         \A k \in DOMAIN ss : Ascending(ss[k]),
         \A k, l \in DOMAIN ss : k < l => Before(ss[k], ss[l])
  PROVE  /\ Ascending(FlattenSeq(ss))
         /\ \A i : In(i, FlattenSeq(ss)) <=> \E k \in DOMAIN ss : In(i, ss[k])
  <1> DEFINE n == Len(ss)
             g == Flat(ss)
             Upto(m) == /\ g[m] \in Seq(Int) /\ Ascending(g[m])
                        /\ \A i : In(i, g[m]) <=> \E k \in 1 .. m : In(i, ss[k])
             T == {m \in Nat : m + 1 <= n => Upto(m + 1)}
  <1>1. n \in Nat /\ DOMAIN ss = 1 .. n /\ \A k \in 1 .. n : ss[k] \in Seq(Int)
    BY LenProperties
  <1>2. IsFlat(g, ss)
    BY FlatExists DEF Flat
  <1>3. \A m \in 1 .. n : g[m] = IF m = 1 THEN ss[m] ELSE g[m - 1] \o ss[m]
    BY <1>2 DEF IsFlat, Flattened
  <1> HIDE DEF n, g
  <1>4. 0 \in T
    <2> SUFFICES ASSUME 1 <= n PROVE Upto(1)
      OBVIOUS
    <2>1. 1 \in 1 .. n /\ g[1] = ss[1]
      BY <1>1, <1>3
    <2>2. 1 .. 1 = {1}
      OBVIOUS
    <2>3. g[1] \in Seq(Int) /\ Ascending(g[1])
      BY <1>1, <2>1
    <2>4. \A i : In(i, g[1]) <=> \E k \in 1 .. 1 : In(i, ss[k])
      BY <2>1, <2>2
    <2>. QED
      BY <2>3, <2>4
  <1>5. ASSUME NEW m \in Nat, m \in T PROVE m + 1 \in T
    <2> DEFINE p == m + 1
    <2> SUFFICES ASSUME p + 1 <= n PROVE Upto(p + 1)
      OBVIOUS
    <2>1. /\ p \in Nat /\ p \in 1 .. n /\ p + 1 \in 1 .. n /\ (p + 1) - 1 = p /\ p + 1 # 1
          /\ m + 1 <= n
          /\ \A k \in 1 .. (p + 1) : k \in 1 .. p \/ k = p + 1
          /\ \A k \in 1 .. p : k \in 1 .. (p + 1) /\ k \in 1 .. n /\ k < p + 1
          /\ p + 1 \in 1 .. (p + 1)
      BY <1>1
    <2>2. Upto(p)
      BY <1>5, <2>1
    <2> HIDE DEF p, T
    <2>3. g[p + 1] = g[p] \o ss[p + 1] /\ ss[p + 1] \in Seq(Int)
      BY <1>1, <1>3, <2>1
    <2>4. Before(g[p], ss[p + 1])
      <3> SUFFICES ASSUME NEW i, NEW j, In(i, g[p]), In(j, ss[p + 1]) PROVE i < j
        BY BeforeMeans
      <3>1. PICK k \in 1 .. p : In(i, ss[k])
        BY <2>2
      <3>2. Before(ss[k], ss[p + 1])
        BY <1>1, <2>1
      <3>. QED
        BY <3>1, <3>2, BeforeMeans
    <2>5. Ascending(ss[p + 1])
      BY <1>1, <2>1
    <2>6. g[p] \o ss[p + 1] \in Seq(Int)
      BY <2>2, <2>3, ConcatProperties
    <2>7. /\ \A i : In(i, g[p] \o ss[p + 1]) <=> In(i, g[p]) \/ In(i, ss[p + 1])
          /\ Ascending(g[p] \o ss[p + 1])
      BY <2>2, <2>3, <2>4, <2>5, ConcatOrdered
    <2>8. \A i : In(i, g[p + 1]) <=> \E k \in 1 .. (p + 1) : In(i, ss[k])
      BY <2>1, <2>2, <2>3, <2>7
    <2>. QED
      BY <2>3, <2>6, <2>7, <2>8
  <1> HIDE DEF T
  <1>6. Nat \subseteq T
    BY <1>4, <1>5, NatInductive
  <1>7. CASE n = 0
    <2>1. ss = <<>> /\ FlattenSeq(ss) = ss /\ DOMAIN ss = {}
      BY <1>1, <1>7, FlattenUnfold, EmptySeq DEF n
    <2>. QED
      BY <2>1, NoneOrdered
  <1>8. CASE n # 0
    <2>1. n - 1 \in T /\ (n - 1) + 1 = n
      BY <1>1, <1>6, <1>8
    <2>2. Upto(n)
      BY <2>1 DEF T
    <2>3. FlattenSeq(ss) = g[n]
      BY <1>8, FlattenUnfold DEF g, n
    <2>. QED
      BY <1>1, <2>2, <2>3
  <1>. QED
    BY <1>7, <1>8

-----------------------------------------------------------------------------
(* How far a build has come. *)

Going == pc \notin {"unwind", "failed"}

\* The files up to which the workers are joined, the diagnostics recorded and
\* the documents committed.
JoinedTo ==
  IF pc \in {"open", "start"} THEN begin
  ELSE IF pc = "join" THEN next
  ELSE IF OverWave THEN WaveEnd + 1 ELSE Len(scan) + 1

RecordedTo ==
  IF pc \in {"open", "start", "join"} THEN begin
  ELSE IF pc = "record" THEN next
  ELSE IF OverWave THEN WaveEnd + 1 ELSE Len(scan) + 1

CommittedTo ==
  IF pc \in {"open", "start", "join", "record", "rethrow"} THEN begin
  ELSE IF OverWave THEN IF Taken THEN next + 1 ELSE next ELSE Len(scan) + 1

\* A worker that was joined has a document or a diagnostic; or it was refused,
\* and the wave will fail.
Settled ==
  Going =>
    /\ \A i \in DOMAIN scan : i < JoinedTo =>
         worker[i] \in {"parsed", "failed"} \/ (worker[i] = "refused" /\ fatal)
    /\ fatal => pc \in {"join", "record", "rethrow"}
    /\ pc = "store" => HasDocument(next)

\* Failures have diagnostics, in order.
Diagnosed ==
  Going =>
    /\ Ascending(errors)
    /\ \A i : In(i, errors) <=> i \in DOMAIN scan /\ worker[i] = "failed" /\ i < RecordedTo

\* Committed documents are in the batch or in a segment, in order.
Batched ==
  Early =>
    /\ \A k \in DOMAIN segments : Ascending(segments[k].docs)
                                  /\ Before(segments[k].docs, active)
    /\ \A k, l \in DOMAIN segments : k < l => Before(segments[k].docs, segments[l].docs)
    /\ Ascending(active)
    /\ \A i : (In(i, active) \/ \E k \in DOMAIN segments : In(i, segments[k].docs))
                <=> i \in DOMAIN scan /\ worker[i] = "parsed" /\ i < CommittedTo
    /\ pc = "candidate" => active = <<>>

\* The sources of a level that are not in one of its outputs.
Unconsumed ==
  (IF pc = "remove" THEN GroupEnd + 1 ELSE level.taken + 1) .. Len(level.sources)

\* The outputs m, then the sources at the positions K, are in order.
Lined(m, sources, K) ==
  /\ \A k \in DOMAIN m : Ascending(m[k].docs)
  /\ \A k \in K : Ascending(sources[k].docs)
  /\ \A k, l \in DOMAIN m : k < l => Before(m[k].docs, m[l].docs)
  /\ \A k, l \in K : k < l => Before(sources[k].docs, sources[l].docs)
  /\ \A k \in DOMAIN m, l \in K : Before(m[k].docs, sources[l].docs)

Among(i, m, sources, K) ==
  (\E k \in DOMAIN m : In(i, m[k].docs)) \/ \E k \in K : In(i, sources[k].docs)

\* Documents are in an output or in a source not consumed, in order.
Merged ==
  Merging =>
    /\ Lined(level.merged, level.sources, Unconsumed)
    /\ \A i : Among(i, level.merged, level.sources, Unconsumed)
                <=> i \in DOMAIN scan /\ worker[i] = "parsed"

\* The last level has one group.
OneGroup ==
  Merging /\ LastLevel =>
    level.taken = 0 /\ Len(level.merged) = IF pc = "remove" THEN 1 ELSE 0

Chosen ==
  pc \in {"publish", "leave", "done"} =>
    /\ Ascending(candidate)
    /\ \A i : In(i, candidate) <=> i \in DOMAIN scan /\ worker[i] = "parsed"

Order == Settled /\ Diagnosed /\ Batched /\ Merged /\ OneGroup /\ Chosen

LEMMA Boundaries ==
  ASSUME Typed, Waves, Next, Going'
  PROVE  /\ Going
         /\ JoinedTo' = IF Join THEN JoinedTo + 1 ELSE JoinedTo
         /\ RecordedTo' = IF Record THEN RecordedTo + 1 ELSE RecordedTo
         /\ CommittedTo' = IF Store \/ (pc = "commit" /\ NextFile)
                           THEN CommittedTo + 1 ELSE CommittedTo
         /\ Join => JoinedTo = next
         /\ Record => RecordedTo = next
         /\ Store \/ (pc = "commit" /\ NextFile) => CommittedTo = next
         /\ RecordedTo <= JoinedTo /\ CommittedTo <= JoinedTo
         /\ JoinedTo \in Int /\ RecordedTo \in Int /\ CommittedTo \in Int
         /\ OverWave => next \in DOMAIN scan
  <1> DEFINE Goal == /\ Going
                     /\ JoinedTo' = IF Join THEN JoinedTo + 1 ELSE JoinedTo
                     /\ RecordedTo' = IF Record THEN RecordedTo + 1 ELSE RecordedTo
                     /\ CommittedTo' = IF Store \/ (pc = "commit" /\ NextFile)
                                       THEN CommittedTo + 1 ELSE CommittedTo
                     /\ Join => JoinedTo = next
                     /\ Record => RecordedTo = next
                     /\ Store \/ (pc = "commit" /\ NextFile) => CommittedTo = next
  <1>0. /\ scan' = scan /\ begin \in Nat \ {0} /\ next \in Nat
        /\ WaveEnd \in Int /\ WaveEnd <= Len(scan) /\ Wave = begin .. WaveEnd
        /\ Len(scan) \in Nat /\ DOMAIN scan = 1 .. Len(scan) /\ Wave \subseteq DOMAIN scan
        /\ begin <= Len(scan) => begin <= WaveEnd
    BY Frame, WaveFacts, Constants DEF Typed, files
  <1>1. OverWave => next \in begin .. WaveEnd /\ begin <= WaveEnd
    BY <1>0 DEF Waves
  <1>2. begin' = begin => WaveEnd' = WaveEnd
    BY SameWave
  <1>3. RecordedTo <= JoinedTo /\ CommittedTo <= JoinedTo
        /\ JoinedTo \in Int /\ RecordedTo \in Int /\ CommittedTo \in Int
    BY <1>0, <1>1 DEF Waves, JoinedTo, RecordedTo, CommittedTo, OverWave, Taken
  <1>4. pc \in Steps
    BY DEF Typed
  <1> USE DEF JoinedTo, RecordedTo, CommittedTo, OverWave, Taken, Going
  <1>5. CASE Open
    BY <1>0, <1>5 DEF Open, Fail, Waves, Join, Record, Store, NextFile
  <1>6. CASE StartWorker
    BY <1>0, <1>1, <1>2, <1>6 DEF StartWorker, LoopTo, Join, Record, Store, NextFile
  <1>7. CASE Join
    BY <1>0, <1>1, <1>2, <1>7 DEF LoopTo, Fail, Join, Record, Store, NextFile
  <1>8. CASE Record
    BY <1>0, <1>1, <1>2, <1>8 DEF LoopTo, Fail, Join, Record, Store, NextFile
  <1>9. CASE Rethrow
    BY <1>0, <1>1, <1>2, <1>9 DEF Rethrow, Fail, Waves, Join, Record, Store, NextFile
  <1>10. CASE TakeHeadroom
    BY <1>0, <1>1, <1>2, <1>10 DEF TakeHeadroom, Fail, Join, Record, Store, NextFile
  <1>11. CASE Store
    BY <1>0, <1>1, <1>2, <1>11 DEF Fail, Join, Record, Store, NextFile
  <1>12. CASE NextFile
    <2>1. OverWave /\ next \in begin .. WaveEnd /\ NextWave = WaveEnd + 1
      BY <1>1, <1>12 DEF NextFile, NextWave
    <2>2. CASE next < WaveEnd
      BY <1>0, <1>2, <1>12, <2>1, <2>2 DEF NextFile, Join, Record, Store
    <2>3. CASE ~ (next < WaveEnd)
      <3>1. next = WaveEnd /\ next' = WaveEnd + 1 /\ begin' = WaveEnd + 1
            /\ pc' = IF WaveEnd = Len(scan) THEN "assemble" ELSE "start"
        <4>1. next = WaveEnd
          BY <1>0, <2>1, <2>3
        <4>2. /\ next' = NextWave /\ begin' = NextWave
              /\ pc' = IF WaveEnd = Len(scan) THEN "assemble" ELSE "start"
          BY <1>12, <2>3 DEF NextFile
        <4>. QED
          BY <2>1, <4>1, <4>2
      <3>2. pc = "next" \/ pc = "commit"
        BY <1>12 DEF NextFile
      <3>. QED
        BY <1>0, <1>12, <2>1, <3>1, <3>2 DEF Join, Record, Store
    <2>. QED
      BY <2>2, <2>3
  <1>13. CASE Flush
    <2>1. /\ begin' = begin /\ next' = next /\ back' = back /\ pc = "flush"
          /\ pc' \in {back, "unwind"}
      BY <1>13 DEF Flush, Fail
    <2>2. back \in {"next", "commit", "candidate"}
      BY DEF Typed
    <2>. QED
      BY <1>0, <1>1, <1>2, <2>1, <2>2 DEF Join, Record, Store, NextFile
  <1>14. CASE Assemble \/ MakeCandidate \/ NextLevel \/ PassOn \/ MergeGroup
    BY <1>0, <1>14 DEF Assemble, MakeCandidate, NextLevel, PassOn, MergeGroup, Fail,
                       Join, Record, Store, NextFile
  <1>15. CASE RemoveInputs \/ PublishCandidate \/ Leave
    BY <1>0, <1>15 DEF RemoveInputs, PublishCandidate, Leave, Release, Fail,
                       Join, Record, Store, NextFile
  <1>16. CASE SystemFails \/ Unwind
    BY <1>16 DEF SystemFails, Unwind, Fail
  <1>17. CASE ParserSteps
    <2>1. /\ begin' = begin /\ next' = next /\ pc' = pc /\ back' = back
          /\ pc \in {"start", "join", "unwind"}
      BY <1>17 DEF ParserSteps, Parser, Reserve, ParseFails, Parsed, Waves, Running
    <2>2. ~ Join
      BY <1>0, <2>1 DEF Join, LoopTo, Fail
    <2>. QED
      BY <1>0, <1>1, <1>2, <2>1, <2>2 DEF Record, Store, NextFile
  <1>18. Goal
    BY <1>5, <1>6, <1>7, <1>8, <1>9, <1>10, <1>11, <1>12, <1>13, <1>14, <1>15, <1>16, <1>17
    DEF Next, Builder, ParserSteps
  <1> HIDE DEF JoinedTo, RecordedTo, CommittedTo
  <1>19. OverWave => next \in DOMAIN scan
    BY <1>0, <1>1
  <1>. QED
    BY <1>3, <1>18, <1>19

\* What was joined stays as it is.
LEMMA JoinedStay ==
  ASSUME Typed, Waves, Next, Going
  PROVE  \A i \in DOMAIN scan : i < JoinedTo => worker'[i] = worker[i]
  <1>0. /\ worker \in [DOMAIN scan -> Outcomes] /\ DOMAIN scan = 1 .. Len(scan)
        /\ begin \in Nat /\ next \in Nat
    BY Constants DEF Typed
  <1>1. CASE UNCHANGED parsing \/ Store \/ Ending
    BY <1>1 DEF parsing, Store, Ending, Leave, Unwind, Release
  <1>2. CASE StartWorker
    <2>1. /\ worker' = [worker EXCEPT ![next] = "running"] /\ JoinedTo = begin
          /\ next >= begin
      BY <1>0, <1>2, WaveFacts DEF StartWorker, JoinedTo, Waves, OverWave
    <2>. QED
      BY <1>0, <2>1
  <1>3. CASE ParserSteps
    <2> SUFFICES ASSUME NEW i \in DOMAIN scan, Parser(i), NEW j \in DOMAIN scan, j < JoinedTo
                 PROVE  worker'[j] = worker[j]
      BY <1>3 DEF ParserSteps
    <2>1. /\ Running(i) /\ \E as : worker' = worker \/ worker' = [worker EXCEPT ![i] = as]
      BY DEF Parser, Reserve, ParseFails, Parsed, Ends
    <2>2. pc \in {"start", "join"}
      BY <2>1 DEF Waves, Going
    <2>3. i >= begin /\ (pc = "join" => i >= next)
      BY <1>0, <2>1, <2>2 DEF Waves, OverWave
    <2>4. i # j
      BY <1>0, <2>2, <2>3 DEF JoinedTo
    <2>. QED
      BY <1>0, <2>1, <2>4
  <1>. QED
    BY <1>1, <1>2, <1>3, Frame

LEMMA StepSettled ==
  ASSUME Typed, Waves, Settled, Next
  PROVE  Settled'
  <1> SUFFICES ASSUME Going' PROVE Settled'
    BY DEF Settled
  <1>0. /\ scan' = scan /\ Going /\ JoinedTo \in Int /\ DOMAIN scan = 1 .. Len(scan)
        /\ JoinedTo' = IF Join THEN JoinedTo + 1 ELSE JoinedTo
        /\ Join => JoinedTo = next
    BY Boundaries, Frame, Constants DEF files
  <1>1. \A i \in DOMAIN scan : i < JoinedTo => worker'[i] = worker[i]
    BY <1>0, JoinedStay
  <1>2. \A i \in DOMAIN scan : i < JoinedTo =>
          worker[i] \in {"parsed", "failed"} \/ (worker[i] = "refused" /\ fatal)
    BY <1>0 DEF Settled
  <1>3. \A i \in DOMAIN scan : i < JoinedTo' =>
          worker'[i] \in {"parsed", "failed"} \/ (worker'[i] = "refused" /\ fatal')
    <2>1. CASE Join
      <3>1. /\ worker' = worker /\ worker[next] \notin {"no", "running", "thrown"}
            /\ fatal' = (fatal \/ worker[next] = "refused")
        BY <2>1 DEF Join, Ready, Fail, Going, parsing
      <3>2. \A i \in DOMAIN scan : i < JoinedTo + 1 => i < JoinedTo \/ i = next
        BY <1>0, <2>1
      <3>3. \A i \in DOMAIN scan : worker[i] \in Outcomes
        BY DEF Typed
      <3>. QED
        BY <1>0, <1>2, <2>1, <3>1, <3>2, <3>3 DEF Outcomes
    <2>2. CASE ~ Join
      BY <1>0, <1>1, <1>2, <2>2, Frame
    <2>. QED
      BY <2>1, <2>2
  <1>4. fatal' => pc' \in {"join", "record", "rethrow"}
    <2>1. CASE Join
      BY <2>1 DEF Join, LoopTo, Fail, Going
    <2>2. CASE ~ Join
      <3>1. fatal' = fatal
        BY <2>2, Frame
      <3>2. fatal => pc \in {"join", "record", "rethrow"}
        BY <1>0 DEF Settled
      <3>3. ASSUME pc \in {"join", "record", "rethrow"}, fatal
            PROVE  pc' \in {"join", "record", "rethrow"}
        BY <2>2, <3>3 DEF Next, Builder, Open, StartWorker, Record, Rethrow, Rethrows,
             LoopTo, TakeHeadroom, Store, NextFile, Flush, Assemble, MakeCandidate, NextLevel,
             PassOn, MergeGroup, RemoveInputs, PublishCandidate, Leave, Unwind, SystemFails,
             Fail, Parser, Reserve, ParseFails, Parsed, Going
      <3>. QED
        BY <3>1, <3>2, <3>3
    <2>. QED
      BY <2>1, <2>2
  <1>5. pc' = "store" => HasDocument(next)'
    <2>1. pc' = "store" => TakeHeadroom
      BY DEF Next, Builder, Open, StartWorker, Join, Record, Rethrow, LoopTo, Store, NextFile,
             Flush, Assemble, MakeCandidate, NextLevel, PassOn, MergeGroup, RemoveInputs,
             PublishCandidate, Leave, Unwind, SystemFails, Fail, Parser, Reserve, ParseFails,
             Parsed, Waves, Running, Typed
    <2>. QED
      BY <2>1 DEF TakeHeadroom, HasDocument, parsing
  <1>. QED
    BY <1>0, <1>3, <1>4, <1>5 DEF Settled

LEMMA StepDiagnosed ==
  ASSUME Typed, Waves, Settled, Diagnosed, Next
  PROVE  Diagnosed'
  <1> SUFFICES ASSUME Going' PROVE Diagnosed'
    BY DEF Diagnosed
  <1>0. /\ scan' = scan /\ Going /\ JoinedTo \in Int /\ RecordedTo \in Int
        /\ RecordedTo' = IF Record THEN RecordedTo + 1 ELSE RecordedTo
        /\ Record => RecordedTo = next
        /\ RecordedTo <= JoinedTo /\ DOMAIN scan = 1 .. Len(scan)
    BY Boundaries, Frame, Constants DEF files
  <1>1. /\ Ascending(errors)
        /\ \A i : In(i, errors) <=> i \in DOMAIN scan /\ worker[i] = "failed" /\ i < RecordedTo
    BY <1>0 DEF Diagnosed
  <1>2. CASE ~ Record
    <2>1. errors' = errors /\ RecordedTo' = RecordedTo
      BY <1>0, <1>2, Frame
    <2>2. \A i \in DOMAIN scan : i < RecordedTo => worker'[i] = worker[i]
      BY <1>0, JoinedStay
    <2>. QED
      BY <1>0, <1>1, <2>1, <2>2 DEF Diagnosed
  <1>3. CASE Record
    <2>1. worker' = worker /\ RecordedTo = next /\ RecordedTo' = next + 1
          /\ next \in DOMAIN scan /\ next \in Int
      BY <1>0, <1>3, Boundaries DEF Record, parsing, OverWave
    <2>2. \A i \in DOMAIN scan : i < next + 1 <=> i < next \/ i = next
      BY <1>0, <2>1
    <2>3. CASE worker[next] # "failed"
      <3>1. errors' = errors
        BY <1>3, <2>3 DEF Record
      <3>. QED
        BY <1>0, <1>1, <2>1, <2>2, <2>3, <3>1 DEF Diagnosed
    <2>4. CASE worker[next] = "failed"
      <3>1. errors' = Append(errors, next)
        BY <1>3, <2>4 DEF Record
      <3>2. errors \in Seq(Nat) /\ next \in Nat
        BY DEF Typed
      <3>3. \A i : In(i, errors) => i < next
        BY <1>1, <2>1
      <3>4. Ascending(errors') /\ \A i : In(i, errors') <=> In(i, errors) \/ i = next
        BY <1>1, <3>1, <3>2, <3>3, AppendOrdered
      <3>. QED
        BY <1>0, <1>1, <2>1, <2>2, <2>4, <3>4 DEF Diagnosed
    <2>. QED
      BY <2>3, <2>4
  <1>. QED
    BY <1>2, <1>3

LEMMA StepBatched ==
  ASSUME Typed, Waves, Settled, Batched, Next
  PROVE  Batched'
  <1> SUFFICES ASSUME Early' PROVE Batched'
    BY DEF Batched
  <1>g. Going'
    BY DEF Early, Going
  <1>0. /\ scan' = scan /\ Going /\ JoinedTo \in Int /\ CommittedTo \in Int
        /\ CommittedTo' = IF Store \/ (pc = "commit" /\ NextFile)
                          THEN CommittedTo + 1 ELSE CommittedTo
        /\ Store \/ (pc = "commit" /\ NextFile) => CommittedTo = next
        /\ CommittedTo <= JoinedTo /\ DOMAIN scan = 1 .. Len(scan) /\ Len(scan) \in Nat
    BY <1>g, Boundaries, Frame, Constants DEF files
  <1>e. Early
    BY DEF Next, Builder, Early, Open, StartWorker, Join, Record, Rethrow, LoopTo, TakeHeadroom,
           Store, NextFile, Flush, Assemble, MakeCandidate, NextLevel, PassOn, MergeGroup,
           RemoveInputs, PublishCandidate, Leave, Unwind, SystemFails, Fail, Parser, Reserve,
           ParseFails, Parsed
  <1>1. /\ \A k \in DOMAIN segments : Ascending(segments[k].docs)
                                      /\ Before(segments[k].docs, active)
        /\ \A k, l \in DOMAIN segments :
             k < l => Before(segments[k].docs, segments[l].docs)
        /\ Ascending(active)
        /\ \A i : (In(i, active) \/ \E k \in DOMAIN segments : In(i, segments[k].docs))
                    <=> i \in DOMAIN scan /\ worker[i] = "parsed" /\ i < CommittedTo
    BY <1>e DEF Batched
  <1>2. \A i \in DOMAIN scan : i < CommittedTo => worker'[i] = worker[i]
    BY <1>0, JoinedStay
  <1>3. CASE ~ Store /\ ~ Flush
    <2>1. active' = active /\ segments' = segments
      BY <1>3, Frame
    <2>2. pc' # "candidate"
      BY <1>3 DEF Next, Builder, Open, StartWorker, Join, Record, Rethrow, LoopTo, TakeHeadroom,
             NextFile, Assemble, MakeCandidate, NextLevel, PassOn, MergeGroup,
             RemoveInputs, PublishCandidate, Leave, Unwind, SystemFails, Fail, Parser, Reserve,
             ParseFails, Parsed, Waves, Running
    <2>3. \A i : i \in DOMAIN scan /\ worker'[i] = "parsed" /\ i < CommittedTo'
                   <=> i \in DOMAIN scan /\ worker[i] = "parsed" /\ i < CommittedTo
      <3>1. CASE pc = "commit" /\ NextFile
        <4>1. worker' = worker /\ worker[next] # "parsed" /\ CommittedTo' = next + 1
              /\ CommittedTo = next
          BY <1>0, <3>1 DEF NextFile, HasDocument, parsing
        <4>2. \A i \in DOMAIN scan : i < next + 1 <=> i < next \/ i = next
          BY <1>0, <4>1
        <4>. QED
          BY <4>1, <4>2
      <3>2. CASE ~ (pc = "commit" /\ NextFile)
        BY <1>0, <1>2, <1>3, <3>2
      <3>. QED
        BY <3>1, <3>2
    <2>. QED
      BY <1>0, <1>1, <2>1, <2>2, <2>3 DEF Batched
  <1>4. CASE Store
    <2>1. /\ active' = Append(active, next) /\ segments' = segments /\ worker' = worker
          /\ pc' # "candidate" /\ CommittedTo = next /\ CommittedTo' = next + 1
      BY <1>0, <1>4 DEF Store, Fail
    <2>2. next \in DOMAIN scan /\ next \in Int /\ next < JoinedTo
      <3>1. next \in Wave /\ JoinedTo = WaveEnd + 1 /\ next \in Nat
        BY <1>4 DEF Store, Waves, OverWave, JoinedTo, Typed
      <3>. QED
        BY <3>1, WaveFacts DEF Typed
    <2>3. worker[next] = "parsed"
      <3>1. pc = "store" /\ HasDocument(next) /\ ~ fatal
        BY <1>0, <1>4 DEF Store, Settled
      <3>. QED
        BY <1>0, <2>2, <3>1 DEF Settled, HasDocument
    <2>4. active \in Seq(DOMAIN scan)
      BY DEF Typed
    <2>5. /\ \A i : In(i, active) => i < next
          /\ \A k \in DOMAIN segments : \A i : In(i, segments[k].docs) => i < next
      BY <1>1, <2>1
    <2>6. Ascending(active') /\ \A i : In(i, active') <=> In(i, active) \/ i = next
      BY <1>1, <2>1, <2>2, <2>4, <2>5, AppendOrdered
    <2>7. \A k \in DOMAIN segments : Before(segments[k].docs, active')
      <3> TAKE k \in DOMAIN segments
      <3>1. Before(segments[k].docs, active)
        BY <1>1
      <3>. QED
        BY <2>5, <2>6, <3>1, BeforeMeans
    <2>8. \A i \in DOMAIN scan : i < next + 1 <=> i < next \/ i = next
      BY <1>0, <2>2
    <2>9. \A i : (In(i, active') \/ \E k \in DOMAIN segments : In(i, segments[k].docs))
                    <=> i \in DOMAIN scan /\ worker[i] = "parsed" /\ i < next + 1
      BY <1>1, <2>1, <2>2, <2>3, <2>6, <2>8
    <2>. QED
      BY <1>0, <1>1, <2>1, <2>6, <2>7, <2>9 DEF Batched
  <1>5. CASE Flush
    <2>1. worker' = worker /\ CommittedTo' = CommittedTo
      BY <1>0, <1>5 DEF Flush, Store, NextFile, parsing
    <2>2. CASE active = <<>>
      <3>1. active' = active /\ segments' = segments
        BY <1>5, <2>2 DEF Flush
      <3>. QED
        BY <1>0, <1>1, <2>1, <2>2, <3>1 DEF Batched
    <2>3. CASE active # <<>>
      <3>1. active' = <<>> /\ segments' = WithBatch
        BY <1>5, <2>3 DEF Flush, Fail, WithBatch, Early
      <3> DEFINE n == Len(segments)
                 all == WithBatch
      <3>2. /\ n \in Nat /\ DOMAIN segments = 1 .. n /\ DOMAIN all = 1 .. (n + 1)
            /\ all[n + 1].docs = active /\ \A k \in 1 .. n : all[k] = segments[k]
        BY AppendProperties, LenProperties DEF WithBatch, Typed
      <3>3. /\ \A k \in 1 .. (n + 1) : k \in 1 .. n \/ k = n + 1
            /\ \A k \in 1 .. n : k \in 1 .. (n + 1) /\ k < n + 1
            /\ n + 1 \in 1 .. (n + 1)
            /\ \A k \in 1 .. (n + 1) : ~ (n + 1 < k)
        BY <3>2
      <3> HIDE DEF n, all
      <3>4. \A k \in DOMAIN all : Ascending(all[k].docs) /\ Before(all[k].docs, <<>>)
        BY <1>1, <3>2, <3>3, NoneOrdered
      <3>5. \A k, l \in DOMAIN all : k < l => Before(all[k].docs, all[l].docs)
        <4> SUFFICES ASSUME NEW k \in 1 .. (n + 1), NEW l \in 1 .. (n + 1), k < l
                     PROVE  Before(all[k].docs, all[l].docs)
          BY <3>2
        <4>1. k \in 1 .. n
          BY <3>3
        <4>2. CASE l = n + 1
          BY <1>1, <3>2, <4>1, <4>2
        <4>3. CASE l \in 1 .. n
          BY <1>1, <3>2, <4>1, <4>3
        <4>. QED
          BY <3>3, <4>2, <4>3
      <3>6. \A i : (\E k \in DOMAIN all : In(i, all[k].docs))
                     <=> (In(i, active) \/ \E k \in DOMAIN segments : In(i, segments[k].docs))
        <4> TAKE i
        <4>1. ASSUME NEW k \in DOMAIN all, In(i, all[k].docs)
              PROVE  In(i, active) \/ \E l \in DOMAIN segments : In(i, segments[l].docs)
          BY <3>2, <3>3, <4>1
        <4>2. ASSUME In(i, active) PROVE \E k \in DOMAIN all : In(i, all[k].docs)
          BY <3>2, <3>3, <4>2
        <4>3. ASSUME NEW l \in DOMAIN segments, In(i, segments[l].docs)
              PROVE  \E k \in DOMAIN all : In(i, all[k].docs)
          BY <3>2, <3>3, <4>3
        <4>. QED
          BY <4>1, <4>2, <4>3
      <3>7. segments' = all
        BY <3>1 DEF all
      <3>8. \A i : (In(i, active') \/ \E k \in DOMAIN segments' : In(i, segments'[k].docs))
                     <=> i \in DOMAIN scan' /\ worker'[i] = "parsed" /\ i < CommittedTo'
        BY <1>0, <1>1, <2>1, <3>1, <3>6, <3>7, NoneOrdered
      <3>. QED
        BY <3>1, <3>4, <3>5, <3>7, <3>8, NoneOrdered DEF Batched
    <2>. QED
      BY <2>2, <2>3
  <1>. QED
    BY <1>3, <1>4, <1>5

\* One output more takes the place of the first sources.
LEMMA PieceOut ==
  ASSUME NEW X, NEW m \in Seq(X), NEW out \in X, NEW s, NEW K \in SUBSET Int,
         NEW Q \in SUBSET K, Lined(m, s, K), Ascending(out.docs),
         \A i : In(i, out.docs) <=> \E k \in Q : In(i, s[k].docs),
         \A k \in Q, l \in K \ Q : k < l
  PROVE  /\ Lined(Append(m, out), s, K \ Q)
         /\ \A i : Among(i, Append(m, out), s, K \ Q) <=> Among(i, m, s, K)
  <1> DEFINE n == Len(m)
             w == Append(m, out)
  <1>1. /\ n \in Nat /\ DOMAIN m = 1 .. n /\ DOMAIN w = 1 .. (n + 1) /\ w[n + 1] = out
        /\ \A k \in 1 .. n : w[k] = m[k]
    BY AppendProperties, LenProperties
  <1>2. /\ \A k \in 1 .. (n + 1) : k \in 1 .. n \/ k = n + 1
        /\ \A k \in 1 .. n : k \in 1 .. (n + 1)
        /\ n + 1 \in 1 .. (n + 1)
        /\ \A k \in 1 .. (n + 1) : ~ (n + 1 < k)
    BY <1>1
  <1> HIDE DEF n, w
  <1>3. \A k \in DOMAIN w : Ascending(w[k].docs)
    BY <1>1, <1>2 DEF Lined
  <1>4. \A k \in DOMAIN m : Before(m[k].docs, out.docs)
    <2> TAKE k \in DOMAIN m
    <2> SUFFICES ASSUME NEW i, NEW j, In(i, m[k].docs), In(j, out.docs) PROVE i < j
      BY BeforeMeans
    <2>1. PICK q \in Q : In(j, s[q].docs)
      OBVIOUS
    <2>2. Before(m[k].docs, s[q].docs)
      BY DEF Lined
    <2>. QED
      BY <2>1, <2>2, BeforeMeans
  <1>5. \A l \in K \ Q : Before(out.docs, s[l].docs)
    <2> TAKE l \in K \ Q
    <2> SUFFICES ASSUME NEW i, NEW j, In(i, out.docs), In(j, s[l].docs) PROVE i < j
      BY BeforeMeans
    <2>1. PICK q \in Q : In(i, s[q].docs)
      OBVIOUS
    <2>2. Before(s[q].docs, s[l].docs)
      BY DEF Lined
    <2>. QED
      BY <2>1, <2>2, BeforeMeans
  <1>6. \A k, l \in DOMAIN w : k < l => Before(w[k].docs, w[l].docs)
    <2> SUFFICES ASSUME NEW k \in 1 .. (n + 1), NEW l \in 1 .. (n + 1), k < l
                 PROVE  Before(w[k].docs, w[l].docs)
      BY <1>1
    <2>1. k \in 1 .. n
      BY <1>2
    <2>2. CASE l = n + 1
      BY <1>1, <1>4, <2>1, <2>2
    <2>3. CASE l \in 1 .. n
      BY <1>1, <2>1, <2>3 DEF Lined
    <2>. QED
      BY <1>2, <2>2, <2>3
  <1>7. \A k \in DOMAIN w, l \in K \ Q : Before(w[k].docs, s[l].docs)
    BY <1>1, <1>2, <1>5 DEF Lined
  <1>8. Lined(w, s, K \ Q)
    BY <1>3, <1>6, <1>7 DEF Lined
  <1>9. ASSUME NEW i PROVE Among(i, w, s, K \ Q) <=> Among(i, m, s, K)
    <2>1. (\E k \in DOMAIN w : In(i, w[k].docs))
            <=> (\E k \in DOMAIN m : In(i, m[k].docs)) \/ In(i, out.docs)
      <3>1. ASSUME NEW k \in DOMAIN w, In(i, w[k].docs)
            PROVE  (\E l \in DOMAIN m : In(i, m[l].docs)) \/ In(i, out.docs)
        BY <1>1, <1>2, <3>1
      <3>2. ASSUME In(i, out.docs) PROVE \E k \in DOMAIN w : In(i, w[k].docs)
        BY <1>1, <1>2, <3>2
      <3>3. ASSUME NEW l \in DOMAIN m, In(i, m[l].docs)
            PROVE  \E k \in DOMAIN w : In(i, w[k].docs)
        BY <1>1, <1>2, <3>3
      <3>. QED
        BY <3>1, <3>2, <3>3
    <2>2. (\E k \in K : In(i, s[k].docs))
            <=> (\E k \in Q : In(i, s[k].docs)) \/ \E k \in K \ Q : In(i, s[k].docs)
      OBVIOUS
    <2>3. In(i, out.docs) <=> \E k \in Q : In(i, s[k].docs)
      OBVIOUS
    <2>. QED
      BY <2>1, <2>2, <2>3 DEF Among
  <1>. QED
    BY <1>8, <1>9 DEF w

\* The documents of the next group are those of its pieces, in order.
LEMMA GroupOrdered ==
  ASSUME Typed, WorkTyped, ~ LevelDone, NEW m, NEW K \in SUBSET Int,
         level.taken + 1 .. GroupEnd \subseteq K, Lined(m, level.sources, K)
  PROVE  /\ DocsOf(Group) \in Seq(DOMAIN scan)
         /\ Ascending(DocsOf(Group))
         /\ \A i : In(i, DocsOf(Group))
                     <=> \E k \in level.taken + 1 .. GroupEnd : In(i, level.sources[k].docs)
  <1> DEFINE ss == [k \in DOMAIN Group |-> Group[k].docs]
             t == level.taken
  <1>1. /\ Group \in Seq(Pieces) /\ DOMAIN Group = 1 .. GroupSize /\ GroupSize \in Nat
        /\ \A k \in 1 .. GroupSize : Group[k] = level.sources[t + k]
        /\ GroupEnd = t + GroupSize /\ t \in Nat /\ Len(Group) = GroupSize
    BY GroupFacts
  <1>2. \A k \in 1 .. GroupSize : Group[k].docs \in Seq(DOMAIN scan)
    <2>1. \A k \in 1 .. Len(Group) : Group[k] \in Pieces
      BY <1>1
    <2>. QED
      BY <1>1, <2>1 DEF Pieces
  <1>3. /\ \A k \in 1 .. GroupSize : t + k \in t + 1 .. GroupEnd
        /\ \A k \in t + 1 .. GroupEnd : k - t \in 1 .. GroupSize /\ t + (k - t) = k
        /\ \A k, l \in 1 .. GroupSize : k < l => t + k < t + l
    BY <1>1
  <1>4. DOMAIN scan \subseteq Int
    BY Constants
  <1>5. ss \in Seq(Seq(DOMAIN scan)) /\ ss \in Seq(Seq(Int)) /\ DOMAIN ss = 1 .. GroupSize
        /\ \A k \in 1 .. GroupSize : ss[k] = level.sources[t + k].docs
    <2>1. DOMAIN ss = 1 .. GroupSize
          /\ \A k \in 1 .. GroupSize : ss[k] = level.sources[t + k].docs
      BY <1>1
    <2>2. \A k \in 1 .. GroupSize : Group[k].docs \in Seq(Int)
      BY <1>2, <1>4, SeqDef
    <2>3. ss = [k \in 1 .. GroupSize |-> ss[k]]
      BY <2>1
    <2>4. \A k \in 1 .. GroupSize : ss[k] \in Seq(DOMAIN scan) /\ ss[k] \in Seq(Int)
      BY <1>1, <1>2, <2>2
    <2> HIDE DEF ss
    <2>5. /\ ss \in [1 .. GroupSize -> Seq(DOMAIN scan)]
          /\ ss \in [1 .. GroupSize -> Seq(Int)] /\ GroupSize \in Nat
      BY <1>1, <2>3, <2>4
    <2>6. ss \in Seq(Seq(DOMAIN scan)) /\ ss \in Seq(Seq(Int))
      BY ONLY <2>5, SeqDef
    <2>. QED
      BY <2>1, <2>6
  <1> HIDE DEF ss, t
  <1>6. \A k \in DOMAIN ss : Ascending(ss[k])
    BY <1>3, <1>5 DEF Lined, t
  <1>7. \A k, l \in DOMAIN ss : k < l => Before(ss[k], ss[l])
    <2> SUFFICES ASSUME NEW k \in 1 .. GroupSize, NEW l \in 1 .. GroupSize, k < l
                 PROVE  Before(ss[k], ss[l])
      BY <1>5
    <2>1. t + k \in K /\ t + l \in K /\ t + k < t + l
      BY <1>3 DEF t
    <2>. QED
      BY <1>5, <2>1 DEF Lined
  <1>8. /\ Ascending(FlattenSeq(ss))
        /\ \A i : In(i, FlattenSeq(ss)) <=> \E k \in DOMAIN ss : In(i, ss[k])
    BY ONLY <1>5, <1>6, <1>7, FlattenOrdered
  <1>9. \A i : (\E k \in DOMAIN ss : In(i, ss[k]))
                 <=> \E k \in t + 1 .. GroupEnd : In(i, level.sources[k].docs)
    BY <1>3, <1>5
  <1>10. DocsOf(Group) = FlattenSeq(ss)
    BY DEF DocsOf, ss
  <1>11. FlattenSeq(ss) \in Seq(DOMAIN scan)
    <2> DEFINE f == [i \in DOMAIN ss |-> Weight(DiskOf, ss[i])]
    <2>1. DiskOf \in [DOMAIN scan -> Nat]
      BY FileFacts DEF DiskOf
    <2>. QED
      BY <1>5, <2>1, FlattenWeight
  <1>. QED
    BY <1>8, <1>9, <1>10, <1>11 DEF t

LEMMA WorkersDone ==
  ASSUME Typed, Waves, Next, pc \in {"candidate", "level", "remove", "publish", "leave", "done"}
  PROVE  worker' = worker
  <1>1. ~ ParserSteps
    BY DEF ParserSteps, Parser, Reserve, ParseFails, Parsed, Waves, Running
  <1>. QED
    BY <1>1, Frame DEF parsing, StartWorker, Store, Ending, Leave, Unwind, Release

LEMMA CandidateMerged ==
  ASSUME Typed, Waves, Work, Batched, MakeCandidate, pc' = "level", worker' = worker
  PROVE  Merged'
  <1>1. /\ pc = "candidate" /\ Early /\ ~ OverWave /\ CommittedTo = Len(scan) + 1
        /\ scan' = scan /\ level' = [level EXCEPT !.sources = segments]
    BY DEF MakeCandidate, Early, OverWave, CommittedTo, files, Fail
  <1>2. level \in Pass /\ level.merged = <<>> /\ level.taken = 0
    BY <1>1 DEF Work, WorkTyped, Flushed
  <1>3. /\ level'.sources = segments /\ level'.merged = <<>> /\ level'.taken = 0
    BY <1>1, <1>2 DEF Pass
  <1>4. Unconsumed' = DOMAIN segments
    BY <1>3, LenProperties DEF Unconsumed, Typed
  <1>5. /\ \A k \in DOMAIN segments : Ascending(segments[k].docs)
        /\ \A k, l \in DOMAIN segments :
             k < l => Before(segments[k].docs, segments[l].docs)
        /\ \A i : (In(i, active) \/ \E k \in DOMAIN segments : In(i, segments[k].docs))
                    <=> i \in DOMAIN scan /\ worker[i] = "parsed" /\ i < CommittedTo
        /\ active = <<>>
    BY <1>1 DEF Batched
  <1>6. \A i \in DOMAIN scan : i < Len(scan) + 1
    BY Constants
  <1>7. \A i : (\E k \in DOMAIN segments : In(i, segments[k].docs))
                 <=> i \in DOMAIN scan /\ worker[i] = "parsed"
    BY <1>1, <1>5, <1>6, NoneOrdered
  <1>8. Lined(<<>>, segments, DOMAIN segments)
    BY <1>5 DEF Lined
  <1>9. \A i : Among(i, <<>>, segments, DOMAIN segments)
                 <=> i \in DOMAIN scan /\ worker[i] = "parsed"
    BY <1>7 DEF Among
  <1>. QED
    BY <1>1, <1>3, <1>4, <1>8, <1>9 DEF Merged

LEMMA NextLevelMerged ==
  ASSUME Work, Merged, NextLevel, worker' = worker
  PROVE  Merged'
  <1>1. /\ scan' = scan /\ pc = "level" /\ Merging
        /\ level' = [sources |-> level.merged, merged |-> <<>>, taken |-> 0,
                     pass |-> level.pass + 1]
        /\ level.taken = Len(level.sources) /\ pc' = "level"
    BY DEF NextLevel, files, Merging, LevelDone
  <1>2. /\ level.merged \in Seq(Pieces) /\ DOMAIN level.merged = 1 .. Len(level.merged)
        /\ level.taken \in Nat
    BY LenProperties DEF Work, WorkTyped, Pass
  <1>3. Unconsumed = {} /\ Unconsumed' = DOMAIN level.merged
        /\ level'.sources = level.merged /\ level'.merged = <<>>
    BY <1>1, <1>2 DEF Unconsumed
  <1>4. /\ Lined(level.merged, level.sources, {})
        /\ \A i : Among(i, level.merged, level.sources, {})
                    <=> i \in DOMAIN scan /\ worker[i] = "parsed"
    BY <1>1, <1>3 DEF Merged
  <1>5. Lined(<<>>, level.merged, DOMAIN level.merged)
    BY <1>4 DEF Lined
  <1>6. \A i : Among(i, <<>>, level.merged, DOMAIN level.merged)
                 <=> Among(i, level.merged, level.sources, {})
    BY DEF Among
  <1>. QED
    BY <1>1, <1>3, <1>4, <1>5, <1>6 DEF Merged

LEMMA PassOnMerged ==
  ASSUME Typed, Work, Merged, PassOn, worker' = worker
  PROVE  Merged'
  <1> DEFINE t == level.taken
             n == Len(level.sources)
             out == Group[1]
             Q == {t + 1}
  <1>1. /\ scan' = scan /\ pc = "level" /\ pc' = "level" /\ Merging /\ ~ LevelDone
        /\ level' = [level EXCEPT !.merged = Append(@, out), !.taken = GroupEnd]
        /\ Len(Group) = 1 /\ WorkTyped /\ level \in Pass /\ level.merged \in Seq(Pieces)
    BY DEF PassOn, files, Merging, Work, WorkTyped, Pass
  <1>2. /\ GroupEnd = t + 1 /\ t + 1 <= n /\ t \in Nat /\ n \in Nat
        /\ out = level.sources[t + 1] /\ level.sources \in Seq(Pieces)
        /\ t + 1 \in DOMAIN level.sources
    <2>1. GroupSize = 1 /\ GroupEnd = t + GroupSize /\ GroupEnd <= n /\ t \in Nat
          /\ n \in Nat /\ \A k \in 1 .. GroupSize : Group[k] = level.sources[t + k]
          /\ level.sources \in Seq(Pieces) /\ DOMAIN level.sources = 1 .. n
      BY <1>1, GroupFacts
    <2>. QED
      BY <2>1
  <1>3. /\ level'.merged = Append(level.merged, out) /\ level'.taken = t + 1
        /\ level'.sources = level.sources
    BY <1>1, <1>2 DEF Pass
  <1>4. /\ Unconsumed = t + 1 .. n /\ Unconsumed' = Unconsumed \ Q
        /\ Q \in SUBSET Unconsumed /\ Unconsumed \in SUBSET Int
        /\ \A k \in Q, l \in Unconsumed \ Q : k < l
    BY <1>1, <1>2, <1>3 DEF Unconsumed
  <1>5. /\ Lined(level.merged, level.sources, Unconsumed)
        /\ \A i : Among(i, level.merged, level.sources, Unconsumed)
                    <=> i \in DOMAIN scan /\ worker[i] = "parsed"
    BY <1>1 DEF Merged
  <1>6. out \in Pieces
    BY <1>2
  <1>7. /\ Ascending(out.docs)
        /\ \A i : In(i, out.docs) <=> \E k \in Q : In(i, level.sources[k].docs)
    BY <1>2, <1>4, <1>5 DEF Lined
  <1> HIDE DEF t, n, out, Q
  <1>8. /\ Lined(Append(level.merged, out), level.sources, Unconsumed \ Q)
        /\ \A i : Among(i, Append(level.merged, out), level.sources, Unconsumed \ Q)
                    <=> Among(i, level.merged, level.sources, Unconsumed)
    <2>1. /\ level.merged \in Seq(Pieces) /\ out \in Pieces
          /\ Unconsumed \in SUBSET Int /\ Q \in SUBSET Unconsumed
          /\ Lined(level.merged, level.sources, Unconsumed)
          /\ \A k \in Q, l \in Unconsumed \ Q : k < l
      BY <1>1, <1>4, <1>5, <1>6
    <2>. QED
      BY ONLY <1>7, <2>1, PieceOut
  <1>. QED
    BY <1>1, <1>3, <1>4, <1>5, <1>8 DEF Merged

LEMMA MergeGroupMerged ==
  ASSUME Typed, Work, Merged, MergeGroup, pc' = "remove", worker' = worker
  PROVE  Merged'
  <1> DEFINE t == level.taken
             n == Len(level.sources)
             name == IF LastLevel THEN CandidateName
                                  ELSE MergeName(level.pass, Len(level.merged))
             out == [name |-> name, docs |-> DocsOf(Group)]
             Q == t + 1 .. GroupEnd
  <1>1. /\ scan' = scan /\ opt' = opt /\ pc = "level" /\ Merging /\ ~ LevelDone
        /\ level' = [level EXCEPT !.merged = Append(@, out)]
        /\ WorkTyped /\ level \in Pass /\ level.merged \in Seq(Pieces)
        /\ level.pass \in Nat
    BY DEF MergeGroup, files, Merging, Work, WorkTyped, Pass, Fail
  <1>2. /\ GroupEnd \in Nat /\ GroupEnd <= n /\ t \in Nat /\ n \in Nat
    BY <1>1, GroupFacts
  <1>3. /\ level'.merged = Append(level.merged, out) /\ level'.taken = level.taken
        /\ level'.sources = level.sources
    BY <1>1 DEF Pass
  <1>4. /\ Unconsumed = t + 1 .. n /\ Unconsumed' = Unconsumed \ Q
        /\ Q \in SUBSET Unconsumed /\ Unconsumed \in SUBSET Int
        /\ \A k \in Q, l \in Unconsumed \ Q : k < l
    <2>1. GroupEnd' = GroupEnd
      BY <1>1, <1>3 DEF GroupEnd
    <2>2. Unconsumed = t + 1 .. n /\ Unconsumed' = GroupEnd + 1 .. n
      BY <1>1, <1>3, <2>1 DEF Unconsumed
    <2>3. /\ GroupEnd + 1 .. n = (t + 1 .. n) \ (t + 1 .. GroupEnd)
          /\ t + 1 .. GroupEnd \subseteq t + 1 .. n
          /\ \A k \in t + 1 .. GroupEnd, l \in GroupEnd + 1 .. n : k < l
      <3>1. GroupEnd >= t
        BY <1>1, GroupFacts
      <3> HIDE DEF t, n
      <3>. QED
        BY <1>2, <3>1
    <2> HIDE DEF t, n
    <2>. QED
      BY <1>2, <2>2, <2>3
  <1>5. /\ Lined(level.merged, level.sources, Unconsumed)
        /\ \A i : Among(i, level.merged, level.sources, Unconsumed)
                    <=> i \in DOMAIN scan /\ worker[i] = "parsed"
    BY <1>1 DEF Merged
  <1>6. /\ DocsOf(Group) \in Seq(DOMAIN scan) /\ Ascending(DocsOf(Group))
        /\ \A i : In(i, DocsOf(Group)) <=> \E k \in Q : In(i, level.sources[k].docs)
    BY <1>1, <1>4, <1>5, GroupOrdered
  <1>7. out \in Pieces
    <2>1. Len(level.merged) \in Nat
      BY <1>1, LenProperties
    <2>2. name \in Names
      BY <1>1, <2>1 DEF Names
    <2>. QED
      BY <1>6, <2>2 DEF Pieces
  <1>8. /\ Ascending(out.docs)
        /\ \A i : In(i, out.docs) <=> \E k \in Q : In(i, level.sources[k].docs)
    BY <1>6
  <1> HIDE DEF t, n, out, Q
  <1>9. /\ Lined(Append(level.merged, out), level.sources, Unconsumed \ Q)
        /\ \A i : Among(i, Append(level.merged, out), level.sources, Unconsumed \ Q)
                    <=> Among(i, level.merged, level.sources, Unconsumed)
    <2>1. /\ level.merged \in Seq(Pieces) /\ out \in Pieces
          /\ Unconsumed \in SUBSET Int /\ Q \in SUBSET Unconsumed
          /\ Lined(level.merged, level.sources, Unconsumed)
          /\ \A k \in Q, l \in Unconsumed \ Q : k < l
      BY <1>1, <1>4, <1>5, <1>7
    <2>. QED
      BY ONLY <1>8, <2>1, PieceOut
  <1>. QED
    BY <1>1, <1>3, <1>4, <1>5, <1>9 DEF Merged

LEMMA RemoveMerged ==
  ASSUME Typed, Work, Merged, RemoveInputs, worker' = worker
  PROVE  Merged'
  <1>1. CASE LastLevel
    BY <1>1 DEF RemoveInputs, Merged, Merging
  <1>2. CASE ~ LastLevel
    <2>1. /\ scan' = scan /\ pc = "remove" /\ pc' = "level" /\ Merging
          /\ level' = [level EXCEPT !.taken = GroupEnd] /\ level \in Pass
      BY <1>2 DEF RemoveInputs, files, Merging, Work, WorkTyped
    <2>2. /\ level'.merged = level.merged /\ level'.taken = GroupEnd
          /\ level'.sources = level.sources
      BY <2>1 DEF Pass
    <2>3. Unconsumed' = Unconsumed
      BY <2>1, <2>2 DEF Unconsumed
    <2>. QED
      BY <2>1, <2>2, <2>3 DEF Merged
  <1>. QED
    BY <1>1, <1>2

LEMMA MergedKept ==
  ASSUME Merged, Frozen, Merging' => Merging /\ pc' = pc, worker' = worker
  PROVE  Merged'
  <1> SUFFICES ASSUME Merging' PROVE Merged'
    BY DEF Merged
  <1>1. /\ scan' = scan /\ opt' = opt /\ level' = level /\ pc' = pc /\ Merging
    BY DEF Frozen, files
  <1>2. Unconsumed' = Unconsumed
    BY <1>1 DEF Unconsumed, GroupEnd
  <1>. QED
    BY <1>1, <1>2 DEF Merged

LEMMA StepMerged ==
  ASSUME Typed, Waves, Work, Batched, Merged, Next
  PROVE  Merged'
  <1> SUFFICES ASSUME Merging' PROVE Merged'
    BY DEF Merged
  <1>1. CASE Flush \/ Ending
    BY <1>1 DEF Flush, Ending, Leave, Unwind, Release, Fail, Merging, Typed
  <1>2. CASE MakeCandidate
    <2>1. pc' = "level" /\ worker' = worker
      BY <1>2, WorkersDone DEF MakeCandidate, Fail, Merging
    <2>. QED
      BY <1>2, <2>1, CandidateMerged
  <1>3. CASE NextLevel \/ PassOn \/ MergeGroup \/ RemoveInputs
    <2>1. pc \in {"level", "remove"}
      BY <1>3 DEF NextLevel, PassOn, MergeGroup, RemoveInputs
    <2>2. worker' = worker
      BY <2>1, WorkersDone
    <2>3. MergeGroup => pc' = "remove"
      BY DEF MergeGroup, Fail, Merging
    <2>. QED
      BY <1>3, <2>2, <2>3, NextLevelMerged, PassOnMerged, MergeGroupMerged, RemoveMerged
  <1>4. CASE /\ Frozen
             /\ Merging' => Merging /\ pc' = pc
    <2>1. worker' = worker
      BY <1>4, WorkersDone DEF Merging
    <2>. QED
      BY <1>4, <2>1, MergedKept
  <1>. QED
    BY <1>1, <1>2, <1>3, <1>4, WorkFrame

LEMMA StepOneGroup ==
  ASSUME Typed, Work, OneGroup, Next
  PROVE  OneGroup'
  <1> SUFFICES ASSUME Merging', LastLevel'
               PROVE  /\ level'.taken = 0
                      /\ Len(level'.merged) = IF pc' = "remove" THEN 1 ELSE 0
    BY DEF OneGroup
  <1>0. level \in Pass /\ level.merged \in Seq(Pieces) /\ Len(<<>>) = 0 /\ opt' = opt
    BY Frame DEF Work, WorkTyped, Pass, files
  <1>1. CASE Flush \/ Ending
    BY <1>1 DEF Flush, Ending, Leave, Unwind, Release, Fail, Merging, Typed
  <1>2. CASE MakeCandidate
    <2>1. /\ pc = "candidate" /\ Early /\ pc' = "level"
          /\ level' = [level EXCEPT !.sources = segments]
      BY <1>2 DEF MakeCandidate, Fail, Merging, Early
    <2>2. level.merged = <<>> /\ level.taken = 0
      BY <2>1 DEF Work, Flushed
    <2>. QED
      BY <1>0, <2>1, <2>2 DEF Pass
  <1>3. CASE NextLevel
    BY <1>0, <1>3 DEF NextLevel
  <1>4. CASE PassOn
    <2>1. level'.sources = level.sources /\ ~ LastLevel
      BY <1>0, <1>4 DEF PassOn, Pass
    <2>. QED
      BY <1>0, <2>1 DEF LastLevel
  <1>5. CASE MergeGroup
    <2>1. /\ pc = "level" /\ pc' = "remove"
          /\ \E out : level' = [level EXCEPT !.merged = Append(@, out)]
      BY <1>5 DEF MergeGroup, Fail, Merging
    <2>2. PICK out : level' = [level EXCEPT !.merged = Append(@, out)]
      BY <2>1
    <2>3. /\ level'.sources = level.sources /\ level'.taken = level.taken
          /\ level'.merged = Append(level.merged, out)
      BY <1>0, <2>2 DEF Pass
    <2>4. level.taken = 0 /\ Len(level.merged) = 0
      BY <1>0, <2>1, <2>3 DEF OneGroup, Merging, LastLevel
    <2>5. level.merged = <<>>
      BY <1>0, <2>4, EmptySeq
    <2>6. Len(Append(<<>>, out)) = 1
      OBVIOUS
    <2>. QED
      BY <2>1, <2>3, <2>4, <2>5, <2>6
  <1>6. CASE RemoveInputs
    <2>1. ~ LastLevel /\ level'.sources = level.sources
      BY <1>0, <1>6 DEF RemoveInputs, Merging, Pass
    <2>. QED
      BY <1>0, <2>1 DEF LastLevel
  <1>7. CASE Frozen /\ Merging /\ pc' = pc
    BY <1>0, <1>7 DEF Frozen, OneGroup, LastLevel
  <1>. QED
    BY <1>1, <1>2, <1>3, <1>4, <1>5, <1>6, <1>7, WorkFrame

LEMMA StepChosen ==
  ASSUME Typed, Waves, Work, Batched, Merged, OneGroup, Chosen, Next
  PROVE  Chosen'
  <1> SUFFICES ASSUME pc' \in {"publish", "leave", "done"}
               PROVE  /\ Ascending(candidate')
                      /\ \A i : In(i, candidate')
                                  <=> i \in DOMAIN scan /\ worker[i] = "parsed"
    <2>1. pc' \in {"publish", "leave", "done"} => worker' = worker
      <3> SUFFICES ASSUME pc' \in {"publish", "leave", "done"} PROVE worker' = worker
        OBVIOUS
      <3>1. pc \in {"candidate", "level", "remove", "publish", "leave", "done"}
        BY DEF Next, Builder, Open, StartWorker, Join, Record, Rethrow, LoopTo, TakeHeadroom,
               Store, NextFile, Flush, Assemble, MakeCandidate, NextLevel, PassOn, MergeGroup,
               RemoveInputs, PublishCandidate, Leave, Unwind, SystemFails, Fail, Parser,
               Reserve, ParseFails, Parsed, Typed
      <3>. QED
        BY <3>1, WorkersDone
    <2>. QED
      BY <2>1, Frame DEF Chosen, files
  <1>1. MakeCandidate \/ RemoveInputs \/ PublishCandidate \/ Leave
    BY DEF Next, Builder, Open, StartWorker, Join, Record, Rethrow, LoopTo, TakeHeadroom,
           Store, NextFile, Flush, Assemble, NextLevel, PassOn, MergeGroup, Unwind, SystemFails,
           Fail, Parser, Reserve, ParseFails, Parsed, Typed, Waves, Running
  <1>2. CASE MakeCandidate
    <2>1. pc = "candidate" /\ Early /\ CommittedTo = Len(scan) + 1
      BY <1>2 DEF MakeCandidate, Early, OverWave, CommittedTo
    <2>2. /\ \A k \in DOMAIN segments : Ascending(segments[k].docs)
          /\ \A i : (In(i, active) \/ \E k \in DOMAIN segments : In(i, segments[k].docs))
                      <=> i \in DOMAIN scan /\ worker[i] = "parsed" /\ i < CommittedTo
          /\ active = <<>>
      BY <2>1 DEF Batched
    <2>3. \A i \in DOMAIN scan : i < Len(scan) + 1
      BY Constants
    <2>4. \A i : (\E k \in DOMAIN segments : In(i, segments[k].docs))
                   <=> i \in DOMAIN scan /\ worker[i] = "parsed"
      BY <2>1, <2>2, <2>3, NoneOrdered
    <2>5. CASE segments = <<>>
      <3>1. candidate' = <<>> /\ DOMAIN segments = {}
        BY <1>2, <2>5 DEF MakeCandidate, Fail
      <3>. QED
        BY <2>4, <3>1, NoneOrdered
    <2>6. CASE segments # <<>>
      <3>1. Len(segments) = 1 /\ candidate' = segments[1].docs
        BY <1>2, <2>6 DEF MakeCandidate, Fail
      <3>2. DOMAIN segments = {1}
        BY <3>1, LenProperties DEF Typed
      <3>. QED
        BY <2>2, <2>4, <3>1, <3>2
    <2>. QED
      BY <2>5, <2>6
  <1>3. CASE RemoveInputs
    <2>1. /\ pc = "remove" /\ Merging /\ LastLevel /\ candidate' = level.merged[1].docs
      BY <1>3 DEF RemoveInputs, Merging
    <2>2. level.taken = 0 /\ Len(level.merged) = 1
      BY <2>1 DEF OneGroup
    <2>3. /\ level.merged \in Seq(Pieces) /\ Len(level.sources) \in Nat /\ opt.fanIn \in Nat
      BY Constants, LenProperties DEF Work, WorkTyped, Pass, OptionRecords
    <2>4. DOMAIN level.merged = {1}
      BY <2>2, <2>3, LenProperties
    <2>5. Unconsumed = {}
      <3>1. GroupEnd = Len(level.sources)
        BY <2>1, <2>2, <2>3 DEF GroupEnd, Lower, LastLevel
      <3>. QED
        BY <2>1, <2>3, <3>1 DEF Unconsumed
    <2>6. /\ Lined(level.merged, level.sources, {})
          /\ \A i : Among(i, level.merged, level.sources, {})
                      <=> i \in DOMAIN scan /\ worker[i] = "parsed"
      BY <2>1, <2>5 DEF Merged
    <2>. QED
      BY <2>1, <2>4, <2>6 DEF Lined, Among
  <1>4. CASE PublishCandidate \/ Leave
    <2>1. candidate' = candidate /\ pc \in {"publish", "leave"}
      BY <1>4 DEF PublishCandidate, Leave, Release
    <2>. QED
      BY <2>1 DEF Chosen
  <1>. QED
    BY <1>1, <1>2, <1>3, <1>4

LEMMA InitOrder == Init => Order
  <1> SUFFICES ASSUME Init PROVE Order
    OBVIOUS
  <1>1. Typed
    BY InitIInv DEF IInv
  <1>2. /\ pc = "open" /\ begin = 1 /\ errors = <<>> /\ active = <<>> /\ segments = <<>>
        /\ fatal = FALSE /\ DOMAIN <<>> = {}
        /\ \A i \in DOMAIN scan : ~ (i < 1)
    BY <1>1, Constants DEF Init
  <1>3. JoinedTo = 1 /\ RecordedTo = 1 /\ CommittedTo = 1
    BY <1>2 DEF JoinedTo, RecordedTo, CommittedTo
  <1>4. Settled /\ Diagnosed
    BY <1>2, <1>3, NoneOrdered DEF Settled, Diagnosed
  <1>5. Batched
    BY <1>2, <1>3, NoneOrdered DEF Batched
  <1>. QED
    BY <1>2, <1>4, <1>5 DEF Order, Merged, OneGroup, Chosen, Merging

LEMMA UnchangedOrder ==
  ASSUME Order, UNCHANGED vars
  PROVE  Order'
  <1>1. /\ scan' = scan /\ opt' = opt /\ pc' = pc /\ back' = back /\ begin' = begin
        /\ next' = next /\ worker' = worker /\ fatal' = fatal /\ errors' = errors
        /\ active' = active /\ segments' = segments /\ level' = level
        /\ candidate' = candidate
    BY DEF vars, files, parsing
  <1>2. WaveEnd' = WaveEnd /\ OverWave' = OverWave /\ Taken' = Taken /\ Going' = Going
        /\ Early' = Early /\ Merging' = Merging
    BY <1>1 DEF WaveEnd, OverWave, Taken, Going, Early, Merging
  <1>3. JoinedTo' = JoinedTo /\ RecordedTo' = RecordedTo /\ CommittedTo' = CommittedTo
    BY <1>1, <1>2 DEF JoinedTo, RecordedTo, CommittedTo
  <1>4. Settled' /\ Diagnosed'
    BY <1>1, <1>2, <1>3 DEF Order, Settled, Diagnosed, HasDocument
  <1>5. Batched'
    BY <1>1, <1>2, <1>3 DEF Order, Batched
  <1>6. Merged' /\ OneGroup' /\ Chosen'
    <2>1. Unconsumed' = Unconsumed
      BY <1>1 DEF Unconsumed, GroupEnd
    <2>. QED
      BY <1>1, <1>2, <2>1 DEF Order, Merged, OneGroup, Chosen, LastLevel
  <1>. QED
    BY <1>4, <1>5, <1>6 DEF Order

LEMMA OrderInvariant == Spec => []Order
  <1>1. Init => Order
    BY InitOrder
  <1>2. ASSUME IInv, Work, Order, Next PROVE Order'
    <2>1. Typed /\ Waves /\ Settled /\ Diagnosed /\ Batched /\ Merged /\ OneGroup /\ Chosen
      BY <1>2 DEF IInv, Order
    <2>. QED
      BY <1>2, <2>1, StepSettled, StepDiagnosed, StepBatched, StepMerged, StepOneGroup,
         StepChosen
      DEF Order
  <1>3. IInv /\ Work /\ Order /\ [Next]_vars => Order'
    BY <1>2, UnchangedOrder
  <1>. QED
    BY <1>1, <1>3, Invariant, WorkInvariant, PTL DEF Spec

\* What a build publishes does not show the schedule of its workers, nor how
\* documents were batched, flushed and merged: the candidate holds every file
\* that could be parsed, once and in scan order, and the diagnostics every
\* other one ("thread scheduling does not change the final index bytes").
THEOREM DocumentsInScanOrder == Spec => []InScanOrder
  <1>1. IInv /\ Order => InScanOrder
    <2> SUFFICES ASSUME Typed, Waves, Order, pc = "done"
                 PROVE  /\ Ascending(candidate)
                        /\ ToSet(candidate) = {i \in DOMAIN scan : worker[i] = "parsed"}
                        /\ Ascending(errors)
                        /\ ToSet(errors) = {i \in DOMAIN scan : worker[i] = "failed"}
                        /\ \A i \in DOMAIN scan : worker[i] \in {"parsed", "failed"}
      BY DEF IInv, InScanOrder
    <2>1. Going /\ JoinedTo = Len(scan) + 1 /\ RecordedTo = Len(scan) + 1
      BY DEF Going, JoinedTo, RecordedTo, OverWave
    <2>2. \A i \in DOMAIN scan : i < Len(scan) + 1
      BY Constants
    <2>3. \A i \in DOMAIN scan : worker[i] \in {"parsed", "failed"}
      BY <2>1, <2>2 DEF Order, Settled
    <2>4. /\ Ascending(errors)
          /\ \A i : In(i, errors) <=> i \in DOMAIN scan /\ worker[i] = "failed"
      BY <2>1, <2>2 DEF Order, Diagnosed
    <2>5. /\ Ascending(candidate)
          /\ \A i : In(i, candidate) <=> i \in DOMAIN scan /\ worker[i] = "parsed"
      BY DEF Order, Chosen
    <2>6. \A s, i : i \in ToSet(s) <=> In(i, s)
      BY DEF ToSet, In
    <2>. QED
      BY <2>3, <2>4, <2>5, <2>6
  <1>. QED
    BY <1>1, Invariant, OrderInvariant, PTL
=============================================================================
