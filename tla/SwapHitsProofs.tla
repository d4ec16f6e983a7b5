---------------------------- MODULE SwapHitsProofs ----------------------------
(***************************************************************************)
(* Proofs about the canary hits, for any number of epochs: the bound on    *)
(* what the telemetry thread can record when no reader is there, and the   *)
(* type invariant of SwapShared, which needs the game thread's progress.   *)
(***************************************************************************)
EXTENDS SwapSharedProofs

(* The game thread swaps in no epoch beyond the last. *)
EpochInv ==
    /\ gamePc \in GamePcs
    /\ epoch \in 0..NumEpochs
    /\ gamePc \in {"score", "publish"} => epoch \in Epochs

LEMMA EpochInvHolds == Spec => []EpochInv
<1> USE NumEpochsAssumption DEF EpochInv, Epochs, GamePcs
<1>1. Init => EpochInv
  BY DEF Init
<1>2. EpochInv /\ [Next]_vars => EpochInv'
  <2> SUFFICES ASSUME EpochInv, [Next]_vars
               PROVE  EpochInv'
    OBVIOUS
  <2>1. CASE GameStep
    BY <2>1 DEF GameStep, Measure, Score, Publish, GameEnd
  <2>2. CASE UNCHANGED <<gamePc, epoch>>
    BY <2>2
  <2>3. ASSUME NEW e \in Epochs, ScrubStep(e)
        PROVE  UNCHANGED <<gamePc, epoch>>
    BY <2>3 DEF ScrubStep, ScrubBegin, ScrubSkip, ScrubEnd, gameVars
  <2>4. CASE TelemetryStep
    BY <2>4 DEF TelemetryStep, TelemetryGrab, TelemetryRead, TelemetryExit, gameVars
  <2> QED
    BY <2>1, <2>2, <2>3, <2>4 DEF Next, vars, gameVars
<1> QED
  BY <1>1, <1>2, PTL DEF Spec

(* The published buffer is that of an epoch. *)
LEMMA CurrentIsAnEpoch ==
    ASSUME EpochInv, BufInv
    PROVE  current \in Epochs \cup {None} /\ (current # None => current = epoch - 1)
BY NumEpochsAssumption DEF EpochInv, BufInv, PublishedIsLast, Epochs

-----------------------------------------------------------------------------
(* The canary hits.  The canary of a buffer goes through three stages, and *)
(* the samples of the telemetry thread never go back, neither to an        *)
(* earlier buffer nor to an earlier stage, so each hit is a step forward.  *)
Stage(e, v) == IF v = e THEN 0 ELSE IF v = Noise(e) THEN 1 ELSE 2

Own(e) == {e, Noise(e), Zero}

CanaryInv ==
    \A e \in Epochs :
       /\ scrubPc[e] = "sleeping" => canary[e] = e
       /\ scrubPc[e] = "writing" => canary[e] = Noise(e)
       /\ e < epoch => canary[e] \in Own(e)

SampleInv ==
    \/ lastVal = None /\ totalHits = 0
    \/ telBuf \in Epochs /\ totalHits < 3 * telBuf
    \/ /\ telBuf \in Epochs /\ lastVal \in Own(telBuf)
       /\ totalHits <= 3 * telBuf + Stage(telBuf, lastVal)
       /\ Stage(telBuf, lastVal) <= Stage(telBuf, canary[telBuf])

HitInv ==
    /\ totalHits \in Nat
    /\ telBuf \in Epochs \cup {None}
    /\ telBuf # None => telBuf < epoch
    /\ telPc = "read" => telBuf # None
    /\ SampleInv

LEMMA Stages ==
    ASSUME NEW e \in Epochs
    PROVE  /\ Stage(e, e) = 0 /\ Stage(e, Noise(e)) = 1 /\ Stage(e, Zero) = 2
           /\ None \notin Own(e)
           /\ e \in Nat
BY NumEpochsAssumption DEF Stage, Noise, Zero, None, Own, Epochs

(* Each canary is written forward only: its own value, noise, zero. *)
LEMMA CanaryAdvances ==
    ASSUME BufInv, CanaryInv, NEW e \in Epochs, ScrubStep(e)
    PROVE  /\ CanaryInv'
           /\ \A f \in Epochs : f < epoch => Stage(f, canary[f]) <= Stage(f, canary'[f])
<1>1. /\ canary \in [Epochs -> Int] /\ scrubPc \in [Epochs -> ScrubPcs]
      /\ epoch' = epoch
  BY DEF BufInv, BufTypes, ScrubStep, ScrubBegin, ScrubSkip, ScrubEnd, gameVars
<1>2. \A f \in Epochs : f # e => canary'[f] = canary[f] /\ scrubPc'[f] = scrubPc[f]
  BY <1>1 DEF ScrubStep, ScrubBegin, ScrubSkip, ScrubEnd
<1>3. \A f \in Epochs : f < epoch => Stage(f, canary[f]) \in {0, 1, 2}
  BY DEF Stage
<1>4. \/ scrubPc'[e] = "writing" /\ canary[e] = e /\ canary'[e] = Noise(e)
      \/ scrubPc'[e] = "gone" /\ canary'[e] = canary[e]
      \/ scrubPc'[e] = "gone" /\ canary[e] = Noise(e) /\ canary'[e] = Zero
  <2>1. CASE ScrubBegin(e)
    BY <1>1, <2>1 DEF ScrubBegin, CanaryInv
  <2>2. CASE ScrubSkip(e)
    BY <1>1, <2>2 DEF ScrubSkip
  <2>3. CASE ScrubEnd(e)
    BY <1>1, <2>3 DEF ScrubEnd, CanaryInv
  <2> QED BY <2>1, <2>2, <2>3 DEF ScrubStep
<1>5. CanaryInv'
  BY <1>1, <1>2, <1>4 DEF CanaryInv, Own, Noise
<1>6. e < epoch => Stage(e, canary[e]) <= Stage(e, canary'[e])
  BY <1>3, <1>4, Stages
<1> QED BY <1>2, <1>3, <1>5, <1>6

LEMMA CanaryKept == BufInv /\ CanaryInv /\ [Next]_vars => CanaryInv'
<1> SUFFICES ASSUME BufInv, CanaryInv, [Next]_vars PROVE CanaryInv'
  OBVIOUS
<1>1. CASE Publish
  <2>1. /\ canary \in [Epochs -> Int] /\ scrubPc \in [Epochs -> ScrubPcs]
        /\ epoch \in Nat /\ epoch' = epoch + 1
        /\ canary' = [canary EXCEPT ![epoch] = epoch]
        /\ scrubPc' = [scrubPc EXCEPT ![epoch] = "sleeping"]
    BY <1>1 DEF Publish, BufInv, BufTypes
  <2>2. \A e \in Epochs : e # epoch => canary'[e] = canary[e] /\ scrubPc'[e] = scrubPc[e]
    BY <2>1
  <2>3. \A e \in Epochs : e = epoch => canary'[e] = e /\ scrubPc'[e] = "sleeping"
    BY <2>1
  <2>4. \A e \in Epochs : e < epoch' => e = epoch \/ e < epoch
    BY <2>1, EpochsAreNumbers
  <2> QED BY <2>2, <2>3, <2>4 DEF CanaryInv, Own, Noise
<1>2. CASE UNCHANGED <<epoch, current, canary, lock, scrubPc>>
  BY <1>2 DEF CanaryInv, Own, Noise
<1> QED BY <1>1, <1>2, CanaryAdvances, BuffersMove

(* Only the telemetry thread samples. *)
LEMMA SamplesMove ==
    ASSUME [Next]_vars
    PROVE  TelemetryGrab \/ TelemetryRead \/ TelemetryExit \/ UNCHANGED telVars
<1>1. CASE GameStep
  BY <1>1 DEF GameStep, Measure, Score, Publish, GameEnd
<1>2. ASSUME NEW e \in Epochs, ScrubStep(e)
      PROVE  UNCHANGED telVars
  BY <1>2 DEF ScrubStep, ScrubBegin, ScrubSkip, ScrubEnd
<1> QED BY <1>1, <1>2 DEF Next, TelemetryStep, vars

(* Taking the published buffer: hits of an earlier one leave room for its  *)
(* first sample to be a hit.                                               *)
LEMMA GrabKeepsHitInv ==
    ASSUME EpochInv, BufInv, HitInv, TelemetryGrab
    PROVE  HitInv'
<1> USE EpochsAreNumbers
<1>1. /\ telBuf' = current /\ UNCHANGED <<epoch, canary, lastVal, totalHits>>
      /\ telPc' = "read" => current # None
  BY DEF TelemetryGrab, gameVars, bufVars
<1>2. /\ totalHits \in Nat /\ telBuf \in Epochs \cup {None} /\ epoch \in Nat
      /\ telBuf # None => telBuf < epoch
  BY DEF HitInv, BufInv, BufTypes
<1>3. CASE current = telBuf
  BY <1>1, <1>3 DEF HitInv, SampleInv, Stage, Own, Noise
<1>4. CASE current # telBuf
  <2>1. current \in Epochs /\ current = epoch - 1
    BY <1>2, <1>4, CurrentIsAnEpoch DEF BufInv, PublishedIsLast, None
  <2>2. (lastVal = None /\ totalHits = 0) \/ totalHits < 3 * current
    <3>1. CASE telBuf \notin Epochs
      BY <3>1 DEF HitInv, SampleInv
    <3>2. CASE telBuf \in Epochs
      <4>1. Stage(telBuf, lastVal) \in 0..2
        BY DEF Stage
      <4>2. (lastVal = None /\ totalHits = 0) \/ totalHits <= 3 * telBuf + 2
        BY <1>2, <3>2, <4>1 DEF HitInv, SampleInv
      <4>3. telBuf < current
        BY <1>2, <1>4, <2>1, <3>2
      <4> QED
        BY <1>2, <2>1, <3>2, <4>2, <4>3
    <3> QED
      BY <3>1, <3>2
  <2> QED
    BY <1>1, <1>2, <2>1, <2>2 DEF HitInv, SampleInv
<1> QED
  BY <1>3, <1>4

(* A sample that differs from the one before it is a later stage, or the   *)
(* first of a later buffer.                                                *)
LEMMA ReadKeepsHitInv ==
    ASSUME BufInv, CanaryInv, HitInv, TelemetryRead
    PROVE  HitInv'
<1> USE EpochsAreNumbers
<1>1. /\ telPc = "read" /\ telPc' = "grab" /\ UNCHANGED <<telBuf, epoch, canary>>
      /\ lastVal' = canary[telBuf]
      /\ totalHits' = IF lastVal # None /\ canary[telBuf] # lastVal
                      THEN totalHits + 1 ELSE totalHits
  BY DEF TelemetryRead, gameVars, bufVars
<1>2. telBuf \in Epochs /\ telBuf < epoch /\ totalHits \in Nat /\ telBuf \in Nat
  BY <1>1 DEF HitInv
<1>3. canary[telBuf] \in Own(telBuf)
  BY <1>2 DEF CanaryInv
<1>4. Stage(telBuf, canary[telBuf]) \in 0..2
  BY DEF Stage
<1>5. totalHits' \in Nat /\ totalHits' <= 3 * telBuf + Stage(telBuf, canary[telBuf])
  <2>1. CASE lastVal = None /\ totalHits = 0
    BY <1>1, <1>2, <1>4, <2>1
  <2>2. CASE totalHits < 3 * telBuf
    BY <1>1, <1>2, <1>4, <2>2
  <2>3. CASE /\ lastVal \in Own(telBuf)
             /\ totalHits <= 3 * telBuf + Stage(telBuf, lastVal)
             /\ Stage(telBuf, lastVal) <= Stage(telBuf, canary[telBuf])
    <3>1. Stage(telBuf, lastVal) \in 0..2
      BY DEF Stage
    <3>2. CASE canary[telBuf] = lastVal
      BY <1>1, <1>2, <2>3, <3>2
    <3>3. CASE canary[telBuf] # lastVal
      <4>1. Stage(telBuf, lastVal) < Stage(telBuf, canary[telBuf])
        BY <1>2, <1>3, <2>3, <3>3, Stages DEF Own
      <4> QED
        BY <1>1, <1>2, <1>4, <2>3, <3>1, <4>1
    <3> QED
      BY <3>2, <3>3
  <2> QED
    BY <1>2, <2>1, <2>2, <2>3 DEF HitInv, SampleInv
<1>6. SampleInv'
  BY <1>1, <1>2, <1>3, <1>4, <1>5 DEF SampleInv, Stage, Own, Noise
<1> QED
  BY <1>1, <1>2, <1>5, <1>6 DEF HitInv

(* The other threads move the canaries forward under the telemetry thread. *)
LEMMA OthersKeepHitInv ==
    ASSUME BufInv, CanaryInv, HitInv, [Next]_vars, UNCHANGED telVars
    PROVE  HitInv'
<1> USE EpochsAreNumbers
<1>1. UNCHANGED <<telPc, telBuf, lastVal, totalHits>>
  BY DEF telVars
<1>2. epoch \in Nat /\ epoch' \in {epoch, epoch + 1}
  <2>1. epoch \in Nat
    BY DEF BufInv, BufTypes
  <2>2. ASSUME NEW e \in Epochs, ScrubStep(e)
        PROVE  epoch' = epoch
    BY <2>2 DEF ScrubStep, ScrubBegin, ScrubSkip, ScrubEnd, gameVars
  <2>3. Publish => epoch' = epoch + 1
    BY DEF Publish
  <2> QED
    BY <2>1, <2>2, <2>3, BuffersMove
<1>3. ASSUME telBuf \in Epochs
      PROVE  Stage(telBuf, canary[telBuf]) <= Stage(telBuf, canary'[telBuf])
  <2>1. telBuf < epoch
    BY <1>3 DEF HitInv
  <2>2. CASE Publish
    <3>1. canary'[telBuf] = canary[telBuf]
      BY <1>2, <1>3, <2>1, <2>2 DEF Publish, BufInv, BufTypes
    <3> QED
      BY <3>1 DEF Stage
  <2>3. ASSUME NEW e \in Epochs, ScrubStep(e)
        PROVE  Stage(telBuf, canary[telBuf]) <= Stage(telBuf, canary'[telBuf])
    BY <1>3, <2>1, <2>3, CanaryAdvances
  <2>4. CASE UNCHANGED canary
    BY <2>4 DEF Stage
  <2> QED
    BY <2>2, <2>3, <2>4, BuffersMove
<1>4. SampleInv'
  <2>1. CASE lastVal = None /\ totalHits = 0
    BY <1>1, <2>1 DEF SampleInv
  <2>2. CASE telBuf \in Epochs /\ totalHits < 3 * telBuf
    BY <1>1, <2>2 DEF SampleInv
  <2>3. CASE /\ telBuf \in Epochs /\ lastVal \in Own(telBuf)
             /\ totalHits <= 3 * telBuf + Stage(telBuf, lastVal)
             /\ Stage(telBuf, lastVal) <= Stage(telBuf, canary[telBuf])
    <3>1. /\ Stage(telBuf, lastVal) \in 0..2 /\ Stage(telBuf, canary[telBuf]) \in 0..2
          /\ Stage(telBuf, canary'[telBuf]) \in 0..2
      BY DEF Stage
    <3>2. Stage(telBuf, lastVal) <= Stage(telBuf, canary'[telBuf])
      BY <1>3, <2>3, <3>1
    <3>3. /\ Stage(telBuf, lastVal)' = Stage(telBuf, lastVal)
          /\ Stage(telBuf, canary[telBuf])' = Stage(telBuf, canary'[telBuf])
          /\ Own(telBuf)' = Own(telBuf)
      BY <1>1 DEF Stage, Own, Noise
    <3> QED
      BY <1>1, <2>3, <3>2, <3>3 DEF SampleInv
  <2> QED
    BY <2>1, <2>2, <2>3 DEF HitInv, SampleInv
<1> QED
  BY <1>1, <1>2, <1>4 DEF HitInv

LEMMA HitInvHolds == Spec => [](CanaryInv /\ HitInv)
<1>1. Init => CanaryInv /\ HitInv
  BY EpochsAreNumbers DEF Init, CanaryInv, HitInv, SampleInv
<1>2. EpochInv /\ BufInv /\ CanaryInv /\ HitInv /\ [Next]_vars => CanaryInv' /\ HitInv'
  <2> SUFFICES ASSUME EpochInv, BufInv, CanaryInv, HitInv, [Next]_vars
               PROVE  CanaryInv' /\ HitInv'
    OBVIOUS
  <2>1. CanaryInv'
    BY CanaryKept
  <2>2. CASE TelemetryExit
    <3>1. /\ UNCHANGED <<telBuf, lastVal, totalHits, canary, epoch>>
          /\ telPc' # "read"
      BY <2>2 DEF TelemetryExit, gameVars, bufVars
    <3>2. SampleInv'
      BY <3>1 DEF HitInv, SampleInv, Stage, Own, Noise
    <3> QED
      BY <2>1, <3>1, <3>2 DEF HitInv
  <2> QED
    BY <2>1, <2>2, GrabKeepsHitInv, ReadKeepsHitInv, OthersKeepHitInv, SamplesMove
<1> QED
  BY <1>1, <1>2, EpochInvHolds, BufInvHolds, PTL DEF Spec

-----------------------------------------------------------------------------
(* Without a reader the telemetry thread records at most three hits per    *)
(* published buffer, whenever it samples and whenever a swap or a scrub    *)
(* thread comes in between, and none before its second sample.             *)
THEOREM HitsAlwaysBounded == Spec => []HitsBounded
<1>1. EpochInv /\ BufInv /\ HitInv => HitsBounded
  <2> SUFFICES ASSUME EpochInv, BufInv, HitInv, totalHits > 0
               PROVE  totalHits < 3 * (current + 1)
    BY DEF HitsBounded
  <2> USE EpochsAreNumbers
  <2>1. telBuf \in Epochs /\ telBuf < epoch /\ epoch \in Nat /\ totalHits \in Nat
    BY DEF HitInv, SampleInv, BufInv, BufTypes
  <2>2. current = epoch - 1
    BY <2>1 DEF BufInv, PublishedIsLast
  <2>3. Stage(telBuf, lastVal) \in 0..2
    BY DEF Stage
  <2>4. totalHits <= 3 * telBuf + 2
    BY <2>1, <2>3 DEF HitInv, SampleInv
  <2> QED
    BY <2>1, <2>2, <2>4
<1> QED
  BY <1>1, EpochInvHolds, BufInvHolds, HitInvHolds, PTL

-----------------------------------------------------------------------------
(* What is left of the type invariant. *)
CellTypes ==
    /\ canary \in [Epochs -> Values]
    /\ lock \in Epochs \cup {None}
    /\ telPc \in TelPcs
    /\ lastVal \in Values

LEMMA CellTypesHold == Spec => []CellTypes
<1> USE NumEpochsAssumption
<1>1. /\ None \in Values /\ Zero \in Values
      /\ \A e \in Epochs : e \in Values /\ Noise(e) \in Values
  BY DEF Values, Epochs, None, Zero, Noise
<1>2. Init => CellTypes
  BY <1>1 DEF Init, CellTypes, TelPcs
<1>3. EpochInv /\ HitInv /\ CellTypes /\ [Next]_vars => CellTypes'
  <2> SUFFICES ASSUME EpochInv, HitInv, CellTypes, [Next]_vars
               PROVE  CellTypes'
    OBVIOUS
  <2>1. CASE UNCHANGED <<canary, lock, telPc, lastVal>>
    BY <2>1 DEF CellTypes
  <2>2. CASE Publish
    <3>1. epoch \in Epochs /\ epoch \in Values
      BY <1>1, <2>2 DEF Publish, EpochInv
    <3> QED
      BY <2>2, <3>1 DEF Publish, CellTypes, telVars
  <2>3. ASSUME NEW e \in Epochs, ScrubStep(e)
        PROVE  CellTypes'
    BY <1>1, <2>3 DEF ScrubStep, ScrubBegin, ScrubSkip, ScrubEnd, CellTypes, telVars
  <2>4. CASE TelemetryStep
    <3>1. UNCHANGED <<canary, lock>>
      BY <2>4 DEF TelemetryStep, TelemetryGrab, TelemetryRead, TelemetryExit, bufVars
    <3>2. telPc' \in TelPcs
      BY <2>4 DEF TelemetryStep, TelemetryGrab, TelemetryRead, TelemetryExit, TelPcs
    <3>3. lastVal' \in Values
      BY <2>4 DEF TelemetryStep, TelemetryGrab, TelemetryRead, TelemetryExit,
         CellTypes, HitInv
    <3> QED
      BY <3>1, <3>2, <3>3 DEF CellTypes
  <2>5. CASE Measure \/ Score \/ GameEnd
    BY <2>1, <2>5 DEF Measure, Score, GameEnd, bufVars, telVars
  <2> QED
    BY <2>1, <2>2, <2>3, <2>4, <2>5 DEF Next, GameStep, vars, bufVars, telVars
<1> QED
  BY <1>2, <1>3, EpochInvHolds, HitInvHolds, PTL DEF Spec

(* refresh_decoys() keeps decoys of earlier epochs and adds the current's. *)
LEMMA RefreshedDecoys ==
    ASSUME decoys \in Seq(Epochs), epoch \in Epochs, NEW count \in Nat
    PROVE  Refreshed(count) \in Seq(Epochs)
<1> DEFINE n == IF Len(decoys) < count - 2 THEN Len(decoys) ELSE count - 2
           keep == SubSeq(decoys, 1, n)
           built == [i \in 1..(count - Len(keep)) |-> epoch]
<1>1. n \in Int /\ n <= Len(decoys) /\ n <= count
  OBVIOUS
<1> HIDE DEF n
<1>2. keep \in Seq(Epochs) /\ Len(keep) <= count
  <2>1. \A i \in 1..n : decoys[i] \in Epochs
    BY <1>1
  <2> QED
    BY <1>1, <2>1, SubSeqProperties
<1> HIDE DEF keep
<1>3. built \in Seq(Epochs)
  BY <1>2
<1> QED
  BY <1>2, <1>3, ConcatProperties DEF Refreshed, n, keep

ModeTypes ==
    /\ triggered \in BOOLEAN
    /\ poisonTimer \in Nat
    /\ decoys \in Seq(Epochs)

LEMMA ModeTypesHold == Spec => []ModeTypes
<1>1. Init => ModeTypes
  <2> SUFFICES ASSUME Init
               PROVE  ModeTypes
    OBVIOUS
  <2>1. triggered \in BOOLEAN
    BY DEF Init
  <2>2. poisonTimer \in Nat /\ decoys = <<>>
    BY DEF Init
  <2> QED
    BY <2>1, <2>2 DEF ModeTypes
<1>2. EpochInv /\ ScoreInv /\ PoisonTimed /\ ModeTypes /\ [Next]_vars => ModeTypes'
  <2> SUFFICES ASSUME EpochInv, ScoreInv, PoisonTimed, ModeTypes, [Next]_vars
               PROVE  ModeTypes'
    OBVIOUS
  <2>1. CASE UNCHANGED <<triggered, poisonTimer, decoys>>
    BY <2>1 DEF ModeTypes
  <2>2. CASE Score
    <3>1. triggered' \in BOOLEAN
      BY <2>2, ScorePoisons DEF ScoreAtLeast
    <3>2. poisonTimer' \in Nat
      <4>1. PICK mean \in MeanDeltaNow : Poison(ScoreAtLeast(PoisonPercent, mean))
        BY <2>2, ScorePoisons
      <4>2. poisonTimer' \in {poisonTimer, PoisonHold}
              \/ (poisonActive /\ poisonTimer' = poisonTimer - 1)
        BY <4>1 DEF Poison, poisonVars
      <4> QED
        BY <4>2, PoisonHoldAssumption DEF PoisonTimed, ModeTypes
    <3>3. decoys' \in Seq(Epochs)
      <4>1. PICK count \in {PoisonDecoys, InitialDecoys} : decoys' = Refreshed(count)
        BY <2>2 DEF Score
      <4>2. epoch \in Epochs /\ count \in Nat
        BY <2>2, DecoysAssumption DEF Score, EpochInv
      <4> QED
        BY <4>1, <4>2, RefreshedDecoys DEF ModeTypes
    <3> QED
      BY <3>1, <3>2, <3>3 DEF ModeTypes
  <2>3. CASE Measure \/ Publish \/ GameEnd
    BY <2>1, <2>3 DEF Measure, Publish, GameEnd, poisonVars
  <2>4. ASSUME NEW e \in Epochs, ScrubStep(e)
        PROVE  ModeTypes'
    BY <2>1, <2>4 DEF ScrubStep, ScrubBegin, ScrubSkip, ScrubEnd, gameVars, poisonVars
  <2>5. CASE TelemetryStep
    BY <2>1, <2>5 DEF TelemetryStep, TelemetryGrab, TelemetryRead, TelemetryExit,
       gameVars, poisonVars
  <2> QED
    BY <2>1, <2>2, <2>3, <2>4, <2>5 DEF Next, GameStep, vars, gameVars, poisonVars
<1> QED
  BY <1>1, <1>2, EpochInvHolds, ScoreInvHolds, PoisonAlwaysTimed, PTL DEF Spec

(* SwapShared keeps its types: in particular poison_timer never becomes    *)
(* negative, and the telemetry thread only ever reads a published buffer.  *)
THEOREM TypeCorrect == Spec => []TypeOK
<1>1. EpochInv /\ ScoreInv /\ BufInv /\ HitInv /\ CellTypes /\ ModeTypes => TypeOK
  BY CurrentIsAnEpoch DEF EpochInv, ScoreInv, ScoreTypes, BufInv, BufTypes, HitInv,
     CellTypes, ModeTypes, TypeOK
<1> QED
  BY <1>1, EpochInvHolds, ScoreInvHolds, BufInvHolds, HitInvHolds, CellTypesHold,
     ModeTypesHold, PTL
=============================================================================
