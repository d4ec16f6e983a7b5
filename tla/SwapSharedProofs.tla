--------------------------- MODULE SwapSharedProofs ---------------------------
(***************************************************************************)
(* Proofs about the anomaly score and the poison mode, for any length of   *)
(* the run, of the score window and of the poison hold, and any poison     *)
(* threshold: the feedback of the poison activations into the score.       *)
(***************************************************************************)
EXTENDS SwapShared, SequenceTheorems, TLAPS

ScoreTypes ==
    /\ epoch \in Nat
    /\ hitsUpTo \in Seq(Nat)
    /\ totalHits \in Nat
    /\ poisonActive \in BOOLEAN
    /\ poisonTimer \in Int
    /\ activations \in Nat

Rising(window) ==
    \A i, j \in 1..Len(window) : i <= j => window[i] <= window[j]

(* The prefix sums rise and have not overtaken total_hits; an activation   *)
(* has happened in some epoch after the first.                             *)
ScoreInv ==
    /\ ScoreTypes
    /\ Rising(hitsUpTo)
    /\ HitsIn(hitsUpTo, Len(hitsUpTo)) <= totalHits
    /\ activations > 0 => epoch > 0

-----------------------------------------------------------------------------
(* Appending an epoch leaves prefix sums that rise up to total_hits. *)
LEMMA AppendedRises ==
    ASSUME ScoreInv
    PROVE  /\ Appended = Append(hitsUpTo, totalHits)
           /\ Appended \in Seq(Nat)
           /\ Len(Appended) = Len(hitsUpTo) + 1
           /\ Rising(Appended)
           /\ HitsIn(Appended, Len(Appended)) = totalHits
<1> USE DEF ScoreInv, ScoreTypes
<1>1. Len(hitsUpTo) \in Nat
  OBVIOUS
<1>2. HitsIn(hitsUpTo, Len(hitsUpTo)) \in Nat
  BY <1>1 DEF HitsIn
<1>3. Appended = Append(hitsUpTo, totalHits)
  BY <1>2 DEF Appended
<1>4. Appended \in Seq(Nat) /\ Len(Appended) = Len(hitsUpTo) + 1
  BY <1>3
<1>5. \A i \in 1..Len(hitsUpTo) : Appended[i] = hitsUpTo[i] /\ hitsUpTo[i] <= totalHits
  <2> TAKE i \in 1..Len(hitsUpTo)
  <2>1. Appended[i] = hitsUpTo[i]
    BY <1>3
  <2>2. hitsUpTo[i] <= hitsUpTo[Len(hitsUpTo)]
    BY <1>1 DEF Rising
  <2>3. hitsUpTo[Len(hitsUpTo)] <= totalHits
    BY <1>1 DEF HitsIn
  <2>4. hitsUpTo[i] \in Nat /\ hitsUpTo[Len(hitsUpTo)] \in Nat
    BY <1>1
  <2> QED
    BY <2>1, <2>2, <2>3, <2>4
<1>6. Appended[Len(hitsUpTo) + 1] = totalHits
  BY <1>3
<1>7. Rising(Appended)
  <2> SUFFICES ASSUME NEW i \in 1..Len(Appended), NEW j \in 1..Len(Appended), i <= j
               PROVE  Appended[i] <= Appended[j]
    BY DEF Rising
  <2>1. CASE j = Len(hitsUpTo) + 1
    BY <2>1, <1>1, <1>4, <1>5, <1>6
  <2>2. CASE j # Len(hitsUpTo) + 1
    <3>1. i \in 1..Len(hitsUpTo) /\ j \in 1..Len(hitsUpTo)
      BY <2>2, <1>1, <1>4
    <3> QED
      BY <3>1, <1>5 DEF Rising
  <2> QED
    BY <2>1, <2>2
<1>8. HitsIn(Appended, Len(Appended)) = totalHits
  BY <1>1, <1>4, <1>6 DEF HitsIn
<1> QED
  BY <1>3, <1>4, <1>7, <1>8

(* No score is negative: sum(recent) and len(recent) are natural numbers. *)
LEMMA RecentNatural ==
    ASSUME ScoreInv
    PROVE  RecentHits \in Nat /\ RecentLen \in Nat
<1> USE ScoreWindowAssumption
<1>1. hitsUpTo \in Seq(Nat) /\ Rising(hitsUpTo) /\ Len(hitsUpTo) \in Nat
  BY DEF ScoreInv, ScoreTypes
<1>2. RecentLen \in Nat
  BY <1>1 DEF RecentLen
<1>3. CASE Len(hitsUpTo) < 1
  BY <1>1, <1>2, <1>3 DEF RecentHits, HitsIn
<1>4. CASE ~(Len(hitsUpTo) < 1)
  <2>1. hitsUpTo[Len(hitsUpTo)] \in Nat
    BY <1>1, <1>4
  <2>2. HitsIn(hitsUpTo, Len(hitsUpTo)) = hitsUpTo[Len(hitsUpTo)]
    BY <1>4 DEF HitsIn
  <2>3. HitsIn(hitsUpTo, Len(hitsUpTo) - ScoreWindow) \in 0..hitsUpTo[Len(hitsUpTo)]
    <3>1. CASE Len(hitsUpTo) - ScoreWindow < 1
      BY <3>1, <2>1 DEF HitsIn
    <3>2. CASE ~(Len(hitsUpTo) - ScoreWindow < 1)
      <4>1. Len(hitsUpTo) - ScoreWindow \in 1..Len(hitsUpTo)
        BY <3>2, <1>1
      <4>2. hitsUpTo[Len(hitsUpTo) - ScoreWindow] \in Nat
        BY <4>1, <1>1
      <4>3. hitsUpTo[Len(hitsUpTo) - ScoreWindow] <= hitsUpTo[Len(hitsUpTo)]
        BY <4>1, <1>1, <1>4 DEF Rising
      <4> QED
        BY <3>2, <4>2, <4>3, <2>1 DEF HitsIn
    <3> QED
      BY <3>1, <3>2
  <2> QED
    BY <1>2, <2>1, <2>2, <2>3 DEF RecentHits
<1> QED
  BY <1>3, <1>4

(* A mean_delta is a positive number: max(mean_d, 1.0). *)
LEMMA MeansPositive ==
    ASSUME NEW mean \in MeanDeltaNow
    PROVE  mean \in Nat \ {0}
BY MeanDeltasAssumption DEF MeanDeltaNow

LEMMA ProductRises ==
    ASSUME NEW a \in Nat, NEW p \in Nat, NEW s \in Nat, a >= p
    PROVE  a * s \in Nat /\ p * s \in Nat /\ a * s >= p * s
<1>1. PICK d \in Nat : a = p + d
  <2>1. a - p \in Nat /\ a = p + (a - p)
    OBVIOUS
  <2> QED
    BY <2>1
<1>2. (p + d) * s = p * s + d * s
  OBVIOUS
<1>3. p * s \in Nat /\ d * s \in Nat /\ a * s \in Nat
  OBVIOUS
<1> QED
  BY <1>1, <1>2, <1>3

(* As many activations as the percentage of a threshold keep the score at  *)
(* that threshold, whatever the hits.                                      *)
LEMMA ActivationsCarry ==
    ASSUME ScoreInv, NEW p \in Nat, NEW mean \in MeanDeltaNow,
           activations >= p, activations > 0
    PROVE  ScoreAtLeast(p, mean)
<1> DEFINE scale == RecentLen * mean
<1>1. RecentHits \in Nat /\ RecentLen \in Nat /\ mean \in Nat
  BY RecentNatural, MeansPositive
<1>2. activations \in Nat /\ epoch \in Nat /\ epoch > 0
  BY DEF ScoreInv, ScoreTypes
<1>3. scale \in Nat
  BY <1>1
<1> HIDE DEF scale
<1>4. activations * scale \in Nat /\ p * scale \in Nat /\ activations * scale >= p * scale
  BY <1>2, <1>3, ProductRises
<1>5. 100 * RecentHits \in Nat
  BY <1>1
<1>6. 100 * RecentHits + activations * scale >= p * scale
  BY <1>4, <1>5
<1> QED
  BY <1>2, <1>6 DEF ScoreAtLeast, scale

(* What a score does to the poison mode, whatever mean_delta() was. *)
LEMMA ScorePoisons ==
    ASSUME Score
    PROVE  \E mean \in MeanDeltaNow :
             /\ triggered' = ScoreAtLeast(TriggerPercent, mean)
             /\ Poison(ScoreAtLeast(PoisonPercent, mean))
BY DEF Score

-----------------------------------------------------------------------------
LEMMA ScoreInvHolds == Spec => []ScoreInv
<1>1. Init => ScoreInv
  <2> SUFFICES ASSUME Init
               PROVE  ScoreInv
    OBVIOUS
  <2>1. ScoreTypes
    <3>1. epoch = 0 /\ totalHits = 0 /\ poisonTimer = 0 /\ activations = 0
      BY DEF Init
    <3>2. hitsUpTo \in Seq(Nat)
      BY DEF Init
    <3>3. poisonActive \in BOOLEAN
      BY DEF Init
    <3>4. epoch \in Nat /\ totalHits \in Nat
            /\ poisonTimer \in Int /\ activations \in Nat
      BY <3>1
    <3> QED
      BY <3>2, <3>3, <3>4 DEF ScoreTypes
  <2>2. Len(hitsUpTo) = 0
    BY DEF Init
  <2>3. Rising(hitsUpTo) /\ HitsIn(hitsUpTo, Len(hitsUpTo)) = 0
    BY <2>2 DEF Rising, HitsIn
  <2>4. totalHits = 0 /\ activations = 0
    BY DEF Init
  <2> QED
    BY <2>1, <2>3, <2>4 DEF ScoreInv
<1>2. ScoreInv /\ [Next]_vars => ScoreInv'
  <2> SUFFICES ASSUME ScoreInv, [Next]_vars
               PROVE  ScoreInv'
    OBVIOUS
  <2>1. CASE Measure
    <3>1. hitsUpTo' = Appended
            /\ UNCHANGED <<epoch, totalHits, poisonActive, poisonTimer, activations>>
      BY <2>1 DEF Measure, telVars, poisonVars
    <3>2. hitsUpTo' \in Seq(Nat) /\ Rising(hitsUpTo)'
            /\ (HitsIn(hitsUpTo, Len(hitsUpTo)) <= totalHits)'
      BY <3>1, AppendedRises DEF Rising, HitsIn, ScoreInv, ScoreTypes
    <3> QED
      BY <3>1, <3>2 DEF ScoreInv, ScoreTypes
  <2>2. CASE Score
    <3>1. UNCHANGED <<epoch, hitsUpTo, totalHits>>
      BY <2>2 DEF Score, telVars
    <3>2. hitsUpTo' \in Seq(Nat) /\ Rising(hitsUpTo)'
            /\ (HitsIn(hitsUpTo, Len(hitsUpTo)) <= totalHits)'
      BY <3>1 DEF Rising, HitsIn, ScoreInv, ScoreTypes
    <3>3. PICK mean \in MeanDeltaNow : Poison(ScoreAtLeast(PoisonPercent, mean))
      BY <2>2, ScorePoisons
    <3>4. poisonActive' \in BOOLEAN
      <4>1. poisonActive' \in {poisonActive, TRUE, poisonActive /\ poisonTimer' > 0}
        BY <3>3 DEF Poison, poisonVars
      <4> QED
        BY <4>1 DEF ScoreInv, ScoreTypes
    <3>5. poisonTimer' \in Int /\ activations' \in Nat
      BY <3>3, PoisonHoldAssumption DEF Poison, poisonVars, ScoreInv, ScoreTypes
    <3>6. activations' > 0 => epoch > 0
      BY <3>3 DEF Poison, poisonVars, ScoreAtLeast, ScoreInv, ScoreTypes
    <3> QED
      BY <3>1, <3>2, <3>4, <3>6, <3>5 DEF ScoreInv, ScoreTypes
  <2>3. CASE Publish
    BY <2>3 DEF Publish, ScoreInv, ScoreTypes, Rising, HitsIn, telVars, poisonVars
  <2>4. CASE GameEnd
    BY <2>4 DEF GameEnd, ScoreInv, ScoreTypes, Rising, HitsIn, telVars, poisonVars
  <2>5. ASSUME NEW e \in Epochs, ScrubStep(e)
        PROVE  ScoreInv'
    BY <2>5 DEF ScrubStep, ScrubBegin, ScrubSkip, ScrubEnd, ScoreInv, ScoreTypes,
       Rising, HitsIn, gameVars, telVars, poisonVars
  <2>6. CASE TelemetryStep
    <3>1. totalHits' \in Nat /\ totalHits' >= totalHits
      BY <2>6 DEF TelemetryStep, TelemetryGrab, TelemetryRead, TelemetryExit,
         ScoreInv, ScoreTypes
    <3>2. UNCHANGED gameVars
      BY <2>6 DEF TelemetryStep, TelemetryGrab, TelemetryRead, TelemetryExit
    <3>3. HitsIn(hitsUpTo, Len(hitsUpTo)) \in Nat
      BY DEF HitsIn, ScoreInv, ScoreTypes
    <3>4. UNCHANGED <<epoch, hitsUpTo, poisonActive, poisonTimer, activations>>
      BY <3>2 DEF gameVars, poisonVars
    <3>5. (HitsIn(hitsUpTo, Len(hitsUpTo)) <= totalHits)'
      BY <3>1, <3>3, <3>4 DEF ScoreInv, ScoreTypes, HitsIn
    <3> QED
      BY <3>1, <3>4, <3>5 DEF ScoreInv, ScoreTypes, Rising
  <2>7. CASE UNCHANGED vars
    BY <2>7 DEF vars, gameVars, telVars, poisonVars, ScoreInv, ScoreTypes, Rising, HitsIn
  <2> QED
    BY <2>1, <2>2, <2>3, <2>4, <2>5, <2>6, <2>7 DEF Next, GameStep
<1> QED
  BY <1>1, <1>2, PTL DEF Spec

(* Only Score moves the poison mode. *)
LEMMA PoisonMoves ==
    ASSUME [Next]_vars
    PROVE  Score \/ UNCHANGED poisonVars
<1> USE DEF gameVars
<1>1. CASE GameStep
  BY <1>1 DEF GameStep, Measure, Publish, GameEnd
<1>2. ASSUME NEW e \in Epochs, ScrubStep(e)
      PROVE  UNCHANGED poisonVars
  BY <1>2 DEF ScrubStep, ScrubBegin, ScrubSkip, ScrubEnd
<1>3. CASE TelemetryStep
  BY <1>3 DEF TelemetryStep, TelemetryGrab, TelemetryRead, TelemetryExit
<1>4. CASE UNCHANGED vars
  BY <1>4 DEF vars
<1> QED
  BY <1>1, <1>2, <1>3, <1>4 DEF Next

-----------------------------------------------------------------------------
(* The timer of the poison mode never runs past its end. *)
THEOREM PoisonAlwaysTimed == Spec => []PoisonTimed
<1>1. Init => PoisonTimed
  BY DEF Init, PoisonTimed
<1>2. ScoreInv /\ PoisonTimed /\ [Next]_vars => PoisonTimed'
  <2> SUFFICES ASSUME ScoreInv, PoisonTimed, [Next]_vars
               PROVE  PoisonTimed'
    OBVIOUS
  <2>1. CASE Score
    <3>1. PICK mean \in MeanDeltaNow : Poison(ScoreAtLeast(PoisonPercent, mean))
      BY <2>1, ScorePoisons
    <3>2. CASE poisonTimer' = PoisonHold /\ poisonActive' = TRUE
      BY <3>2, PoisonHoldAssumption DEF PoisonTimed
    <3>3. CASE UNCHANGED poisonVars
      BY <3>3 DEF poisonVars, PoisonTimed
    <3>4. CASE /\ poisonTimer' = IF poisonActive THEN poisonTimer - 1 ELSE poisonTimer
               /\ poisonActive' = (poisonActive /\ poisonTimer' > 0)
      <4>1. CASE ~poisonActive
        BY <3>4, <4>1 DEF PoisonTimed
      <4>2. CASE poisonActive
        <5>1. poisonTimer \in 1..PoisonHold /\ poisonTimer' = poisonTimer - 1
          BY <3>4, <4>2 DEF PoisonTimed
        <5>2. CASE poisonTimer' > 0
          <6>1. poisonTimer' \in 1..PoisonHold
            BY <5>1, <5>2, PoisonHoldAssumption
          <6>2. poisonActive'
            BY <3>4, <4>2, <5>2
          <6> QED
            BY <6>1, <6>2 DEF PoisonTimed
        <5>3. CASE ~(poisonTimer' > 0)
          <6>1. poisonTimer' = 0
            BY <5>1, <5>3, PoisonHoldAssumption
          <6>2. ~poisonActive'
            BY <3>4, <5>3
          <6> QED
            BY <6>1, <6>2 DEF PoisonTimed
        <5> QED
          BY <5>2, <5>3
      <4> QED
        BY <4>1, <4>2
    <3> QED
      BY <3>1, <3>2, <3>3, <3>4 DEF Poison
  <2>2. CASE UNCHANGED poisonVars
    BY <2>2 DEF poisonVars, PoisonTimed
  <2> QED
    BY <2>1, <2>2, PoisonMoves
<1> QED
  BY <1>1, <1>2, ScoreInvHolds, PTL DEF Spec

(* PoisonPercent activations lock the poison mode in: the score cannot     *)
(* fall below the threshold any more.                                      *)
THEOREM PoisonAlwaysLocksIn == Spec => []PoisonLocksIn
<1>1. Init => PoisonLocksIn
  BY PoisonPercentAssumption DEF Init, PoisonLocksIn
<1>2. ScoreInv /\ PoisonLocksIn /\ [Next]_vars => PoisonLocksIn'
  <2> SUFFICES ASSUME ScoreInv, PoisonLocksIn, [Next]_vars
               PROVE  PoisonLocksIn'
    OBVIOUS
  <2> USE PoisonPercentAssumption
  <2>1. CASE Score
    <3>1. PICK mean \in MeanDeltaNow : Poison(ScoreAtLeast(PoisonPercent, mean))
      BY <2>1, ScorePoisons
    <3>2. CASE activations >= PoisonPercent
      <4>1. ScoreAtLeast(PoisonPercent, mean)
        BY <3>2, ActivationsCarry DEF ScoreInv, ScoreTypes
      <4> QED
        BY <3>1, <3>2, <4>1 DEF Poison, poisonVars, PoisonLocksIn
    <3>3. CASE ~(activations >= PoisonPercent)
      <4>1. CASE activations' = activations
        BY <3>3, <4>1 DEF PoisonLocksIn
      <4>2. CASE activations' # activations
        BY <3>1, <4>2 DEF Poison, poisonVars, PoisonLocksIn
      <4> QED
        BY <4>1, <4>2
    <3> QED
      BY <3>2, <3>3
  <2>2. CASE UNCHANGED poisonVars
    BY <2>2 DEF poisonVars, PoisonLocksIn
  <2> QED
    BY <2>1, <2>2, PoisonMoves
<1> QED
  BY <1>1, <1>2, ScoreInvHolds, PTL DEF Spec

(* Once the poison mode has been activated every later score reaches the   *)
(* hunter's trigger_score, with or without canary hits.                    *)
PoisonKeepsTrigger ==
    [][gamePc = "score" /\ gamePc' = "publish" /\ activations > 0
          => triggered']_vars

(* Why the hunter does not come back to IDLE: one poison activation is     *)
(* enough to keep it triggered for good, for every window, hold, poison    *)
(* threshold and mean delta.                                               *)
THEOREM PoisonAlwaysKeepsTrigger == Spec => PoisonKeepsTrigger
<1>1. ScoreInv /\ [Next]_vars =>
        [gamePc = "score" /\ gamePc' = "publish" /\ activations > 0 => triggered']_vars
  <2> SUFFICES ASSUME ScoreInv, Next, gamePc = "score", gamePc' = "publish",
                      activations > 0
               PROVE  triggered'
    OBVIOUS
  <2>1. Score
    <3>1. CASE GameStep
      BY <3>1 DEF GameStep, Measure, Publish, GameEnd
    <3>2. ASSUME NEW e \in Epochs, ScrubStep(e)
          PROVE  FALSE
      BY <3>2 DEF ScrubStep, ScrubBegin, ScrubSkip, ScrubEnd, gameVars
    <3>3. CASE TelemetryStep
      BY <3>3 DEF TelemetryStep, TelemetryGrab, TelemetryRead, TelemetryExit, gameVars
    <3> QED
      BY <3>1, <3>2, <3>3 DEF Next
  <2>2. PICK mean \in MeanDeltaNow : triggered' = ScoreAtLeast(TriggerPercent, mean)
    BY <2>1, ScorePoisons
  <2>3. activations >= TriggerPercent /\ TriggerPercent \in Nat
    BY DEF TriggerPercent, ScoreInv, ScoreTypes
  <2> QED
    BY <2>2, <2>3, ActivationsCarry
<1> QED
  BY <1>1, ScoreInvHolds, PTL DEF Spec, PoisonKeepsTrigger

(* Every hit recorded so far has been attributed to an epoch, and to one   *)
(* only, when an epoch is added to the window.                             *)
THEOREM HitsAlwaysAttributedOnce == Spec => HitsAttributedOnce
<1>1. ScoreInv /\ [Next]_vars =>
        [hitsUpTo' # hitsUpTo => hitsUpTo'[Len(hitsUpTo')] = totalHits]_vars
  <2> SUFFICES ASSUME ScoreInv, Next, hitsUpTo' # hitsUpTo
               PROVE  hitsUpTo'[Len(hitsUpTo')] = totalHits
    OBVIOUS
  <2>1. Measure
    <3>1. CASE GameStep
      BY <3>1 DEF GameStep, Score, Publish, GameEnd
    <3>2. ASSUME NEW e \in Epochs, ScrubStep(e)
          PROVE  FALSE
      BY <3>2 DEF ScrubStep, ScrubBegin, ScrubSkip, ScrubEnd, gameVars
    <3>3. CASE TelemetryStep
      BY <3>3 DEF TelemetryStep, TelemetryGrab, TelemetryRead, TelemetryExit, gameVars
    <3> QED
      BY <3>1, <3>2, <3>3 DEF Next
  <2>2. hitsUpTo' = Appended
    BY <2>1 DEF Measure
  <2>3. hitsUpTo \in Seq(Nat) /\ Appended = Append(hitsUpTo, totalHits)
    BY AppendedRises DEF ScoreInv, ScoreTypes
  <2> QED
    BY <2>2, <2>3
<1> QED
  BY <1>1, ScoreInvHolds, PTL DEF Spec, HitsAttributedOnce

-----------------------------------------------------------------------------
(* The buffers.  The published one is that of the last epoch; a scrub      *)
(* thread that writes holds the lock, so nothing is published meanwhile    *)
(* and its buffer stays the published one.                                 *)
BufTypes ==
    /\ epoch \in Nat
    /\ canary \in [Epochs -> Int]
    /\ scrubPc \in [Epochs -> ScrubPcs]

PublishedIsLast == current = IF epoch = 0 THEN None ELSE epoch - 1

ScrubsAreBorn == \A e \in Epochs : scrubPc[e] # "unborn" => e < epoch

WriterHoldsLock ==
    \A e \in Epochs : scrubPc[e] = "writing" => lock = e /\ current = e

BufInv ==
    /\ BufTypes
    /\ PublishedIsLast
    /\ ScrubsAreBorn
    /\ WriterHoldsLock
    /\ ScrubbedUnlessReplaced

LEMMA EpochsAreNumbers == Epochs \subseteq Nat /\ None \notin Epochs
BY NumEpochsAssumption DEF Epochs, None

(* Publishing waits for the lock, so no scrub thread is writing then. *)
LEMMA PublishKeepsBufInv ==
    ASSUME BufInv, Publish
    PROVE  BufInv'
<1> USE EpochsAreNumbers DEF BufInv, BufTypes, Publish
<1>1. epoch' = epoch + 1 /\ current' = epoch /\ lock' = lock /\ lock = None
  OBVIOUS
<1>2. \A e \in Epochs : scrubPc[e] # "writing"
  BY <1>1 DEF WriterHoldsLock
<1>3. \A e \in Epochs : scrubPc'[e] = IF e = epoch THEN "sleeping" ELSE scrubPc[e]
  OBVIOUS
<1>4. BufTypes'
  <2>1. canary' \in [Epochs -> Int]
    <3>1. canary \in [Epochs -> Int] /\ epoch \in Int
      OBVIOUS
    <3>2. canary' = [canary EXCEPT ![epoch] = epoch]
      OBVIOUS
    <3> HIDE DEF BufInv, BufTypes, Publish
    <3> QED
      BY ONLY <3>1, <3>2
  <2>2. scrubPc' \in [Epochs -> ScrubPcs]
    <3>1. scrubPc \in [Epochs -> ScrubPcs]
      OBVIOUS
    <3>2. scrubPc' = [scrubPc EXCEPT ![epoch] = "sleeping"]
      OBVIOUS
    <3>3. "sleeping" \in ScrubPcs
      BY DEF ScrubPcs
    <3> HIDE DEF BufInv, BufTypes, Publish
    <3> QED
      BY <3>1, <3>2, <3>3
  <2> QED
    BY <1>1, <2>1, <2>2
<1>5. PublishedIsLast'
  BY <1>1 DEF PublishedIsLast, None
<1>6. ScrubsAreBorn'
  BY <1>1, <1>3 DEF ScrubsAreBorn
<1>7. WriterHoldsLock'
  BY <1>2, <1>3 DEF WriterHoldsLock
<1>8. ScrubbedUnlessReplaced'
  <2> SUFFICES ASSUME NEW e \in Epochs, scrubPc'[e] = "gone"
               PROVE  e < epoch
    BY <1>1 DEF ScrubbedUnlessReplaced
  <2>1. scrubPc[e] = "gone"
    BY <1>3
  <2> QED
    BY <2>1 DEF ScrubsAreBorn
<1> QED
  BY <1>4, <1>5, <1>6, <1>7, <1>8

LEMMA ScrubKeepsBufInv ==
    ASSUME BufInv, NEW e \in Epochs, ScrubStep(e)
    PROVE  BufInv'
<1> USE EpochsAreNumbers DEF BufInv, BufTypes
<1>1. epoch' = epoch /\ current' = current
  BY DEF ScrubStep, ScrubBegin, ScrubSkip, ScrubEnd, gameVars
<1>2. /\ scrubPc[e] # "unborn"
      /\ scrubPc' \in [Epochs -> ScrubPcs]
      /\ \A f \in Epochs : f # e => scrubPc'[f] = scrubPc[f]
  BY DEF ScrubStep, ScrubBegin, ScrubSkip, ScrubEnd, ScrubPcs
<1>3. e < epoch /\ (e # current => e < current)
  <2>1. e < epoch
    BY <1>2 DEF ScrubsAreBorn
  <2> QED
    BY <2>1 DEF PublishedIsLast, None
<1>4. canary' \in [Epochs -> Int] /\ \A f \in Epochs : f # e => canary'[f] = canary[f]
  <2>1. Noise(e) \in Int /\ Zero \in Int
    BY NumEpochsAssumption DEF Noise, Zero
  <2> QED
    BY <2>1 DEF ScrubStep, ScrubBegin, ScrubSkip, ScrubEnd
<1>5. PublishedIsLast'
  BY <1>1 DEF PublishedIsLast
<1>6. ScrubsAreBorn'
  BY <1>1, <1>2, <1>3 DEF ScrubsAreBorn
<1>7. WriterHoldsLock'
  <2>1. CASE ScrubBegin(e)
    <3>1. lock = None /\ lock' = e /\ current = e
      BY <2>1 DEF ScrubBegin
    <3>2. \A f \in Epochs : scrubPc[f] # "writing"
      BY <3>1 DEF WriterHoldsLock
    <3> QED
      BY <1>1, <1>2, <3>1, <3>2 DEF WriterHoldsLock
  <2>2. CASE ScrubSkip(e)
    <3>1. lock' = lock /\ scrubPc'[e] = "gone"
      BY <2>2 DEF ScrubSkip
    <3> QED
      BY <1>1, <1>2, <3>1 DEF WriterHoldsLock
  <2>3. CASE ScrubEnd(e)
    <3>1. scrubPc[e] = "writing" /\ scrubPc'[e] = "gone"
      BY <2>3 DEF ScrubEnd
    <3>2. \A f \in Epochs : f # e => scrubPc[f] # "writing"
      BY <3>1 DEF WriterHoldsLock
    <3> QED
      BY <1>2, <3>1, <3>2 DEF WriterHoldsLock
  <2> QED
    BY <2>1, <2>2, <2>3 DEF ScrubStep
<1>8. ScrubbedUnlessReplaced'
  <2> SUFFICES ASSUME NEW f \in Epochs, scrubPc'[f] = "gone"
               PROVE  canary'[f] = Zero \/ f < current
    BY <1>1 DEF ScrubbedUnlessReplaced
  <2>1. CASE f # e
    BY <2>1, <1>2, <1>4 DEF ScrubbedUnlessReplaced
  <2>2. CASE f = e
    <3>1. CASE ScrubBegin(e)
      BY <2>2, <3>1 DEF ScrubBegin
    <3>2. CASE ScrubSkip(e)
      BY <2>2, <3>2, <1>3 DEF ScrubSkip
    <3>3. CASE ScrubEnd(e)
      BY <2>2, <3>3 DEF ScrubEnd
    <3> QED
      BY <3>1, <3>2, <3>3 DEF ScrubStep
  <2> QED
    BY <2>1, <2>2
<1> QED
  BY <1>1, <1>2, <1>4, <1>5, <1>6, <1>7, <1>8

(* The other steps leave the epoch and the buffers alone. *)
LEMMA BuffersMove ==
    ASSUME [Next]_vars
    PROVE  \/ Publish
           \/ \E e \in Epochs : ScrubStep(e)
           \/ UNCHANGED <<epoch, current, canary, lock, scrubPc>>
<1>1. CASE GameStep
  BY <1>1 DEF GameStep, Measure, Score, GameEnd, bufVars
<1>2. CASE TelemetryStep
  BY <1>2 DEF TelemetryStep, TelemetryGrab, TelemetryRead, TelemetryExit, gameVars, bufVars
<1>3. CASE UNCHANGED vars
  BY <1>3 DEF vars, gameVars, bufVars
<1> QED
  BY <1>1, <1>2, <1>3 DEF Next

LEMMA BufInvHolds == Spec => []BufInv
<1>1. Init => BufInv
  <2> SUFFICES ASSUME Init
               PROVE  BufInv
    OBVIOUS
  <2>1. epoch = 0 /\ current = None /\ \A e \in Epochs : scrubPc[e] = "unborn"
    BY DEF Init
  <2>2. BufTypes
    BY DEF Init, BufTypes, ScrubPcs, None
  <2> QED
    BY <2>1, <2>2 DEF BufInv, PublishedIsLast, ScrubsAreBorn, WriterHoldsLock,
       ScrubbedUnlessReplaced
<1>2. BufInv /\ [Next]_vars => BufInv'
  <2> SUFFICES ASSUME BufInv, [Next]_vars
               PROVE  BufInv'
    OBVIOUS
  <2>1. CASE UNCHANGED <<epoch, current, canary, lock, scrubPc>>
    BY <2>1 DEF BufInv, BufTypes, PublishedIsLast, ScrubsAreBorn, WriterHoldsLock,
       ScrubbedUnlessReplaced
  <2> QED
    BY <2>1, PublishKeepsBufInv, ScrubKeepsBufInv, BuffersMove
<1> QED
  BY <1>1, <1>2, PTL DEF Spec

(* However late a scrub thread comes, it leaves its buffer zeroed or a     *)
(* later one is published.                                                 *)
THEOREM AlwaysScrubbedUnlessReplaced == Spec => []ScrubbedUnlessReplaced
<1>1. BufInv => ScrubbedUnlessReplaced
  BY DEF BufInv
<1> QED
  BY <1>1, BufInvHolds, PTL

(* No step of any thread writes a superseded buffer. *)
THEOREM SupersededStaysFrozen == Spec => SupersededFrozen
<1>1. BufInv /\ [Next]_vars =>
        [\A e \in Epochs : e < current => canary'[e] = canary[e]]_vars
  <2> SUFFICES ASSUME BufInv, Next, NEW e \in Epochs, e < current
               PROVE  canary'[e] = canary[e]
    OBVIOUS
  <2> USE EpochsAreNumbers DEF BufInv, BufTypes
  <2>1. CASE Publish
    <3>1. e # epoch
      BY DEF PublishedIsLast, None
    <3> QED
      BY <2>1, <3>1 DEF Publish
  <2>2. ASSUME NEW f \in Epochs, ScrubStep(f)
        PROVE  canary'[e] = canary[e]
    <3>1. CASE e # f
      BY <2>2, <3>1 DEF ScrubStep, ScrubBegin, ScrubSkip, ScrubEnd
    <3>2. CASE e = f
      <4>1. current # f
        BY <3>2 DEF PublishedIsLast, None
      <4>2. scrubPc[f] # "writing"
        BY <4>1 DEF WriterHoldsLock
      <4> QED
        BY <2>2, <4>1, <4>2 DEF ScrubStep, ScrubBegin, ScrubSkip, ScrubEnd
    <3> QED
      BY <3>1, <3>2
  <2> QED
    BY <2>1, <2>2, BuffersMove
<1> QED
  BY <1>1, BufInvHolds, PTL DEF Spec, SupersededFrozen
=============================================================================
