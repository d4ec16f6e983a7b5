------------------------------ MODULE SwapShared ------------------------------
(***************************************************************************)
(* The game side of src/python_prototype/phase1_prototype.py:              *)
(*   - the game thread, game_loop() and its swap_shared(), which once per  *)
(*     epoch turns the canary hits into an anomaly score, notifies the     *)
(*     hunter, drives the poison mode and the decoys, and publishes a      *)
(*     fresh canary buffer;                                                *)
(*   - one scrub thread per epoch, scrub_worker(), which overwrites that   *)
(*     buffer when it is still the published one;                          *)
(*   - the telemetry thread, telemetry_worker(), which samples the canary  *)
(*     of the published buffer and records a hit when its value changes.   *)
(*                                                                         *)
(* No reader occurs here: nothing outside the program changes a canary.    *)
(***************************************************************************)
EXTENDS Integers, Sequences

CONSTANTS
    NumEpochs,      \* num_epochs of game_loop()
    ScoreWindow,    \* SCORE_WINDOW
    PoisonHold,     \* POISON_HOLD
    PoisonPercent,  \* POISON_THRESHOLD, 0.15, in percent
    InitialDecoys,  \* INITIAL_DECOY_COUNT
    PoisonDecoys,   \* POISON_DECOY_COUNT
    MeanDeltas      \* values mean_delta() takes, in ms, once two hits are in

ASSUME NumEpochsAssumption == NumEpochs \in Nat \ {0}
ASSUME ScoreWindowAssumption == ScoreWindow \in Nat \ {0}
ASSUME PoisonHoldAssumption == PoisonHold \in Nat \ {0}
ASSUME PoisonPercentAssumption == PoisonPercent \in Nat \ {0}
ASSUME DecoysAssumption == InitialDecoys \in Nat /\ PoisonDecoys \in Nat
ASSUME MeanDeltasAssumption == MeanDeltas \subseteq Nat \ {0} /\ MeanDeltas # {}

VARIABLES
    gamePc,         \* where the game thread is in swap_shared()
    epoch,          \* the epoch being swapped in
    hitsUpTo,       \* state.hits_window as its prefix sums: entry i is the
                    \* number of hits in the epochs up to and including i
    triggered,      \* the last score reached the hunter's trigger_score
    poisonActive, poisonTimer, activations,   \* state.poison_*
    decoys,         \* state.decoy_bufs: the epoch each was built in
    current,        \* state.canary_buf: the epoch it was built in, or None
    canary,         \* the canary cell of every canary buffer
    lock,           \* state.lock: the scrub thread inside it, or None
    scrubPc,        \* where each scrub thread is
    telPc, telBuf,  \* the telemetry thread, and its local buf
    lastVal,        \* its local last_val
    totalHits       \* state.telemetry.total_hits

poisonVars == <<poisonActive, poisonTimer, activations>>
gameVars   == <<gamePc, epoch, hitsUpTo, triggered, poisonVars, decoys>>
bufVars    == <<current, canary, lock, scrubPc>>
telVars    == <<telPc, telBuf, lastVal, totalHits>>
vars       == <<gameVars, bufVars, telVars>>

Epochs == 0..(NumEpochs - 1)

(* The contents of a canary cell: CANARY_MAGIC ^ e is the number e, the    *)
(* random bytes scrub_worker() writes over it are the number Noise(e).     *)
None     == -2
Zero     == -1
Noise(e) == NumEpochs + e
Values   == None..(2 * NumEpochs - 1)

GamePcs  == {"measure", "score", "publish", "done"}
ScrubPcs == {"unborn", "sleeping", "writing", "gone"}
TelPcs   == {"grab", "read", "done"}

TypeOK ==
    /\ gamePc \in GamePcs
    /\ epoch \in 0..NumEpochs
    /\ gamePc \in {"score", "publish"} => epoch \in Epochs
    /\ hitsUpTo \in Seq(Nat)
    /\ triggered \in BOOLEAN
    /\ poisonActive \in BOOLEAN
    /\ poisonTimer \in Nat
    /\ activations \in Nat
    /\ decoys \in Seq(Epochs)
    /\ current \in Epochs \cup {None}
    /\ canary \in [Epochs -> Values]
    /\ lock \in Epochs \cup {None}
    /\ scrubPc \in [Epochs -> ScrubPcs]
    /\ telPc \in TelPcs
    /\ telBuf \in Epochs \cup {None}
    /\ lastVal \in Values
    /\ totalHits \in Nat

Init ==
    /\ gamePc = "measure"
    /\ epoch = 0
    /\ hitsUpTo = <<>>
    /\ triggered = FALSE
    /\ poisonActive = FALSE /\ poisonTimer = 0 /\ activations = 0
    /\ decoys = <<>>
    /\ current = None
    /\ canary = [e \in Epochs |-> None]
    /\ lock = None
    /\ scrubPc = [e \in Epochs |-> "unborn"]
    /\ telPc = "grab" /\ telBuf = None
    /\ lastVal = None
    /\ totalHits = 0

-----------------------------------------------------------------------------
(* sum(hits_window) when n epochs are in the window *)
HitsIn(window, n) == IF n < 1 THEN 0 ELSE window[n]

(* Mutation: the hits of earlier epochs are not subtracted. *)
AppendedAllHits == Append(hitsUpTo, totalHits + HitsIn(hitsUpTo, Len(hitsUpTo)))

(* epoch_hits = max(0, total_hits - sum(hits_window)) is appended *)
Appended ==
    LET before == HitsIn(hitsUpTo, Len(hitsUpTo))
    IN  Append(hitsUpTo, IF totalHits > before THEN totalHits ELSE before)

(* Mutation: one epoch too many. *)
MeasureOneMore ==
    /\ gamePc = "measure" /\ epoch <= NumEpochs
    /\ hitsUpTo' = Appended
    /\ gamePc' = "score"
    /\ UNCHANGED <<epoch, triggered, poisonVars, decoys, bufVars, telVars>>

(* The game thread closes the window of the epoch.  The mean_d it reads    *)
(* first is only logged and sent in the telemetry frame.                   *)
Measure ==
    /\ gamePc = "measure" /\ epoch < NumEpochs
    /\ hitsUpTo' = Appended
    /\ gamePc' = "score"
    /\ UNCHANGED <<epoch, triggered, poisonVars, decoys, bufVars, telVars>>

(* sum(recent) and len(recent) *)
RecentHits ==
    HitsIn(hitsUpTo, Len(hitsUpTo)) - HitsIn(hitsUpTo, Len(hitsUpTo) - ScoreWindow)

RecentLen == IF Len(hitsUpTo) < ScoreWindow THEN Len(hitsUpTo) ELSE ScoreWindow

(* The mean_delta() that compute_anomaly_score() calls itself, after the   *)
(* window was closed: a hit recorded in between reaches the divisor only.  *)
(* max(mean_d, 1.0) is taken at once.                                      *)
MeanDeltaNow == IF totalHits < 2 THEN {1} ELSE MeanDeltas

(* Mutation: the score has to exceed the percentage (> for >=). *)
ScoreAbove(percent, mean) ==
    /\ epoch # 0
    /\ 100 * RecentHits + activations * (RecentLen * mean) > percent * (RecentLen * mean)

(* compute_anomaly_score() >= percent/100, multiplied out *)
ScoreAtLeast(percent, mean) ==
    /\ epoch # 0
    /\ 100 * RecentHits + activations * (RecentLen * mean) >= percent * (RecentLen * mean)

(* HunterConfig.trigger_score, in percent *)
TriggerPercent == 1

(* Mutation: the poison mode ends one epoch late. *)
PoisonLate(reached) ==
    IF reached
    THEN IF poisonActive
         THEN UNCHANGED poisonVars
         ELSE /\ poisonActive' = TRUE
              /\ poisonTimer' = PoisonHold
              /\ activations' = activations + 1
    ELSE /\ poisonTimer' = IF poisonActive THEN poisonTimer - 1 ELSE poisonTimer
         /\ poisonActive' = (poisonActive /\ poisonTimer' >= 0)
         /\ UNCHANGED activations

Poison(reached) ==
    IF reached
    THEN IF poisonActive
         THEN UNCHANGED poisonVars
         ELSE /\ poisonActive' = TRUE
              /\ poisonTimer' = PoisonHold
              /\ activations' = activations + 1
    ELSE /\ poisonTimer' = IF poisonActive THEN poisonTimer - 1 ELSE poisonTimer
         /\ poisonActive' = (poisonActive /\ poisonTimer' > 0)
         /\ UNCHANGED activations

(* refresh_decoys(): the count - 2 oldest stay, the rest is built anew *)
Refreshed(count) ==
    LET keep == SubSeq(decoys, 1, IF Len(decoys) < count - 2 THEN Len(decoys)
                                  ELSE count - 2)
    IN  keep \o [i \in 1..(count - Len(keep)) |-> epoch]

Score ==
    /\ gamePc = "score"
    /\ \E mean \in MeanDeltaNow :
         /\ triggered' = ScoreAtLeast(TriggerPercent, mean)
         /\ Poison(ScoreAtLeast(PoisonPercent, mean))
    /\ decoys' = Refreshed(IF poisonActive' THEN PoisonDecoys ELSE InitialDecoys)
    /\ gamePc' = "publish"
    /\ UNCHANGED <<epoch, hitsUpTo, bufVars, telVars>>

Publish ==
    /\ gamePc = "publish" /\ lock = None
    /\ canary' = [canary EXCEPT ![epoch] = epoch]
    /\ current' = epoch
    /\ scrubPc' = [scrubPc EXCEPT ![epoch] = "sleeping"]
    /\ epoch' = epoch + 1
    /\ gamePc' = "measure"
    /\ UNCHANGED <<hitsUpTo, triggered, poisonVars, decoys, lock, telVars>>

(* the loop ends: state.stop() *)
GameEnd ==
    /\ gamePc = "measure" /\ epoch = NumEpochs
    /\ gamePc' = "done"
    /\ UNCHANGED <<epoch, hitsUpTo, triggered, poisonVars, decoys,
                   bufVars, telVars>>

GameStep == Measure \/ Score \/ Publish \/ GameEnd

-----------------------------------------------------------------------------
(* Mutation: the scrub thread does not ask whose buffer is published. *)
ScrubBeginAnyBuffer(e) ==
    /\ scrubPc[e] = "sleeping" /\ lock = None
    /\ canary' = [canary EXCEPT ![e] = Noise(e)]
    /\ scrubPc' = [scrubPc EXCEPT ![e] = "writing"]
    /\ lock' = e
    /\ UNCHANGED <<current, gameVars, telVars>>

(* The scrub thread of epoch e; it is inside state.lock while it writes *)
ScrubBegin(e) ==
    /\ scrubPc[e] = "sleeping" /\ lock = None /\ current = e
    /\ canary' = [canary EXCEPT ![e] = Noise(e)]
    /\ scrubPc' = [scrubPc EXCEPT ![e] = "writing"]
    /\ lock' = e
    /\ UNCHANGED <<current, gameVars, telVars>>

(* Mutation: the scrub thread may leave the published buffer alone. *)
ScrubSkipAny(e) ==
    /\ scrubPc[e] = "sleeping" /\ lock = None
    /\ scrubPc' = [scrubPc EXCEPT ![e] = "gone"]
    /\ UNCHANGED <<current, canary, lock, gameVars, telVars>>

ScrubSkip(e) ==
    /\ scrubPc[e] = "sleeping" /\ lock = None /\ current # e
    /\ scrubPc' = [scrubPc EXCEPT ![e] = "gone"]
    /\ UNCHANGED <<current, canary, lock, gameVars, telVars>>

ScrubEnd(e) ==
    /\ scrubPc[e] = "writing"
    /\ canary' = [canary EXCEPT ![e] = Zero]
    /\ scrubPc' = [scrubPc EXCEPT ![e] = "gone"]
    /\ lock' = None
    /\ UNCHANGED <<current, gameVars, telVars>>

ScrubStep(e) == ScrubBegin(e) \/ ScrubSkip(e) \/ ScrubEnd(e)

-----------------------------------------------------------------------------
(* The telemetry thread: the buffer is taken under the lock, its canary is *)
(* read after the lock has been released.                                  *)
Stopped == gamePc = "done"

TelemetryGrab ==
    /\ telPc = "grab" /\ lock = None
    /\ telBuf' = current
    /\ telPc' = IF current = None THEN "grab" ELSE "read"
    /\ UNCHANGED <<lastVal, totalHits, gameVars, bufVars>>

(* Mutation: the first sample counts as a hit. *)
TelemetryReadCountsFirst ==
    /\ telPc = "read"
    /\ totalHits' = IF canary[telBuf] # lastVal THEN totalHits + 1 ELSE totalHits
    /\ lastVal' = canary[telBuf]
    /\ telPc' = "grab"
    /\ UNCHANGED <<telBuf, gameVars, bufVars>>

TelemetryRead ==
    /\ telPc = "read"
    /\ totalHits' = IF lastVal # None /\ canary[telBuf] # lastVal
                    THEN totalHits + 1 ELSE totalHits
    /\ lastVal' = canary[telBuf]
    /\ telPc' = "grab"
    /\ UNCHANGED <<telBuf, gameVars, bufVars>>

TelemetryExit ==
    /\ telPc = "grab" /\ Stopped
    /\ telPc' = "done"
    /\ UNCHANGED <<telBuf, lastVal, totalHits, gameVars, bufVars>>

TelemetryStep == TelemetryGrab \/ TelemetryRead \/ TelemetryExit

-----------------------------------------------------------------------------
Next == GameStep \/ TelemetryStep \/ \E e \in Epochs : ScrubStep(e)

Spec == Init /\ [][Next]_vars

-----------------------------------------------------------------------------
(* Correctness properties *)

(* The poison mode and its timer agree: while it is on, the timer has not  *)
(* run out, so the mode ends in the epoch in which it does, never one      *)
(* later; once it is off the timer is at zero, whatever the scores were.   *)
PoisonTimed ==
    IF poisonActive THEN poisonTimer \in 1..PoisonHold ELSE poisonTimer = 0

(* Each activation adds one percent to every later score.  PoisonPercent   *)
(* of them keep the score at the poison threshold by themselves, so the    *)
(* poison mode never ends again.                                           *)
PoisonLocksIn == activations >= PoisonPercent => poisonActive

(* Every hit is attributed to exactly one epoch: when an epoch is added to *)
(* the window, the window sums up to the hits recorded so far.             *)
HitsAttributedOnce ==
    [][hitsUpTo' # hitsUpTo => hitsUpTo'[Len(hitsUpTo')] = totalHits]_vars

(* The telemetry thread, which samples a buffer it may have taken before a *)
(* swap and while a scrub thread is writing it, never records more than    *)
(* three hits per published buffer, and none for its very first sample.    *)
HitsBounded == totalHits > 0 => totalHits < 3 * (current + 1)

(* A superseded buffer is never written again: a scrub thread that comes   *)
(* late leaves it alone.                                                   *)
SupersededFrozen ==
    [][\A e \in Epochs : e < current => canary'[e] = canary[e]]_vars

(* A scrub thread that has gone leaves the canary of its buffer zeroed,    *)
(* unless a later buffer was published before it came to write.            *)
ScrubbedUnlessReplaced ==
    \A e \in Epochs : scrubPc[e] = "gone" => canary[e] = Zero \/ e < current

(* phase1_prototype.py: "No reader running -> hunter stays IDLE for the    *)
(* full run": no score reaches trigger_score here, where there is no       *)
(* reader.                                                                 *)
NoReaderNoTrigger == ~triggered

(* phase1_prototype.py: after the reader has exited the anomaly drops to   *)
(* LOW and the "hunter returns to IDLE after HUNTER_IDLE_AFTER consecutive *)
(* LOW epochs": once no hit is left in the score window, the score does    *)
(* not reach trigger_score.                                                *)
QuietWindowLow == gamePc = "publish" /\ RecentHits = 0 => ~triggered
=============================================================================
