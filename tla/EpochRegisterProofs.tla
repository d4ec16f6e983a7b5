------------------------- MODULE EpochRegisterProofs -------------------------
(***************************************************************************)
(* What holds of EpochRegister for every number of buffers, threshold,     *)
(* hold and size of the ring: the ring of decoys, the poison episodes, the *)
(* scrub signals, and the types.  All the arithmetic of ring and episodes  *)
(* is in one action of the main thread, Update, and in Signal; the other   *)
(* threads only leave it alone, which the frame lemmas say.                *)
(***************************************************************************)
EXTENDS EpochRegister, TLAPS

(* The part of the state that the ring and the poison mode live in *)
RingInv ==
    /\ published \in Nat
    /\ decoys \in {BaseDecoys, MaxDecoys} /\ decoyIdx \in Nat
    /\ poisonUntil \in Int /\ activations \in Nat /\ activatedAt \in Int

(* The episode of the last activation lasts until Hold epochs after it at  *)
(* least: every later suspicious epoch can only push its end further.      *)
EpisodeInv ==
    /\ activatedAt + Hold <= poisonUntil
    /\ activatedAt <= Epoch

ringVars == <<published, poisonVars>>

-----------------------------------------------------------------------------
(* Only two actions of the main thread touch the ring; Publish moves on to *)
(* the next buffer.                                                        *)
LEMMA OthersLeaveRing ==
    ASSUME ScrubStep \/ TelemetryStep \/ ObserverLoop \/ ObserverFlip
             \/ Construct \/ Attributes \/ StopGame \/ StopScrub
             \/ UNCHANGED vars
    PROVE  UNCHANGED ringVars
<1>1. CASE ScrubStep
  BY <1>1 DEF ScrubStep, ScrubLoop, ScrubWait, ScrubClear, ScrubAwake,
              ScrubGrabbed, ScrubActive, ScrubMoves, ringVars, poisonVars
<1>2. CASE TelemetryStep
  BY <1>2 DEF TelemetryStep, TelemetryLoop, TelemetryRead, TelemetryDie,
              TelemetryCompare, TelMoves, ringVars, poisonVars
<1>3. CASE ObserverLoop \/ ObserverFlip
  BY <1>3 DEF ObserverLoop, ObserverFlip, ringVars, poisonVars
<1>4. CASE Construct \/ Attributes \/ StopGame \/ StopScrub
  BY <1>4 DEF Construct, Attributes, StopGame, StopScrub, ringVars, poisonVars
<1>5. CASE UNCHANGED vars
  BY <1>5 DEF vars, ringVars, poisonVars
<1> QED BY <1>1, <1>2, <1>3, <1>4, <1>5

(* x % n stays below n *)
LEMMA ModBelow ==
    ASSUME NEW x \in Nat, NEW n \in Nat \ {0}
    PROVE  x % n \in Nat /\ x % n < n
OBVIOUS

LEMMA EpochNatural == ASSUME published \in Nat PROVE Epoch \in Nat
BY DEF Epoch

-----------------------------------------------------------------------------
(* _ensure_decoy_capacity() leaves a ring of one of the two sizes with the *)
(* index inside it.                                                        *)
LEMMA EnsureCapacityInRange ==
    ASSUME RingInv, NEW target \in {BaseDecoys, MaxDecoys},
           EnsureCapacity(target)
    PROVE  /\ decoys' \in {BaseDecoys, MaxDecoys} /\ decoyIdx' \in Nat
           /\ decoyIdx' < decoys'
<1>1. target \in Nat \ {0}
  BY NumbersAssumption
<1>2. decoyIdx \in Nat
  BY DEF RingInv
<1>3. decoyIdx % target \in Nat /\ decoyIdx % target < target
  BY <1>1, <1>2, ModBelow
<1> QED BY <1>3 DEF EnsureCapacity

THEOREM RingKept == Spec => [](RingInv /\ DecoyIndexInRange)
<1> DEFINE I == RingInv /\ DecoyIndexInRange
<1>1. Init => I
  BY NumbersAssumption DEF Init, RingInv, DecoyIndexInRange
<1>2. I /\ [Next]_vars => I'
  <2> SUFFICES ASSUME RingInv, DecoyIndexInRange, [Next]_vars
               PROVE  I'
    OBVIOUS
  <2>1. CASE Update
    <3>1. CASE HasPoison
      <4>1. PICK suspicious \in BOOLEAN :
               /\ activations' = Counted(suspicious)
               /\ activatedAt' = IF activations' = activations THEN activatedAt ELSE Epoch
               /\ poisonUntil' = IF suspicious THEN Epoch + Hold ELSE poisonUntil
               /\ EnsureCapacity(IF Epoch <= poisonUntil' THEN MaxDecoys ELSE BaseDecoys)
        BY <2>1, <3>1 DEF Update, UpdatePoison
      <4>2. /\ decoys' \in {BaseDecoys, MaxDecoys} /\ decoyIdx' \in Nat
            /\ decoyIdx' < decoys'
        BY <4>1, EnsureCapacityInRange
      <4>3. published' = published
        BY <2>1 DEF Update
      <4>4. poisonUntil' \in Int
        BY <4>1, EpochNatural, NumbersAssumption DEF RingInv
      <4>5. activations' \in Nat
        BY <4>1 DEF Counted, RingInv
      <4>6. activatedAt' \in Int
        BY <4>1, EpochNatural DEF RingInv
      <4> QED BY <4>2, <4>3, <4>4, <4>5, <4>6 DEF RingInv, DecoyIndexInRange
    <3>2. CASE ~HasPoison
      BY <2>1, <3>2 DEF Update, poisonVars, RingInv, DecoyIndexInRange
    <3> QED BY <3>1, <3>2
  <2>2. CASE Publish
    BY <2>2 DEF Publish, poisonVars, RingInv, DecoyIndexInRange
  <2>3. CASE Signal
    <3>1. decoys \in Nat \ {0}
      BY NumbersAssumption DEF RingInv
    <3>2. decoyIdx + 1 \in Nat
      BY DEF RingInv
    <3>3. (decoyIdx + 1) % decoys \in Nat /\ (decoyIdx + 1) % decoys < decoys
      BY <3>1, <3>2, ModBelow
    <3>4. decoyIdx' \in Nat /\ decoyIdx' < decoys
      BY <2>3, <3>3 DEF Signal, RingInv, DecoyIndexInRange
    <3> QED BY <2>3, <3>4 DEF Signal, RingInv, DecoyIndexInRange
  <2>4. CASE UNCHANGED ringVars
    BY <2>4 DEF ringVars, poisonVars, RingInv, DecoyIndexInRange
  <2> QED
    BY <2>1, <2>2, <2>3, <2>4, OthersLeaveRing DEF Next, GameStep
<1> QED BY <1>1, <1>2, PTL DEF Spec

(* swap_shared() never indexes past the ring of decoys, whatever sizes the *)
(* ring has and whenever the poison mode begins and ends.                  *)
THEOREM DecoyIndexAlwaysInRange == Spec => []DecoyIndexInRange
BY RingKept, PTL

-----------------------------------------------------------------------------
(* What is Hold after an epoch is no earlier than Hold after an earlier one. *)
LEMMA AheadStillAhead ==
    ASSUME NEW a \in Int, NEW e \in Nat, NEW h \in Nat, a <= e
    PROVE  a + h <= e + h
OBVIOUS

LEMMA EpisodeKeptByUpdate ==
    ASSUME RingInv, EpisodeInv, Update
    PROVE  EpisodeInv'
<1>1. published' = published /\ Epoch' = Epoch
  BY DEF Update, Epoch
<1>2. CASE ~HasPoison
  BY <1>1, <1>2 DEF Update, poisonVars, EpisodeInv
<1>3. CASE HasPoison
  <2>1. PICK suspicious \in BOOLEAN :
           /\ activations' = Counted(suspicious)
           /\ activatedAt' = IF activations' = activations THEN activatedAt ELSE Epoch
           /\ poisonUntil' = IF suspicious THEN Epoch + Hold ELSE poisonUntil
    BY <1>3 DEF Update, UpdatePoison
  <2>2. Epoch \in Nat /\ Hold \in Nat /\ activatedAt \in Int /\ poisonUntil \in Int
    BY EpochNatural, NumbersAssumption DEF RingInv
  <2>3. activatedAt' \in Int /\ activatedAt' <= Epoch
    BY <2>1, <2>2 DEF EpisodeInv
  <2>4. CASE ~suspicious
    <3>1. activations' = activations
      BY <2>1, <2>4 DEF Counted
    <3> QED BY <1>1, <2>1, <2>4, <3>1 DEF EpisodeInv
  <2>5. CASE suspicious
    <3>1. poisonUntil' = Epoch + Hold
      BY <2>1, <2>5
    <3>2. activatedAt' + Hold <= Epoch + Hold
      BY <2>2, <2>3, AheadStillAhead
    <3> QED BY <1>1, <2>3, <3>1, <3>2 DEF EpisodeInv
  <2> QED BY <2>4, <2>5
<1> QED BY <1>2, <1>3

LEMMA EpisodeKept == Spec => []EpisodeInv
<1>1. Init => EpisodeInv
  BY NumbersAssumption DEF Init, EpisodeInv, Epoch
<1>2. RingInv /\ EpisodeInv /\ [Next]_vars => EpisodeInv'
  <2> SUFFICES ASSUME RingInv, EpisodeInv, [Next]_vars
               PROVE  EpisodeInv'
    OBVIOUS
  <2>1. CASE Update
    BY <2>1, EpisodeKeptByUpdate
  <2>2. CASE Publish
    <3>1. published' = published + 1 /\ UNCHANGED <<poisonUntil, activatedAt>>
      BY <2>2 DEF Publish, poisonVars
    <3>2. Epoch <= Epoch' /\ Epoch \in Nat /\ Epoch' \in Nat
      BY <3>1 DEF Epoch, RingInv
    <3>3. activatedAt' <= Epoch'
      BY <3>1, <3>2 DEF EpisodeInv, RingInv
    <3> QED BY <3>1, <3>3 DEF EpisodeInv
  <2>3. CASE Signal
    BY <2>3 DEF Signal, EpisodeInv, Epoch
  <2>4. CASE UNCHANGED ringVars
    BY <2>4 DEF ringVars, poisonVars, EpisodeInv, Epoch
  <2> QED
    BY <2>1, <2>2, <2>3, <2>4, OthersLeaveRing DEF Next, GameStep
<1> QED BY <1>1, <1>2, RingKept, PTL DEF Spec

(* Only _update_poison_state() counts activations. *)
LEMMA ActivationsMove ==
    ASSUME [Next]_vars, activations' # activations
    PROVE  Update
<1>1. CASE GameStep
  BY <1>1 DEF GameStep, Construct, Attributes, Publish, Signal, StopGame, StopScrub,
     poisonVars
<1>2. CASE ~GameStep
  BY <1>2, OthersLeaveRing DEF Next, ringVars, poisonVars
<1> QED BY <1>1, <1>2

(* Any two activations of the poison mode are more than POISON_HOLD_EPOCHS *)
(* apart, for every hold, every threshold and every pattern of hits: the   *)
(* episode of the first must have ended before the second is counted.      *)
THEOREM ActivationsAlwaysSpaced == Spec => ActivationsSpaced
<1>1. RingInv /\ EpisodeInv /\ [Next]_vars =>
        [activations' # activations => Epoch - activatedAt > Hold]_vars
  <2> SUFFICES ASSUME RingInv, EpisodeInv, [Next]_vars, activations' # activations
               PROVE  Epoch - activatedAt > Hold
    OBVIOUS
  <2>1. PICK suspicious \in BOOLEAN : activations' = Counted(suspicious)
    BY ActivationsMove DEF Update, UpdatePoison, poisonVars
  <2>2. Epoch > poisonUntil
    BY <2>1 DEF Counted
  <2>3. Epoch \in Nat /\ Hold \in Nat /\ activatedAt \in Int /\ poisonUntil \in Int
    BY EpochNatural, NumbersAssumption DEF RingInv
  <2> QED BY <2>2, <2>3 DEF EpisodeInv
<1> QED BY <1>1, RingKept, EpisodeKept, PTL DEF Spec, ActivationsSpaced

------------------------------------------------------------------
(* A scrub is on its way: the event is set, or the scrub thread is between *)
(* its wait() and its write, with a buffer in hand that is still the       *)
(* active one.                                                             *)
ScrubUnderWay ==
    \/ scrubEvent \/ scrubPc \in {"clear", "sleep"}
    \/ scrubPc = "write" /\ (version >= 6 \/ grabbed = published)

(* No signal is lost: as long as the active buffer, once its countdown has *)
(* been started, is not scrubbed, a scrub is under way.                    *)
NoScrubLost ==
    published > 0 /\ gamePc \in {"update", "publish"} /\ ~scrubbed => ScrubUnderWay

StartInv ==
    /\ version \in Versions
    /\ published \in Nat
    /\ gamePc \in {"construct", "attributes"} => published = 0
    /\ stopEvent => gamePc \in {"stopping", "done"}
    /\ gamePc = "construct" => scrubPc = "unborn"

ScrubInv == StartInv /\ NoScrubLost

LEMMA ScrubInvKept == ScrubInv /\ [Next]_vars => ScrubInv'
<1> SUFFICES ASSUME ScrubInv, [Next]_vars PROVE ScrubInv'
  OBVIOUS
<1> USE VersionsAssumption DEF ScrubInv, StartInv, NoScrubLost, ScrubUnderWay
<1>1. CASE GameStep
  BY <1>1 DEF GameStep, Construct, Attributes, Update, Publish, Signal, StopGame,
     StopScrub, GameMoves, scrubVars
<1>2. CASE ScrubStep
  <2>1. version \in 5..7
    OBVIOUS
  <2>2. CASE ScrubLoop \/ ScrubAwake
    BY <2>2 DEF ScrubLoop, ScrubAwake, ScrubMoves
  <2>3. CASE ScrubWait \/ ScrubClear
    BY <2>3 DEF ScrubWait, ScrubClear, ScrubMoves
  <2>4. CASE ScrubGrabbed \/ ScrubActive
    <3>1. StartInv'
      BY <2>4 DEF ScrubGrabbed, ScrubActive, ScrubMoves
    <3>2. CASE ScrubGrabbed
      <4>1. ~(version >= 6)
        BY <3>2 DEF ScrubGrabbed
      <4>2. /\ scrubPc = "write" /\ scrubPc' = "top"
            /\ UNCHANGED <<version, gamePc, published, scrubEvent>>
            /\ scrubbed' <=> scrubbed \/ grabbed = published
        BY <3>2 DEF ScrubGrabbed, ScrubMoves
      <4>3. NoScrubLost'
        BY Zenon, <4>1, <4>2
      <4> QED BY <3>1, <4>3
    <3>3. CASE ScrubActive
      <4>1. NoScrubLost'
        BY <3>3 DEF ScrubActive, ScrubMoves
      <4> QED BY <3>1, <4>1
    <3> QED BY <2>4, <3>2, <3>3
  <2> QED
    BY <1>2, <2>2, <2>3, <2>4 DEF ScrubStep
<1>3. CASE TelemetryStep \/ ObserverLoop \/ ObserverFlip \/ UNCHANGED vars
  <2>1. UNCHANGED <<version, gamePc, published, scrubbed, scrubEvent, stopEvent, scrubVars>>
    BY <1>3 DEF TelemetryStep, TelemetryLoop, TelemetryRead, TelemetryDie,
       TelemetryCompare, TelMoves, ObserverLoop, ObserverFlip, vars
  <2> QED BY <2>1 DEF scrubVars
<1> QED BY <1>1, <1>2, <1>3 DEF Next

(* Every scrub signal is served, in every phase and at any speed of the    *)
(* scrub thread: the safety behind BufferScrubbed.                         *)
THEOREM NoScrubEverLost == Spec => []NoScrubLost
<1>1. Init => ScrubInv
  BY DEF Init, ScrubInv, StartInv, NoScrubLost
<1>2. ScrubInv => NoScrubLost
  BY DEF ScrubInv
<1> QED BY <1>1, <1>2, ScrubInvKept, PTL DEF Spec

-----------------------------------------------------------------------------
(* The type invariant *)
PlainTypes ==
    /\ gamePc \in {"construct", "attributes", "update", "publish", "signal",
                   "stopping", "done"}
    /\ scrubbed \in BOOLEAN /\ scrubEvent \in BOOLEAN /\ stopEvent \in BOOLEAN
    /\ scrubPc \in ThreadPcs \cup {"wait", "clear", "sleep", "write"}
    /\ telPc \in ThreadPcs \cup {"read", "compare"}
    /\ observerPc \in ThreadPcs \cup {"flip"}

CanaryTypes == canary \in Canaries /\ sample \in Canaries /\ lastCanary \in Canaries

CountTypes == published \in 0..MaxBuffers /\ grabbed \in 0..MaxBuffers /\ hits \in 0..Threshold

(* Four noises leave one that none of three variables holds.               *)
LEMMA FreshIsNoise == Fresh \in Noises /\ Fresh \notin {canary, sample, lastCanary}
<1>1. \E n \in Noises : n \notin {canary, sample, lastCanary}
  BY DEF Noises
<1> QED BY <1>1 DEF Fresh

LEMMA PlainTypesKept == PlainTypes /\ [Next]_vars => PlainTypes'
<1> SUFFICES ASSUME PlainTypes, [Next]_vars PROVE PlainTypes'
  OBVIOUS
<1> USE DEF PlainTypes, ThreadPcs
<1>1. CASE GameStep
  <2>1. /\ gamePc' \in {"construct", "attributes", "update", "publish", "signal",
                       "stopping", "done"}
        /\ scrubPc' \in ThreadPcs \cup {"wait", "clear", "sleep", "write"}
    BY <1>1 DEF GameStep, Construct, Attributes, Update, Publish, Signal, StopGame,
       StopScrub, GameMoves, scrubVars
  <2>2. telPc' \in ThreadPcs \cup {"read", "compare"}
    BY <1>1 DEF GameStep, Construct, Attributes, Update, Publish, Signal, StopGame,
       StopScrub, telVars
  <2>3. observerPc' \in ThreadPcs \cup {"flip"}
    BY <1>1 DEF GameStep, Construct, Attributes, Update, Publish, Signal, StopGame,
       StopScrub
  <2>4. scrubbed' \in BOOLEAN /\ scrubEvent' \in BOOLEAN /\ stopEvent' \in BOOLEAN
    BY <1>1 DEF GameStep, Construct, Attributes, Update, Publish, Signal, StopGame,
       StopScrub
  <2> QED BY <2>1, <2>2, <2>3, <2>4
<1>2. CASE ScrubStep
  <2>1. UNCHANGED <<gamePc, stopEvent, telPc, observerPc>>
    BY <1>2 DEF ScrubStep, ScrubLoop, ScrubWait, ScrubClear, ScrubAwake, ScrubGrabbed,
       ScrubActive, ScrubMoves, telVars
  <2>2. scrubPc' \in ThreadPcs \cup {"wait", "clear", "sleep", "write"}
    BY <1>2 DEF ScrubStep, ScrubLoop, ScrubWait, ScrubClear, ScrubAwake, ScrubGrabbed,
       ScrubActive, ScrubMoves
  <2>3. scrubbed' \in BOOLEAN /\ scrubEvent' \in BOOLEAN
    <3>1. CASE ScrubGrabbed
      BY <3>1 DEF ScrubGrabbed
    <3>2. CASE ~ScrubGrabbed
      BY <1>2, <3>2 DEF ScrubStep, ScrubLoop, ScrubWait, ScrubClear, ScrubAwake, ScrubActive
    <3> QED BY <3>1, <3>2
  <2> QED BY <2>1, <2>2, <2>3
<1>3. CASE TelemetryStep \/ ObserverLoop \/ ObserverFlip \/ UNCHANGED vars
  BY <1>3 DEF TelemetryStep, TelemetryLoop, TelemetryRead, TelemetryDie,
     TelemetryCompare, TelMoves, ObserverLoop, ObserverFlip, vars, scrubVars, telVars
<1> QED BY <1>1, <1>2, <1>3 DEF Next

LEMMA CanaryTypesKept == CanaryTypes /\ [Next]_vars => CanaryTypes'
<1> SUFFICES ASSUME CanaryTypes, [Next]_vars PROVE CanaryTypes'
  OBVIOUS
<1>1. Fresh \in Canaries /\ "seed" \in Canaries
  BY FreshIsNoise DEF Canaries
<1> USE DEF CanaryTypes
<1>2. CASE GameStep
  BY <1>1, <1>2 DEF GameStep, Construct, Attributes, Update, Publish, Signal, StopGame,
     StopScrub, telVars
<1>3. CASE ScrubStep
  BY <1>1, <1>3 DEF ScrubStep, ScrubLoop, ScrubWait, ScrubClear, ScrubAwake,
     ScrubGrabbed, ScrubActive, ScrubMoves, telVars
<1>4. CASE TelemetryStep \/ ObserverLoop \/ ObserverFlip \/ UNCHANGED vars
  BY <1>1, <1>4 DEF TelemetryStep, TelemetryLoop, TelemetryRead, TelemetryDie,
     TelemetryCompare, TelMoves, ObserverLoop, ObserverFlip, vars, telVars
<1> QED BY <1>2, <1>3, <1>4 DEF Next

LEMMA CountTypesKept == CountTypes /\ [Next]_vars => CountTypes'
<1> SUFFICES ASSUME CountTypes, [Next]_vars PROVE CountTypes'
  OBVIOUS
<1> USE NumbersAssumption DEF CountTypes
<1>1. CASE GameStep
  BY <1>1 DEF GameStep, Construct, Attributes, Update, Publish, Signal, StopGame,
     StopScrub, telVars, scrubVars
<1>2. CASE ScrubStep
  BY <1>2 DEF ScrubStep, ScrubLoop, ScrubWait, ScrubClear, ScrubAwake,
     ScrubGrabbed, ScrubActive, ScrubMoves, telVars
<1>3. CASE TelemetryStep \/ ObserverLoop \/ ObserverFlip \/ UNCHANGED vars
  BY <1>3 DEF TelemetryStep, TelemetryLoop, TelemetryRead, TelemetryDie,
     TelemetryCompare, TelMoves, ObserverLoop, ObserverFlip, vars, telVars, scrubVars
<1> QED BY <1>1, <1>2, <1>3 DEF Next

(* The register keeps its types, in every phase and for all its numbers.   *)
THEOREM TypeCorrect == Spec => []TypeOK
<1> DEFINE Inv == PlainTypes /\ CanaryTypes /\ CountTypes /\ ScrubInv
<1>1. Init => Inv
  <2> SUFFICES ASSUME Init PROVE Inv
    OBVIOUS
  <2>1. PlainTypes
    BY DEF Init, PlainTypes, ThreadPcs
  <2>2. CanaryTypes
    BY DEF Init, CanaryTypes, Canaries
  <2>3. CountTypes
    BY NumbersAssumption DEF Init, CountTypes
  <2>4. ScrubInv
    BY DEF Init, ScrubInv, StartInv, NoScrubLost
  <2> QED BY <2>1, <2>2, <2>3, <2>4
<1>2. Inv /\ [Next]_vars => Inv'
  BY PlainTypesKept, CanaryTypesKept, CountTypesKept, ScrubInvKept
<1>3. Inv /\ RingInv => TypeOK
  BY DEF PlainTypes, CanaryTypes, CountTypes, ScrubInv, StartInv, RingInv, TypeOK
<1> QED BY <1>1, <1>2, <1>3, RingKept, PTL DEF Spec
=============================================================================
