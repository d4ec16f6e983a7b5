------------------------ MODULE HunterActivationProofs ------------------------
(***************************************************************************)
(* Proofs about the IDLE/ACTIVE state machine, for any number of Timer     *)
(* threads and any idle_after_epochs: a HIGH score keeps the hunter ACTIVE *)
(* for IdleAfter epochs, no activation goes uncounted, no wake is lost,    *)
(* and the hunter goes IDLE only after IdleAfter LOW scores in a row.      *)
(***************************************************************************)
EXTENDS HunterActivation, FiniteSetTheorems, TLAPS

(* Type correctness of the activation state. *)
THEOREM TypeCorrect == Spec => []TypeOK
<1>1. Init => TypeOK
  <2> SUFFICES ASSUME Init
               PROVE  TypeOK
    OBVIOUS
  <2>1. lowStreak \in 0..IdleAfter /\ 0 \in 0..MaxTriggers
    BY IdleAfterAssumption, MaxTriggersAssumption DEF Init
  <2> QED
    BY <2>1 DEF Init, TypeOK, States, GamePcs, CallerPcs, ScanPcs
<1>2. TypeOK /\ [Next]_vars => TypeOK'
  <2> SUFFICES ASSUME TypeOK, [Next]_vars
               PROVE  TypeOK'
    OBVIOUS
  <2> USE IdleAfterAssumption, MaxTriggersAssumption DEF TypeOK
  <2>1. CASE NotifyHigh
    <3>1. gamePc' \in GamePcs
      BY <2>1 DEF NotifyHigh, GameMoves, GamePcs
    <3>2. lowStreak' \in 0..IdleAfter
      BY <2>1 DEF NotifyHigh
    <3>3. gameSaw' \in BOOLEAN
      BY <2>1 DEF NotifyHigh
    <3> QED
      BY <2>1, <3>1, <3>2, <3>3 DEF NotifyHigh
  <2>2. CASE NotifyLow
    <3>1. gamePc' \in GamePcs
      BY <2>2 DEF NotifyLow, GameMoves, GamePcs
    <3>2. lowStreak' \in 0..IdleAfter
      BY <2>2 DEF NotifyLow, OneMoreLow
    <3>3. gameSaw' \in BOOLEAN
      BY <2>2 DEF NotifyLow
    <3> QED
      BY <2>2, <3>1, <3>2, <3>3 DEF NotifyLow
  <2>3. CASE Raise
    <3>1. activations' \in 0..MaxTriggers
      BY <2>3 DEF Raise, GoActive, OneMore
    <3>3. state' \in States
      BY <2>3 DEF Raise, GoActive, States
    <3>2. gamePc' \in GamePcs
      BY <2>3 DEF Raise, GameMoves, GamePcs
    <3> QED
      BY <2>3, <3>1, <3>2, <3>3 DEF Raise
  <2>4. CASE Arm \/ Announce \/ Disarm \/ Tier4
    <3>1. gamePc' \in GamePcs
      BY <2>4 DEF Arm, Announce, Disarm, Tier4, GameMoves, GamePcs
    <3>2. triggerCount' \in 0..MaxTriggers
      BY <2>4 DEF Arm, Announce, Disarm, Tier4, OneMore
    <3> QED
      BY <2>4, <3>1, <3>2 DEF Arm, Announce, Disarm, Tier4
  <2>5. CASE Lower
    BY <2>5 DEF Lower, GameMoves, GamePcs, States
  <2>6. CASE ScanStep
    BY <2>6 DEF ScanStep, ScanWait, ScanClear, ScanCheck, ScanReturn,
       ScanMoves, ScanPcs, gameVars
  <2>7. CASE Rouse
    BY <2>7 DEF Rouse, gameVars
  <2>8. ASSUME NEW c \in Callers, ForceActive(c)
        PROVE  TypeOK'
    <3>1. activations' \in 0..MaxTriggers
      BY <2>8 DEF ForceActive, GoActive, OneMore
    <3>3. state' \in States
      BY <2>8 DEF ForceActive, GoActive, States
    <3>2. callerPc' \in [Callers -> CallerPcs]
      BY <2>8 DEF ForceActive, CallerMoves, CallerPcs
    <3> QED
      BY <2>8, <3>1, <3>2, <3>3 DEF ForceActive, gameVars
  <2>9. ASSUME NEW c \in Callers, CallerStep(c)
        PROVE  TypeOK'
    <3>1. triggerCount' \in 0..MaxTriggers
      BY <2>9 DEF CallerStep, ForceArm, ForceAnnounce, ForceWake, OneMore
    <3>2. callerPc' \in [Callers -> CallerPcs]
      BY <2>9 DEF CallerStep, ForceArm, ForceAnnounce, ForceWake, CallerMoves,
         CallerPcs
    <3> QED
      BY <2>9, <3>1, <3>2 DEF CallerStep, ForceArm, ForceAnnounce, ForceWake,
         gameVars
  <2>10. CASE UNCHANGED vars
    BY <2>10 DEF vars, gameVars
  <2> QED
    BY <2>1, <2>2, <2>3, <2>4, <2>5, <2>6, <2>7, <2>8, <2>9, <2>10
       DEF Next, GameStep
<1> QED
  BY <1>1, <1>2, PTL DEF Spec

-----------------------------------------------------------------------------
(***************************************************************************)
(* Only the game thread writes IDLE, and only after it has counted         *)
(* IdleAfter LOW epochs; a HIGH call that finds the hunter IDLE is ACTIVE  *)
(* from its "raise" step to its return.  StreakInv says so at each control *)
(* point of notify_score().                                                *)
(***************************************************************************)
StreakInv ==
    /\ gamePc \in {"arm", "announce"} => state = "ACTIVE"
    /\ gamePc \in {"lower", "disarm"} => lowStreak = IdleAfter
    /\ hadHigh /\ gamePc \in {"out", "tier4"} /\ lowStreak < IdleAfter
          => state = "ACTIVE"

(* Steps of the other threads never leave ACTIVE. *)
LEMMA OthersKeepStreakInv ==
    ASSUME StreakInv, UNCHANGED gameVars, state' = state \/ state' = "ACTIVE"
    PROVE  StreakInv'
BY DEF StreakInv, gameVars

(* Between two notify_score() calls, a hunter that has seen a HIGH score   *)
(* is ACTIVE until IdleAfter LOW epochs have followed it.                  *)
THEOREM ScoreAlwaysKeepsActive == Spec => []ScoreKeepsActive
<1>1. Init => StreakInv
  BY DEF Init, StreakInv
<1>2. TypeOK /\ StreakInv /\ [Next]_vars => StreakInv'
  <2> SUFFICES ASSUME TypeOK, StreakInv, [Next]_vars
               PROVE  StreakInv'
    OBVIOUS
  <2> USE IdleAfterAssumption
  <2>1. CASE NotifyHigh
    BY <2>1 DEF NotifyHigh, GameMoves, StreakInv, TypeOK
  <2>2. CASE NotifyLow
    BY <2>2 DEF NotifyLow, OneMoreLow, GameMoves, StreakInv, TypeOK
  <2>3. CASE Raise \/ Arm \/ Announce
    BY <2>3 DEF Raise, Arm, Announce, GoActive, GameMoves, StreakInv
  <2>4. CASE Lower \/ Disarm \/ Tier4
    BY <2>4 DEF Lower, Disarm, Tier4, GameMoves, StreakInv, TypeOK
  <2>5. CASE ScanStep \/ Rouse
    BY <2>5, OthersKeepStreakInv DEF ScanStep, ScanWait, ScanClear, ScanCheck,
       ScanReturn, Rouse
  <2>6. ASSUME NEW c \in Callers, ForceActive(c) \/ CallerStep(c)
        PROVE  StreakInv'
    BY <2>6, OthersKeepStreakInv DEF ForceActive, GoActive, CallerStep,
       ForceArm, ForceAnnounce, ForceWake
  <2>7. CASE UNCHANGED vars
    BY <2>7 DEF vars, gameVars, StreakInv
  <2> QED
    BY <2>1, <2>2, <2>3, <2>4, <2>5, <2>6, <2>7 DEF Next, GameStep
<1>3. StreakInv => ScoreKeepsActive
  BY DEF StreakInv, ScoreKeepsActive
<1> QED
  BY <1>1, <1>2, <1>3, TypeCorrect, PTL DEF Spec

-----------------------------------------------------------------------------
(* The Timer threads between their change of _state and trigger_count += 1 *)
Pending == {c \in Callers : callerPc[c] \in {"arm", "announce"}}

GamePending == IF gamePc \in {"arm", "announce"} THEN 1 ELSE 0

LEMMA PendingFinite ==
    /\ IsFiniteSet(Pending) /\ IsFiniteSet(Pending')
    /\ Cardinality(Pending) \in Nat /\ Cardinality(Pending') \in Nat
<1>1. Pending \subseteq Callers /\ Pending' \subseteq Callers
  BY DEF Pending
<1> QED
  BY <1>1, CallersAssumption, FS_Subset, FS_CardinalityType

(* What a step of the game thread, the scan thread or a producer does to   *)
(* the counters and to the game thread's share of the uncounted.           *)
CountSame == /\ activations' = activations /\ triggerCount' = triggerCount
             /\ GamePending' = GamePending
CountRaise == /\ activations' \in {activations, OneMore(activations)}
              /\ triggerCount' = triggerCount
              /\ GamePending = 0 /\ GamePending' = 1
CountAnnounce == /\ activations' = activations /\ triggerCount' = OneMore(triggerCount)
                 /\ GamePending = 1 /\ GamePending' = 0

(* None of them makes an activation uncounted. *)
LEMMA CountKept ==
    ASSUME TypeOK, ActivationsCounted, callerPc' = callerPc,
           CountSame \/ CountRaise \/ CountAnnounce
    PROVE  ActivationsCounted'
<1>1. Pending' = Pending
  BY DEF Pending
<1>2. /\ activations \in 0..MaxTriggers /\ triggerCount \in 0..MaxTriggers
      /\ MaxTriggers \in Nat
      /\ Cardinality(Pending) \in Nat /\ GamePending \in Nat
  BY PendingFinite, MaxTriggersAssumption DEF TypeOK, GamePending
<1>3. activations <= triggerCount + (Cardinality(Pending) + GamePending)
  BY DEF ActivationsCounted, Uncounted, Pending, GamePending
<1>4. activations' <= triggerCount' + (Cardinality(Pending') + GamePending')
  <2>1. CASE CountSame
    BY <1>1, <1>3, <2>1 DEF CountSame
  <2>2. CASE CountRaise
    BY <1>1, <1>2, <1>3, <2>2 DEF CountRaise, OneMore
  <2>3. CASE CountAnnounce
    BY <1>1, <1>2, <1>3, <2>3 DEF CountAnnounce, OneMore
  <2> QED
    BY <2>1, <2>2, <2>3
<1> QED
  BY <1>4 DEF ActivationsCounted, Uncounted, Pending, GamePending

(* trigger_count misses no activation, whatever the interleaving of        *)
(* notify_score() with any number of _force_active() calls.                *)
THEOREM ActivationsAlwaysCounted == Spec => []ActivationsCounted
<1>1. Init => ActivationsCounted
  <2> SUFFICES ASSUME Init PROVE ActivationsCounted
    OBVIOUS
  <2>1. {c \in Callers : callerPc[c] \in {"arm", "announce"}} = {}
    BY DEF Init
  <2> QED
    BY <2>1, FS_EmptySet DEF Init, ActivationsCounted, Uncounted
<1>2. TypeOK /\ TypeOK' /\ ActivationsCounted /\ [Next]_vars => ActivationsCounted'
  <2> SUFFICES ASSUME TypeOK, TypeOK', ActivationsCounted, [Next]_vars
               PROVE  ActivationsCounted'
    OBVIOUS
  <2>1. CASE GameStep \/ ScanStep \/ Rouse \/ UNCHANGED vars
    <3>1. callerPc' = callerPc
      BY <2>1 DEF GameStep, NotifyHigh, NotifyLow, Raise, Arm, Announce, Lower,
         Disarm, Tier4, ScanStep, ScanWait, ScanClear, ScanCheck, ScanReturn,
         Rouse, vars
    <3>2. CountSame \/ CountRaise \/ CountAnnounce
      <4>1. CASE Raise
        BY <4>1 DEF Raise, GoActive, GameMoves, GamePending, CountRaise, TypeOK
      <4>2. CASE Announce
        BY <4>2 DEF Announce, GameMoves, GamePending, CountAnnounce
      <4>3. CASE NotifyHigh \/ NotifyLow \/ Arm \/ Lower \/ Disarm \/ Tier4
        BY <4>3 DEF NotifyHigh, NotifyLow, Arm, Lower, Disarm, Tier4,
           GameMoves, GamePending, CountSame
      <4>4. CASE ScanStep \/ Rouse \/ UNCHANGED vars
        BY <4>4 DEF ScanStep, ScanWait, ScanClear, ScanCheck, ScanReturn,
           Rouse, vars, gameVars, GamePending, CountSame
      <4> QED
        BY <2>1, <4>1, <4>2, <4>3, <4>4 DEF GameStep
    <3> QED
      BY <3>1, <3>2, CountKept
  <2>2. ASSUME NEW c \in Callers, ForceActive(c) \/ CallerStep(c)
        PROVE  ActivationsCounted'
    <3>1. GamePending' = GamePending /\ GamePending \in Int
      BY <2>2 DEF ForceActive, CallerStep, ForceArm, ForceAnnounce, ForceWake,
         gameVars, GamePending
    <3>2. activations <= triggerCount + (Cardinality(Pending) + GamePending)
      BY DEF ActivationsCounted, Uncounted, Pending, GamePending
    <3>3. activations' <= triggerCount' + (Cardinality(Pending') + GamePending)
      <4>1. CASE ForceActive(c) /\ state = "IDLE"
        <5>1. Pending' = Pending \cup {c} /\ c \notin Pending
          BY <4>1 DEF ForceActive, CallerMoves, Pending, TypeOK
        <5>2. Cardinality(Pending') = Cardinality(Pending) + 1
          BY <5>1, PendingFinite, FS_AddElement
        <5>3. activations' = OneMore(activations) /\ triggerCount' = triggerCount
          BY <4>1 DEF ForceActive, GoActive
        <5> QED
          BY <5>2, <5>3, <3>1, <3>2, PendingFinite, MaxTriggersAssumption
             DEF TypeOK, OneMore
      <4>2. CASE \/ ForceActive(c) /\ state = "ACTIVE"
                 \/ ForceArm(c)
                 \/ ForceWake(c)
        <5>1. Pending' = Pending
          BY <4>2 DEF ForceActive, ForceArm, ForceWake, CallerMoves, Pending, TypeOK
        <5>2. activations' = activations /\ triggerCount' = triggerCount
          BY <4>2 DEF ForceActive, GoActive, ForceArm, ForceWake, TypeOK
        <5> QED
          BY <5>1, <5>2, <3>2
      <4>3. CASE ForceAnnounce(c)
        <5>1. Pending' = Pending \ {c} /\ c \in Pending
          BY <4>3 DEF ForceAnnounce, CallerMoves, Pending, TypeOK
        <5>2. Cardinality(Pending') = Cardinality(Pending) - 1
          BY <5>1, PendingFinite, FS_RemoveElement
        <5>3. activations' = activations /\ triggerCount' = OneMore(triggerCount)
          BY <4>3 DEF ForceAnnounce
        <5>4. GamePending \in {0, 1}
          BY DEF GamePending
        <5> QED
          BY <5>2, <5>3, <5>4, <3>1, <3>2, PendingFinite, MaxTriggersAssumption
             DEF TypeOK, OneMore
      <4> QED
        BY <2>2, <4>1, <4>2, <4>3 DEF CallerStep, TypeOK, States
    <3> QED
      BY <3>1, <3>3 DEF ActivationsCounted, Uncounted, Pending, GamePending
  <2> QED
    BY <2>1, <2>2 DEF Next
<1> QED
  BY <1>1, <1>2, TypeCorrect, PTL DEF Spec

-----------------------------------------------------------------------------
(* A wake that the scan thread has yet to act on: _wake_event is set, or   *)
(* has been cleared and the state is to be looked at next.                 *)
WakePending == wake \/ scanPc = "check"

WakeStays ==
    WakePending /\ state = "ACTIVE" =>
       WakePending' \/ scanPc' = "scan" \/ state' = "IDLE"

(* The safety behind WakeServed: clear() comes before the look at the      *)
(* state, so that no interleaving of the scan thread with those that set   *)
(* the event takes a wake away from an ACTIVE hunter without a scan.       *)
THEOREM WakeNeverLost == Spec => [][WakeStays]_vars
<1>1. [Next]_vars => WakeStays
  <2> SUFFICES ASSUME [Next]_vars, WakePending, state = "ACTIVE"
               PROVE  WakePending' \/ scanPc' = "scan" \/ state' = "IDLE"
    BY DEF WakeStays
  <2>1. CASE GameStep
    BY <2>1 DEF GameStep, NotifyHigh, NotifyLow, Raise, Arm, Announce, Lower,
       Disarm, Tier4, WakePending
  <2>2. CASE ScanStep
    <3>1. CASE ScanWait \/ ScanReturn
      BY <3>1 DEF ScanWait, ScanReturn, ScanMoves, WakePending
    <3>2. CASE ScanClear
      BY <3>2 DEF ScanClear, ScanMoves, WakePending
    <3>3. CASE ScanCheck
      BY <3>3 DEF ScanCheck, ScanMoves
    <3> QED BY <2>2, <3>1, <3>2, <3>3 DEF ScanStep
  <2>3. CASE Rouse \/ UNCHANGED vars
    BY <2>3 DEF Rouse, vars, WakePending
  <2>4. ASSUME NEW c \in Callers, ForceActive(c) \/ CallerStep(c)
        PROVE  WakePending'
    BY <2>4 DEF ForceActive, CallerStep, ForceArm, ForceAnnounce, ForceWake, WakePending
  <2> QED BY <2>1, <2>2, <2>3, <2>4 DEF Next
<1> QED BY <1>1, PTL DEF Spec

-----------------------------------------------------------------------------
(* The way out of ACTIVE: a LOW score that completed the streak in a call  *)
(* that had found the hunter ACTIVE.                                       *)
LowerEarned == gamePc = "lower" => ~scoreHigh /\ lowStreak = IdleAfter /\ gameSaw

IdleEarned ==
    state = "ACTIVE" /\ state' = "IDLE" => ~scoreHigh /\ lowStreak = IdleAfter /\ gameSaw

(* The hunter leaves ACTIVE only where notify_score() has counted          *)
(* idle_after_epochs LOW scores in a row and saw it ACTIVE: no Timer       *)
(* thread, no scan and no HIGH score ends the watch.                       *)
THEOREM IdleAlwaysEarned == Spec => []LowerEarned /\ [][IdleEarned]_vars
<1>1. Init => LowerEarned
  BY DEF Init, LowerEarned
<1>2. TypeOK /\ LowerEarned /\ [Next]_vars => LowerEarned'
  <2> SUFFICES ASSUME TypeOK, LowerEarned, [Next]_vars, gamePc' = "lower"
               PROVE  ~scoreHigh' /\ lowStreak' = IdleAfter /\ gameSaw'
    BY DEF LowerEarned
  <2>1. CASE NotifyLow
    <3>1. state = "ACTIVE" /\ lowStreak' >= IdleAfter
      BY <2>1 DEF NotifyLow, GameMoves
    <3>2. lowStreak' = IdleAfter
      BY <2>1, <3>1, IdleAfterAssumption DEF NotifyLow, OneMoreLow, TypeOK
    <3> QED BY <2>1, <3>1, <3>2 DEF NotifyLow
  <2>2. CASE GameStep /\ ~NotifyLow
    BY <2>2 DEF GameStep, NotifyHigh, Raise, Arm, Announce, Lower, Disarm, Tier4, GameMoves
  <2>3. CASE UNCHANGED gameVars
    BY <2>3 DEF gameVars, LowerEarned
  <2>4. GameStep \/ UNCHANGED gameVars
    BY DEF Next, ScanStep, ScanWait, ScanClear, ScanCheck, ScanReturn, Rouse,
       ForceActive, CallerStep, ForceArm, ForceAnnounce, ForceWake, vars
  <2> QED BY <2>1, <2>2, <2>3, <2>4
<1>3. LowerEarned /\ [Next]_vars => IdleEarned
  <2> SUFFICES ASSUME LowerEarned, [Next]_vars, state = "ACTIVE", state' = "IDLE"
               PROVE  ~scoreHigh /\ lowStreak = IdleAfter /\ gameSaw
    BY DEF IdleEarned
  <2>1. Lower
    BY DEF Next, GameStep, NotifyHigh, NotifyLow, Raise, Arm, Announce, Disarm,
       Tier4, GoActive, ScanStep, ScanWait, ScanClear, ScanCheck, ScanReturn,
       Rouse, ForceActive, CallerStep, ForceArm, ForceAnnounce, ForceWake, vars
  <2> QED BY <2>1 DEF Lower, GameMoves, LowerEarned
<1> QED BY <1>1, <1>2, <1>3, TypeCorrect, PTL DEF Spec

=============================================================================
