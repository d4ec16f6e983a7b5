--------------------------- MODULE HunterSystemProofs ---------------------------
(***************************************************************************)
(* Proofs about HunterSystem: the composition implements both components,  *)
(* raises no alarm without a cause, activates only inside a callback,      *)
(* loses no IN_OPEN on its way to the activation, and after stop() only    *)
(* works off what had been read.                                           *)
(***************************************************************************)
EXTENDS HunterSystem, TLAPS

(* Every action of the composition is an action of the watcher or leaves   *)
(* the watcher alone.                                                      *)
LEMMA WatcherSteps == [Next]_vars => [Watcher!Next]_(Watcher!vars)
<1>1. UNCHANGED watcherVars => UNCHANGED Watcher!vars
  BY DEF watcherVars, Watcher!vars
<1> SUFFICES ASSUME [Next]_vars PROVE Watcher!Next \/ UNCHANGED watcherVars
  BY <1>1
<1>2. CASE RunStep
  BY <1>2 DEF RunStep, Watcher!Next
<1>3. CASE Stop
  BY <1>3 DEF Stop, Watcher!Next
<1>4. CASE OwnWalk
  BY <1>4 DEF OwnWalk, Watcher!Next, Watcher!Kernel
<1>5. CASE GameStep \/ ScanStep \/ Tier4Hit
  BY <1>5 DEF GameStep, ScanStep, Tier4Hit
<1>6. ASSUME NEW r \in Readers, ReaderStep(r)
      PROVE  Watcher!Next
  BY <1>6 DEF ReaderStep, Watcher!Next, Watcher!Kernel
<1>7. ASSUME NEW t \in Timers, TimerStep(t)
      PROVE  Watcher!Next \/ UNCHANGED watcherVars
  <2>1. CASE Before(t)
    BY <2>1 DEF Before, Watcher!Next, Watcher!TimerStep
  <2>2. CASE List(t)
    BY <2>2 DEF List, Watcher!Next, Watcher!TimerStep
  <2>3. CASE Activate(t) \/ Activating(t) \/ Post(t)
    BY <2>3 DEF Activate, Activating, Post
  <2>4. CASE Return(t)
    BY <2>4 DEF Return, Watcher!Next, Watcher!TimerStep
  <2> QED BY <1>7, <2>1, <2>2, <2>3, <2>4 DEF TimerStep
<1>8. CASE UNCHANGED vars
  BY <1>8 DEF vars
<1> QED BY <1>2, <1>3, <1>4, <1>5, <1>6, <1>7, <1>8 DEF Next

(* Every action of the composition is an action of the state machine or    *)
(* leaves it alone.                                                        *)
LEMMA ActivationSteps == [Next]_vars => [Activation!Next]_(Activation!vars)
<1>1. UNCHANGED activationVars => UNCHANGED Activation!vars
  BY DEF activationVars, Activation!vars, Activation!gameVars
<1> SUFFICES ASSUME [Next]_vars PROVE Activation!Next \/ UNCHANGED activationVars
  BY <1>1
<1>2. CASE RunStep \/ Stop \/ OwnWalk
  BY <1>2 DEF RunStep, Stop, OwnWalk
<1>3. CASE GameStep \/ ScanStep \/ Tier4Hit
  BY <1>3 DEF GameStep, ScanStep, Tier4Hit, Activation!Next
<1>4. ASSUME NEW r \in Readers, ReaderStep(r)
      PROVE  UNCHANGED activationVars
  BY <1>4 DEF ReaderStep
<1>5. ASSUME NEW t \in Timers, TimerStep(t)
      PROVE  Activation!Next \/ UNCHANGED activationVars
  <2>1. CASE Before(t) \/ List(t) \/ Return(t)
    BY <2>1 DEF Before, List, Return
  <2>2. CASE Activate(t) \/ Activating(t) \/ Post(t)
    BY <2>2 DEF Activate, Activating, Post, Activation!Next
  <2> QED BY <1>5, <2>1, <2>2 DEF TimerStep
<1>6. CASE UNCHANGED vars
  BY <1>6 DEF vars
<1> QED BY <1>2, <1>3, <1>4, <1>5, <1>6 DEF Next

(* The composition implements the Tier 1 watcher. *)
LEMMA SystemImplementsWatcher == Spec => Watcher!Spec
<1>1. Init => Watcher!Init
  BY DEF Init
<1> QED BY <1>1, WatcherSteps, PTL DEF Spec, Watcher!Spec

(* The composition implements the IDLE/ACTIVE state machine. *)
LEMMA SystemImplementsActivation == Spec => Activation!Spec
<1>1. Init => Activation!Init
  BY DEF Init
<1> QED BY <1>1, ActivationSteps, PTL DEF Spec, Activation!Spec
-----------------------------------------------------------------------------
(* Types of the functions that are indexed by the Timer threads. *)
Shape ==
    /\ timerPc \in [Timers -> Watcher!TimerPcs]
    /\ callerPc \in [Timers -> Activation!CallerPcs]
    /\ todo \in [Timers -> Todos]

CallbackInv == Shape /\ ActivationInCallback

(* The watcher thread and the kernel never move a thread out of or into a  *)
(* callback.                                                               *)
LEMMA RunStepKeepsCallbacks ==
    ASSUME Watcher!RunStep, timerPc \in [Timers -> Watcher!TimerPcs]
    PROVE  /\ timerPc' \in [Timers -> Watcher!TimerPcs]
           /\ \A t \in Timers : timerPc[t] = "returning" <=> timerPc'[t] = "returning"
<1>1. CASE Watcher!ReadBatch \/ Watcher!DropOpen \/ Watcher!AdmitOpen
             \/ Watcher!SwallowOpen \/ Watcher!RunExit
  BY <1>1 DEF Watcher!ReadBatch, Watcher!DropOpen, Watcher!AdmitOpen,
     Watcher!SwallowOpen, Watcher!RunExit
<1>2. CASE Watcher!ArmGate
  BY <1>2 DEF Watcher!ArmGate, Watcher!TimerPcs
<1>3. CASE Watcher!HandleClose
  BY <1>3 DEF Watcher!HandleClose, Watcher!Cancelled, Watcher!TimerPcs
<1> QED BY <1>1, <1>2, <1>3 DEF Watcher!RunStep

(* A step of a Timer thread keeps the invariant. *)
LEMMA TimerStepKeepsCallbacks ==
    ASSUME NEW u \in Timers, TimerStep(u), CallbackInv
    PROVE  CallbackInv'
<1> USE DEF CallbackInv, Shape, ActivationInCallback
<1>1. CASE Before(u)
  <2>1. UNCHANGED <<callerPc, todo>>
    BY <1>1 DEF Before, activationVars
  <2>2. /\ timerPc' \in [Timers -> Watcher!TimerPcs]
        /\ \A t \in Timers : timerPc[t] = "returning" => timerPc'[t] = "returning"
    BY <1>1 DEF Before, Watcher!Expire, Watcher!TestGuard, Watcher!ResetGate,
       Watcher!SetGuard, Watcher!TimerMoves, Watcher!TimerPcs
  <2> QED BY <2>1, <2>2
<1>2. CASE List(u)
  <2>1. UNCHANGED callerPc
    BY <1>2 DEF List, activationVars
  <2>2. /\ timerPc' \in [Timers -> Watcher!TimerPcs]
        /\ timerPc' = [timerPc EXCEPT ![u] = "returning"]
    BY <1>2 DEF List, Watcher!Callback, Watcher!TimerMoves, Watcher!TimerPcs
  <2>3. /\ todo' \in [Timers -> Todos]
        /\ \A t \in Timers : t # u => todo'[t] = todo[t]
    BY <1>2 DEF List, Owes, Todos
  <2> QED BY <2>1, <2>2, <2>3
<1>3. CASE Activate(u)
  <2>1. UNCHANGED timerPc
    BY <1>3 DEF Activate, watcherVars
  <2>2. timerPc[u] = "returning"
    BY <1>3 DEF Activate
  <2>3. /\ todo' \in [Timers -> Todos]
        /\ \A t \in Timers : t # u => todo'[t] = todo[t]
    BY <1>3 DEF Activate, Owes, Todos
  <2>4. /\ callerPc' \in [Timers -> Activation!CallerPcs]
        /\ \A t \in Timers : t # u => callerPc'[t] = callerPc[t]
    BY <1>3 DEF Activate, Activation!ForceActive, Activation!CallerMoves,
       Activation!CallerPcs
  <2> QED BY <2>1, <2>2, <2>3, <2>4
<1>4. CASE Activating(u)
  <2>1. UNCHANGED <<timerPc, todo>>
    BY <1>4 DEF Activating, watcherVars
  <2>2. callerPc[u] # "out"
    BY <1>4 DEF Activating, Activation!CallerStep, Activation!ForceArm,
       Activation!ForceAnnounce, Activation!ForceWake, Activation!CallerMoves
  <2>3. /\ callerPc' \in [Timers -> Activation!CallerPcs]
        /\ \A t \in Timers : t # u => callerPc'[t] = callerPc[t]
    BY <1>4 DEF Activating, Activation!CallerStep, Activation!ForceArm,
       Activation!ForceAnnounce, Activation!ForceWake, Activation!CallerMoves,
       Activation!CallerPcs
  <2> QED BY <2>1, <2>2, <2>3
<1>5. CASE Post(u)
  <2>1. UNCHANGED <<timerPc, callerPc>>
    BY <1>5 DEF Post, watcherVars, Activation!Rouse
  <2>2. /\ todo' \in [Timers -> Todos]
        /\ \A t \in Timers : todo'[t] = todo[t] \/ todo'[t] = "nothing"
    BY <1>5 DEF Post, Owes, Todos
  <2> QED BY <2>1, <2>2
<1>6. CASE Return(u)
  <2>1. UNCHANGED <<callerPc, todo>>
    BY <1>6 DEF Return, activationVars
  <2>2. todo[u] = "nothing" /\ callerPc[u] = "out"
    BY <1>6 DEF Return
  <2>3. /\ timerPc' \in [Timers -> Watcher!TimerPcs]
        /\ \A t \in Timers : t # u => timerPc'[t] = timerPc[t]
    BY <1>6 DEF Return, Watcher!ClearGuard, Watcher!TimerMoves, Watcher!TimerPcs
  <2> QED BY <2>1, <2>2, <2>3
<1> QED BY <1>1, <1>2, <1>3, <1>4, <1>5, <1>6 DEF TimerStep

LEMMA CallbackInvHolds == Spec => []CallbackInv
<1>1. Init => CallbackInv
  BY DEF Init, CallbackInv, Shape, ActivationInCallback, Watcher!Init,
     Activation!Init, Watcher!TimerPcs, Activation!CallerPcs, Todos
<1>2. CallbackInv /\ [Next]_vars => CallbackInv'
  <2> SUFFICES ASSUME CallbackInv, [Next]_vars
               PROVE  CallbackInv'
    OBVIOUS
  <2>1. CASE RunStep
    BY <2>1, RunStepKeepsCallbacks DEF RunStep, activationVars, CallbackInv,
       Shape, ActivationInCallback
  <2>2. CASE Stop \/ OwnWalk
    <3>1. UNCHANGED <<timerPc, callerPc, todo>>
      BY <2>2 DEF Stop, OwnWalk, Watcher!Stop, Watcher!SelfOpen, activationVars
    <3> QED BY <3>1 DEF CallbackInv, Shape, ActivationInCallback
  <2>3. CASE GameStep \/ ScanStep \/ Tier4Hit
    <3>1. UNCHANGED <<timerPc, callerPc, todo>>
      BY <2>3 DEF GameStep, ScanStep, Tier4Hit, watcherVars, Activation!GameStep,
         Activation!NotifyHigh, Activation!NotifyLow, Activation!Raise,
         Activation!Arm, Activation!Announce, Activation!Lower,
         Activation!Disarm, Activation!Tier4, Activation!ScanStep,
         Activation!ScanWait, Activation!ScanClear, Activation!ScanCheck,
         Activation!ScanReturn, Activation!Rouse
    <3> QED BY <3>1 DEF CallbackInv, Shape, ActivationInCallback
  <2>4. ASSUME NEW r \in Readers, ReaderStep(r)
        PROVE  CallbackInv'
    <3>1. UNCHANGED <<timerPc, callerPc, todo>>
      BY <2>4 DEF ReaderStep, Watcher!ReaderOpen, Watcher!ReaderRead,
         Watcher!ReaderClose, activationVars
    <3> QED BY <3>1 DEF CallbackInv, Shape, ActivationInCallback
  <2>5. CASE UNCHANGED vars
    BY <2>5 DEF vars, watcherVars, activationVars, CallbackInv, Shape,
       ActivationInCallback
  <2> QED BY <2>1, <2>2, <2>3, <2>4, <2>5, TimerStepKeepsCallbacks DEF Next
<1> QED BY <1>1, <1>2, PTL DEF Spec

(* No thread activates the hunter outside the callback of its own timer. *)
THEOREM ActivationAlwaysInCallback == Spec => []ActivationInCallback
<1>1. CallbackInv => ActivationInCallback
  BY DEF CallbackInv
<1> QED BY <1>1, CallbackInvHolds, PTL

(* What the composition adds to the state keeps its types. *)
THEOREM TypeCorrect == Spec => []TypeOK
<1>1. Init => hadOpen \in BOOLEAN
  BY DEF Init
<1>2. hadOpen \in BOOLEAN /\ [Next]_vars => (hadOpen \in BOOLEAN)'
  <2>1. [Next]_vars => hadOpen' = TRUE \/ hadOpen' = hadOpen
    BY DEF Next, RunStep, Stop, OwnWalk, GameStep, ScanStep, Tier4Hit,
       ReaderStep, TimerStep, Before, List, Activate, Activating, Post, Return,
       vars
  <2> QED BY <2>1
<1>3. Spec => [](hadOpen \in BOOLEAN)
  BY <1>1, <1>2, PTL DEF Spec
<1>4. CallbackInv /\ hadOpen \in BOOLEAN => TypeOK
  BY DEF CallbackInv, Shape, TypeOK
<1> QED BY <1>3, <1>4, CallbackInvHolds, PTL

-----------------------------------------------------------------------------
(* Before any cause, nothing moves: no event waits, no timer exists, the   *)
(* hunter is IDLE and none of its threads walks.                           *)
Calm ==
    /\ state = "IDLE" /\ gameSaw = FALSE /\ gamePc \in {"out", "tier4"}
    /\ scanPc # "scan"
    /\ held = {} /\ queue = <<>> /\ batch = <<>> /\ runPc # "arm"
    /\ timerPc = [t \in Timers |-> "free"]
    /\ callerPc = [t \in Timers |-> "out"]
    /\ todo = [t \in Timers |-> "nothing"]

CalmInv == ~hadOpen /\ ~hadHigh => Calm

(* No alarm without a foreign access or a HIGH score. *)
THEOREM NeverAlarmWithoutCause == Spec => []NoCauseNoAlarm
<1>1. Init => CalmInv
  BY DEF Init, CalmInv, Calm, Watcher!Init, Activation!Init
<1>2. CalmInv /\ [Next]_vars => CalmInv'
  <2> SUFFICES ASSUME CalmInv, [Next]_vars, ~hadOpen', ~hadHigh'
               PROVE  Calm'
    BY DEF CalmInv
  <2>1. hadHigh => hadHigh'
    BY DEF Next, RunStep, Stop, OwnWalk, GameStep, ScanStep, Tier4Hit,
       ReaderStep, TimerStep, Before, List, Activate, Activating, Post, Return,
       activationVars, vars, Activation!GameStep, Activation!NotifyHigh,
       Activation!NotifyLow, Activation!Raise, Activation!Arm,
       Activation!Announce, Activation!Lower, Activation!Disarm,
       Activation!Tier4, Activation!ScanStep, Activation!ScanWait,
       Activation!ScanClear, Activation!ScanCheck, Activation!ScanReturn,
       Activation!Rouse, Activation!ForceActive, Activation!CallerStep,
       Activation!ForceArm, Activation!ForceAnnounce, Activation!ForceWake,
       Activation!gameVars
  <2>2. hadOpen => hadOpen'
    BY DEF Next, RunStep, Stop, OwnWalk, GameStep, ScanStep, Tier4Hit,
       ReaderStep, TimerStep, Before, List, Activate, Activating, Post, Return,
       vars
  <2>3. Calm
    BY <2>1, <2>2 DEF CalmInv
  <2>4. CASE RunStep
    BY <2>3, <2>4 DEF Calm, RunStep, activationVars, Watcher!RunStep,
       Watcher!ReadBatch, Watcher!DropOpen, Watcher!AdmitOpen, Watcher!ArmGate,
       Watcher!SwallowOpen, Watcher!HandleClose, Watcher!RunExit,
       Watcher!NextEvent
  <2>5. CASE Stop
    BY <2>3, <2>5 DEF Calm, Stop, activationVars, Watcher!Stop
  <2>6. CASE OwnWalk
    BY <2>3, <2>6 DEF Calm, OwnWalk, Walking
  <2>7. CASE GameStep
    <3>1. UNCHANGED <<held, queue, batch, runPc, timerPc, todo>>
      BY <2>7 DEF GameStep, watcherVars
    <3>2. /\ state' = "IDLE" /\ gameSaw' = FALSE /\ gamePc' \in {"out", "tier4"}
          /\ UNCHANGED <<scanPc, callerPc>>
      BY <2>3, <2>7 DEF Calm, GameStep, Activation!GameStep,
         Activation!NotifyHigh, Activation!NotifyLow, Activation!Raise,
         Activation!Arm, Activation!Announce, Activation!Lower,
         Activation!Disarm, Activation!Tier4, Activation!GameMoves
    <3> QED BY <2>3, <3>1, <3>2 DEF Calm
  <2>8. CASE ScanStep
    <3>1. UNCHANGED <<held, queue, batch, runPc, timerPc, todo>>
      BY <2>8 DEF ScanStep, watcherVars
    <3>2. scanPc' # "scan" /\ UNCHANGED <<state, gameSaw, gamePc, callerPc>>
      BY <2>3, <2>8 DEF Calm, ScanStep, Activation!ScanStep,
         Activation!ScanWait, Activation!ScanClear, Activation!ScanCheck,
         Activation!ScanReturn, Activation!ScanMoves, Activation!gameVars
    <3> QED BY <2>3, <3>1, <3>2 DEF Calm
  <2>9. CASE Tier4Hit
    BY <2>3, <2>9 DEF Calm, Tier4Hit
  <2>10. ASSUME NEW r \in Readers, ReaderStep(r)
         PROVE  Calm'
    BY <2>3, <2>10 DEF Calm, ReaderStep, Watcher!ReaderClose
  <2>11. ASSUME NEW t \in Timers, TimerStep(t)
         PROVE  Calm'
    BY <2>3, <2>11 DEF Calm, TimerStep, Before, List, Activate, Activating,
       Post, Return, Watcher!Expire, Watcher!TestGuard, Watcher!ResetGate,
       Watcher!SetGuard, Watcher!Callback, Watcher!ClearGuard,
       Watcher!TimerMoves, Activation!CallerStep, Activation!ForceArm,
       Activation!ForceAnnounce, Activation!ForceWake, Activation!CallerMoves
  <2>12. CASE UNCHANGED vars
    BY <2>3, <2>12 DEF Calm, vars, watcherVars, activationVars
  <2> QED BY <2>4, <2>5, <2>6, <2>7, <2>8, <2>9, <2>10, <2>11, <2>12 DEF Next
<1>3. CalmInv => NoCauseNoAlarm
  BY DEF CalmInv, Calm, NoCauseNoAlarm
<1> QED BY <1>1, <1>2, <1>3, PTL DEF Spec

-----------------------------------------------------------------------------
(* The theorems of the components, carried over to the composition, which  *)
(* implements both.                                                        *)
WP == INSTANCE InotifyWatcherProofs
AP == INSTANCE HunterActivationProofs WITH Callers <- Timers

LEMMA RunsWatcher == Spec => WP!Spec
<1>1. WP!Init <=> Watcher!Init
  BY DEF WP!Init, Watcher!Init
<1>2. [WP!Next]_(WP!vars) <=> [Watcher!Next]_(Watcher!vars)
  BY Zenon DEF WP!ReaderOpen, Watcher!ReaderOpen, WP!ReaderClose,
     Watcher!ReaderClose, WP!ReaderRead, Watcher!ReaderRead, WP!SelfOpen,
     Watcher!SelfOpen, WP!ReadBatch, Watcher!ReadBatch, WP!NextEvent,
     Watcher!NextEvent, WP!DropOpen, Watcher!DropOpen, WP!AdmitOpen,
     Watcher!AdmitOpen, WP!ArmGate, Watcher!ArmGate, WP!SwallowOpen,
     Watcher!SwallowOpen, WP!Cancelled, Watcher!Cancelled, WP!HandleClose,
     Watcher!HandleClose, WP!RunExit, Watcher!RunExit, WP!RunStep,
     Watcher!RunStep, WP!TimerMoves, Watcher!TimerMoves, WP!Expire,
     Watcher!Expire, WP!TestGuard, Watcher!TestGuard, WP!ResetGate,
     Watcher!ResetGate, WP!SetGuard, Watcher!SetGuard, WP!Callback,
     Watcher!Callback, WP!ClearGuard, Watcher!ClearGuard, WP!TimerStep,
     Watcher!TimerStep, WP!Stop, Watcher!Stop, WP!Kernel, Watcher!Kernel,
     WP!Next, Watcher!Next, WP!Post, Watcher!Post, WP!vars, Watcher!vars, WP!gate, Watcher!gate,
     WP!runVars, Watcher!runVars, WP!Last, Watcher!Last
<1> QED BY <1>1, <1>2, SystemImplementsWatcher, PTL
        DEF WP!Spec, Watcher!Spec

LEMMA RunsActivation == Spec => AP!Spec
<1>1. AP!Init <=> Activation!Init
  BY DEF AP!Init, Activation!Init
<1>2. [AP!Next]_(AP!vars) <=> [Activation!Next]_(Activation!vars)
  BY Zenon DEF AP!Next, Activation!Next, AP!vars, Activation!vars,
     AP!gameVars, Activation!gameVars, AP!GameStep, Activation!GameStep,
     AP!ScanStep, Activation!ScanStep, AP!CallerStep,
     Activation!CallerStep, AP!Rouse, Activation!Rouse, AP!NotifyHigh,
     Activation!NotifyHigh, AP!NotifyLow, Activation!NotifyLow, AP!Raise,
     Activation!Raise, AP!Arm, Activation!Arm, AP!Announce,
     Activation!Announce, AP!Lower, Activation!Lower, AP!Disarm,
     Activation!Disarm, AP!Tier4, Activation!Tier4, AP!ForceActive,
     Activation!ForceActive, AP!ForceArm, Activation!ForceArm,
     AP!ForceAnnounce, Activation!ForceAnnounce, AP!ForceWake,
     Activation!ForceWake, AP!ScanWait, Activation!ScanWait, AP!ScanClear,
     Activation!ScanClear, AP!ScanCheck, Activation!ScanCheck,
     AP!ScanReturn, Activation!ScanReturn, AP!GameMoves,
     Activation!GameMoves, AP!CallerMoves, Activation!CallerMoves,
     AP!ScanMoves, Activation!ScanMoves, AP!GoActive, Activation!GoActive,
     AP!OneMore, Activation!OneMore, AP!OneMoreLow,
     Activation!OneMoreLow
<1> QED BY <1>1, <1>2, SystemImplementsActivation, PTL
        DEF AP!Spec, Activation!Spec

(* In the whole system, too, the gate and the guard of the watcher are     *)
(* never stuck, and no activation goes uncounted.                          *)
THEOREM ComponentsKeep ==
    Spec => [](/\ Watcher!GateHasTimer /\ Watcher!GuardHasCallback
               /\ Activation!ScoreKeepsActive /\ Activation!ActivationsCounted)
<1>1. /\ NoTimer \notin Timers /\ MaxQueue \in Nat \ {0}
      /\ AP!IsFiniteSet(Timers) /\ IdleAfter \in Nat \ {0} /\ MaxTriggers \in Nat
  BY TimersAssumption, BoundsAssumption DEF AP!IsFiniteSet, IsFiniteSet
<1>2. NoTimer \notin Timers /\ MaxQueue \in Nat \ {0}
  BY <1>1
<1>3. Spec => []WP!GateHasTimer
  BY <1>2, RunsWatcher, WP!GateAlwaysHasTimer, PTL
<1>4. Spec => []WP!GuardHasCallback
  BY <1>2, RunsWatcher, WP!GuardAlwaysHasCallback, PTL
<1>5. AP!IsFiniteSet(Timers)
  BY <1>1
<1>6. IdleAfter \in Nat \ {0} /\ MaxTriggers \in Nat
  BY <1>1
<1>7. Spec => []AP!ScoreKeepsActive
  BY <1>5, <1>6, RunsActivation, AP!ScoreAlwaysKeepsActive, PTL
<1>8. Spec => []AP!ActivationsCounted
  BY <1>5, <1>6, RunsActivation, AP!ActivationsAlwaysCounted, PTL
<1>9. WP!GateHasTimer <=> Watcher!GateHasTimer
  BY DEF WP!GateHasTimer, Watcher!GateHasTimer
<1>10. WP!GuardHasCallback <=> Watcher!GuardHasCallback
  BY DEF WP!GuardHasCallback, Watcher!GuardHasCallback
<1>11. AP!ScoreKeepsActive <=> Activation!ScoreKeepsActive
  BY DEF AP!ScoreKeepsActive, Activation!ScoreKeepsActive
<1>12. AP!ActivationsCounted <=> Activation!ActivationsCounted
  <2>1. \A S : AP!Cardinality(S) = Activation!Cardinality(S)
    BY DEF AP!Cardinality, Activation!Cardinality
  <2> QED BY <2>1 DEF AP!ActivationsCounted, Activation!ActivationsCounted,
             AP!Uncounted, Activation!Uncounted
<1> QED BY <1>3, <1>4, <1>7, <1>8, <1>9, <1>10, <1>11, <1>12, PTL

-----------------------------------------------------------------------------
(* The way from the IN_OPEN to the activation: the listing is still to     *)
(* come, or the thread that made it has yet to call _force_active().       *)
ToActivate == \E t \in Timers : todo[t] \in {"activate", "activateAndPost"}

OnItsWay == WP!Coming \/ ToActivate

StaysOnItsWay ==
    OnItsWay /\ ~WP!CloseSeen =>
       OnItsWay' \/ state' = "ACTIVE" \/ WP!CloseSeen' \/ stopped' \/ runPc' = "done"

(* Only the callback itself lists. *)
LEMMA ListingLists ==
    ASSUME CallbackInv, [Next]_vars, WP!Listing
    PROVE  ToActivate'
<1>1. PICK t \in Timers : timerPc[t] = "calling" /\ timerPc'[t] = "returning"
  BY DEF WP!Listing, WP!Callback, WP!TimerMoves, CallbackInv, Shape
<1>2. CASE RunStep
  BY <1>1, <1>2, RunStepKeepsCallbacks DEF RunStep, CallbackInv, Shape
<1>3. CASE Stop \/ OwnWalk \/ GameStep \/ ScanStep \/ Tier4Hit \/ UNCHANGED vars
             \/ \E r \in Readers : ReaderStep(r)
  <2>1. UNCHANGED timerPc
    BY <1>3 DEF Stop, OwnWalk, GameStep, ScanStep, Tier4Hit, ReaderStep, vars,
       watcherVars, Watcher!Stop, Watcher!SelfOpen, Watcher!ReaderOpen,
       Watcher!ReaderRead, Watcher!ReaderClose
  <2> QED BY <1>1, <2>1
<1>4. ASSUME NEW u \in Timers, TimerStep(u)
      PROVE  ToActivate'
  <2>1. CASE List(u)
    BY <2>1 DEF List, Owes, ToActivate, CallbackInv, Shape
  <2>2. CASE Activate(u) \/ Activating(u) \/ Post(u)
    BY <1>1, <2>2 DEF Activate, Activating, Post, watcherVars
  <2>3. CASE Before(u) \/ Return(u)
    BY <1>1, <2>3 DEF Before, Return, Watcher!Expire, Watcher!TestGuard,
       Watcher!ResetGate, Watcher!SetGuard, Watcher!ClearGuard,
       Watcher!TimerMoves, CallbackInv, Shape
  <2> QED BY <1>4, <2>1, <2>2, <2>3 DEF TimerStep
<1> QED BY <1>2, <1>3, <1>4 DEF Next

(* What a thread owes it pays with the activation. *)
LEMMA ToActivateKept ==
    ASSUME CallbackInv, ToActivate, [Next]_vars
    PROVE  ToActivate' \/ state' = "ACTIVE"
<1>1. CASE RunStep \/ Stop \/ OwnWalk \/ GameStep \/ ScanStep \/ Tier4Hit \/ UNCHANGED vars
             \/ \E r \in Readers : ReaderStep(r)
  <2>1. UNCHANGED todo
    BY <1>1 DEF RunStep, Stop, OwnWalk, GameStep, ScanStep, Tier4Hit, ReaderStep, vars
  <2> QED BY <2>1 DEF ToActivate
<1>2. ASSUME NEW u \in Timers, TimerStep(u)
      PROVE  ToActivate' \/ state' = "ACTIVE"
  <2>1. CASE Before(u) \/ Activating(u) \/ Return(u)
    BY <2>1 DEF Before, Activating, Return, ToActivate
  <2>2. CASE List(u)
    BY <2>2 DEF List, Owes, ToActivate, CallbackInv, Shape
  <2>3. CASE Activate(u)
    BY <2>3 DEF Activate, Activation!ForceActive, Activation!GoActive
  <2>4. CASE Post(u)
    BY <2>4 DEF Post, Owes, ToActivate, CallbackInv, Shape
  <2> QED BY <1>2, <2>1, <2>2, <2>3, <2>4 DEF TimerStep
<1> QED BY <1>1, <1>2 DEF Next

(* An idle watcher keeps its promise, too. *)
LEMMA ComingUnchanged ==
    ASSUME UNCHANGED WP!vars
    PROVE  WP!ComingStays
<1>1. WP!Coming' = WP!Coming
  BY DEF WP!vars, WP!Coming, WP!Through, WP!Timing, WP!Clear, WP!OpenWaits, WP!Range
<1> QED BY <1>1 DEF WP!ComingStays

(* The safety behind OpenActivates: in every interleaving of the watcher,  *)
(* the Timer threads, the game thread and the scans, an IN_OPEN that waits *)
(* or is being worked on stays on its way to _force_active() until the     *)
(* hunter is ACTIVE, unless an IN_CLOSE or the shutdown comes between.     *)
THEOREM OpenAlwaysOnItsWay == Spec => [][StaysOnItsWay]_vars
<1>1. NoTimer \notin Timers /\ MaxQueue \in Nat \ {0}
  BY TimersAssumption, BoundsAssumption
<1>2. Spec => [][WP!ComingStays]_(WP!vars)
  BY <1>1, RunsWatcher, WP!ListingAlwaysComing, PTL
<1>3. ASSUME CallbackInv, [Next]_vars, [WP!ComingStays]_(WP!vars)
      PROVE  StaysOnItsWay
  <2>1. WP!ComingStays
    BY <1>3, ComingUnchanged
  <2>2. ASSUME WP!Coming, ~WP!CloseSeen
        PROVE  OnItsWay' \/ WP!CloseSeen' \/ stopped' \/ runPc' = "done"
    BY <1>3, <2>1, <2>2, ListingLists DEF WP!ComingStays, OnItsWay
  <2>3. ToActivate => OnItsWay' \/ state' = "ACTIVE"
    BY <1>3, ToActivateKept DEF OnItsWay
  <2> QED BY <2>2, <2>3 DEF StaysOnItsWay, OnItsWay
<1> QED BY <1>2, <1>3, CallbackInvHolds, PTL DEF Spec

-----------------------------------------------------------------------------
(* The safety behind StopQuiesces in the whole: after stop() the walks of  *)
(* a hunter that is still ACTIVE post nothing, and every further callback  *)
(* uses up an event that had been read before.                             *)
THEOREM StopAlwaysWorksOff == Spec => []WP!DescriptorClosed /\ [][WP!WorkedOff]_(WP!vars)
<1>1. NoTimer \notin Timers /\ MaxQueue \in Nat \ {0}
  BY TimersAssumption, BoundsAssumption
<1> QED BY <1>1, RunsWatcher, WP!StopAlwaysWorksOff, PTL

=============================================================================
