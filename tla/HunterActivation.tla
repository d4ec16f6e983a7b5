--------------------------- MODULE HunterActivation ---------------------------
(***************************************************************************)
(* The IDLE/ACTIVE state machine of class ObserverHunter                   *)
(* (src/python_prototype/phase1_tracker.py) and the threads that drive it: *)
(*   - the game thread calls notify_score() once per epoch;                *)
(*   - Timer threads call _force_active() from _on_mem_open();             *)
(*   - the scan thread waits on _wake_event in _scan_loop().               *)
(* _state is written under _state_lock, but the poller flag, the trigger   *)
(* counter and the wake event are written after the lock is released, and  *)
(* notify_score() goes on with the state it read at its start.             *)
(***************************************************************************)
EXTENDS Integers, FiniteSets

CONSTANTS
    Callers,      \* Timer threads that may be inside _force_active() at once
    IdleAfter,    \* HunterConfig.idle_after_epochs
    MaxTriggers   \* activations are counted up to this

ASSUME CallersAssumption == IsFiniteSet(Callers)
ASSUME IdleAfterAssumption == IdleAfter \in Nat \ {0}
ASSUME MaxTriggersAssumption == MaxTriggers \in Nat

VARIABLES
    state,         \* self._state
    pollerActive,  \* _VmReadvPoller._active
    lowStreak,     \* self._low_streak, counted up to IdleAfter
    triggerCount,  \* self.trigger_count, counted up to MaxTriggers
    wake,          \* self._wake_event
    gamePc,        \* where the game thread is in notify_score()
    gameSaw,       \* its local currently_active (FALSE outside the call)
    scoreHigh,     \* the score of the last call reached trigger_score
    callerPc,      \* where each Timer thread is in _force_active()
    scanPc,        \* where the scan thread is in _scan_loop()
    activations,   \* auxiliary: changes of _state to ACTIVE, counted likewise
    hadHigh        \* auxiliary: some score has reached trigger_score

gameVars == <<gamePc, gameSaw, scoreHigh, lowStreak, hadHigh>>
vars == <<state, pollerActive, wake, triggerCount, activations, gameVars,
          callerPc, scanPc>>

States    == {"IDLE", "ACTIVE"}
GamePcs   == {"out", "raise", "arm", "announce", "lower", "disarm", "tier4"}
CallerPcs == {"out", "arm", "announce", "wake"}
ScanPcs   == {"wait", "clear", "check", "scan"}

TypeOK ==
    /\ state \in States
    /\ pollerActive \in BOOLEAN
    /\ lowStreak \in 0..IdleAfter
    /\ triggerCount \in 0..MaxTriggers
    /\ wake \in BOOLEAN
    /\ gamePc \in GamePcs
    /\ gameSaw \in BOOLEAN
    /\ scoreHigh \in BOOLEAN
    /\ callerPc \in [Callers -> CallerPcs]
    /\ scanPc \in ScanPcs
    /\ activations \in 0..MaxTriggers
    /\ hadHigh \in BOOLEAN

Init ==
    /\ state = "IDLE"
    /\ pollerActive = FALSE
    /\ lowStreak = 0
    /\ triggerCount = 0
    /\ wake = FALSE
    /\ gamePc = "out"
    /\ gameSaw = FALSE
    /\ scoreHigh = FALSE
    /\ callerPc = [c \in Callers |-> "out"]
    /\ scanPc = "wait"
    /\ activations = 0
    /\ hadHigh = FALSE

OneMore(n) == IF n < MaxTriggers THEN n + 1 ELSE n

GoActive ==
    /\ state' = "ACTIVE"
    /\ activations' = IF state = "IDLE" THEN OneMore(activations) ELSE activations

-----------------------------------------------------------------------------
(* notify_score(), in the game thread.  _low_streak belongs to that thread *)
(* and is only compared with IdleAfter, so it is counted up to it.         *)
GameMoves(from, to) == gamePc = from /\ gamePc' = to

OneMoreLow == IF lowStreak < IdleAfter THEN lowStreak + 1 ELSE IdleAfter

(* Mutation: the streak is reset to one below zero. *)
NotifyHighBadReset ==
    /\ GameMoves("out", IF state = "ACTIVE" THEN "tier4" ELSE "raise")
    /\ gameSaw' = (state = "ACTIVE")
    /\ lowStreak' = -1
    /\ scoreHigh' = TRUE
    /\ hadHigh' = TRUE
    /\ UNCHANGED <<state, pollerActive, wake, triggerCount, activations,
                   callerPc, scanPc>>

NotifyHigh ==
    /\ GameMoves("out", IF state = "ACTIVE" THEN "tier4" ELSE "raise")
    /\ gameSaw' = (state = "ACTIVE")
    /\ lowStreak' = 0
    /\ scoreHigh' = TRUE
    /\ hadHigh' = TRUE
    /\ UNCHANGED <<state, pollerActive, wake, triggerCount, activations,
                   callerPc, scanPc>>

(* Mutation: off by one in the comparison with idle_after_epochs. *)
NotifyLowTooEarly ==
    /\ lowStreak' = OneMoreLow
    /\ GameMoves("out", IF state = "ACTIVE" /\ lowStreak' >= IdleAfter - 1
                        THEN "lower" ELSE "tier4")
    /\ gameSaw' = (state = "ACTIVE")
    /\ scoreHigh' = FALSE
    /\ UNCHANGED <<state, pollerActive, wake, triggerCount, activations,
                   callerPc, scanPc, hadHigh>>

NotifyLow ==
    /\ lowStreak' = OneMoreLow
    /\ GameMoves("out", IF state = "ACTIVE" /\ lowStreak' >= IdleAfter
                        THEN "lower" ELSE "tier4")
    /\ gameSaw' = (state = "ACTIVE")
    /\ scoreHigh' = FALSE
    /\ UNCHANGED <<state, pollerActive, wake, triggerCount, activations,
                   callerPc, scanPc, hadHigh>>

Raise ==
    /\ GameMoves("raise", "arm")
    /\ GoActive
    /\ UNCHANGED <<pollerActive, wake, triggerCount, gameSaw, scoreHigh,
                   lowStreak, hadHigh, callerPc, scanPc>>

Arm ==
    /\ GameMoves("arm", "announce")
    /\ pollerActive' = TRUE
    /\ UNCHANGED <<state, wake, triggerCount, activations, gameSaw, scoreHigh,
                   lowStreak, hadHigh, callerPc, scanPc>>

Announce ==
    /\ GameMoves("announce", "tier4")
    /\ triggerCount' = OneMore(triggerCount)
    /\ wake' = TRUE
    /\ UNCHANGED <<state, pollerActive, activations, gameSaw, scoreHigh,
                   lowStreak, hadHigh, callerPc, scanPc>>

(* Mutation: the poller is disarmed and the state left as it was. *)
LowerKeepsState ==
    /\ GameMoves("lower", "disarm")
    /\ UNCHANGED <<state, pollerActive, wake, triggerCount, activations, gameSaw,
                   scoreHigh, lowStreak, hadHigh, callerPc, scanPc>>

Lower ==
    /\ GameMoves("lower", "disarm")
    /\ state' = "IDLE"
    /\ UNCHANGED <<pollerActive, wake, triggerCount, activations, gameSaw,
                   scoreHigh, lowStreak, hadHigh, callerPc, scanPc>>

Disarm ==
    /\ GameMoves("disarm", "tier4")
    /\ pollerActive' = FALSE
    /\ UNCHANGED <<state, wake, triggerCount, activations, gameSaw, scoreHigh,
                   lowStreak, hadHigh, callerPc, scanPc>>

(* the end of the call, after the Tier 4 scan; each hit of that scan is a  *)
(* Rouse                                                                   *)
Tier4 ==
    /\ GameMoves("tier4", "out")
    /\ gameSaw' = FALSE
    /\ UNCHANGED <<state, pollerActive, wake, triggerCount, activations,
                   scoreHigh, lowStreak, hadHigh, callerPc, scanPc>>

GameStep == NotifyHigh \/ NotifyLow \/ Raise \/ Arm \/ Announce \/ Lower
               \/ Disarm \/ Tier4

-----------------------------------------------------------------------------
(* _force_active(), in a Timer thread *)
CallerMoves(c, from, to) ==
    /\ callerPc[c] = from
    /\ callerPc' = [callerPc EXCEPT ![c] = to]

(* Mutation: already_active is read after the state has been written. *)
ForceActiveReadsLate(c) ==
    /\ CallerMoves(c, "out", "wake")
    /\ GoActive
    /\ UNCHANGED <<pollerActive, wake, triggerCount, gameVars, scanPc>>

ForceActive(c) ==
    /\ CallerMoves(c, "out", IF state = "ACTIVE" THEN "wake" ELSE "arm")
    /\ GoActive
    /\ UNCHANGED <<pollerActive, wake, triggerCount, gameVars, scanPc>>

ForceArm(c) ==
    /\ CallerMoves(c, "arm", "announce")
    /\ pollerActive' = TRUE
    /\ UNCHANGED <<state, wake, triggerCount, activations, gameVars, scanPc>>

ForceAnnounce(c) ==
    /\ CallerMoves(c, "announce", "out")
    /\ triggerCount' = OneMore(triggerCount)
    /\ wake' = TRUE
    /\ UNCHANGED <<state, pollerActive, activations, gameVars, scanPc>>

ForceWake(c) ==
    /\ CallerMoves(c, "wake", "out")
    /\ wake' = TRUE
    /\ UNCHANGED <<state, pollerActive, triggerCount, activations, gameVars, scanPc>>

CallerStep(c) == ForceArm(c) \/ ForceAnnounce(c) \/ ForceWake(c)

-----------------------------------------------------------------------------
(* _scan_loop(), in the scan thread *)
ScanMoves(from, to) == scanPc = from /\ scanPc' = to

(* wait() returns because the event is set or because hunter_interval has  *)
(* elapsed                                                                 *)
ScanWait ==
    /\ ScanMoves("wait", "clear")
    /\ UNCHANGED <<state, pollerActive, wake, triggerCount, activations,
                   gameVars, callerPc>>

ScanClear ==
    /\ ScanMoves("clear", "check")
    /\ wake' = FALSE
    /\ UNCHANGED <<state, pollerActive, triggerCount, activations, gameVars,
                   callerPc>>

ScanCheck ==
    /\ ScanMoves("check", IF state = "ACTIVE" THEN "scan" ELSE "wait")
    /\ UNCHANGED <<state, pollerActive, wake, triggerCount, activations,
                   gameVars, callerPc>>

(* Mutation: the event is cleared after the scan. *)
ScanReturnClears ==
    /\ ScanMoves("scan", "wait")
    /\ wake' = FALSE
    /\ UNCHANGED <<state, pollerActive, triggerCount, activations, gameVars,
                   callerPc>>

ScanReturn ==
    /\ ScanMoves("scan", "wait")
    /\ UNCHANGED <<state, pollerActive, wake, triggerCount, activations,
                   gameVars, callerPc>>

ScanStep == ScanWait \/ ScanClear \/ ScanCheck \/ ScanReturn

-----------------------------------------------------------------------------
(* A producer that has queued a detection sets the wake event:             *)
(* _on_mem_open() after its snapshots, _on_vmreadv_hit(), Tier 4.          *)
Rouse ==
    /\ wake' = TRUE
    /\ UNCHANGED <<state, pollerActive, triggerCount, activations, gameVars,
                   callerPc, scanPc>>

Next == GameStep \/ ScanStep \/ Rouse
          \/ \E c \in Callers : ForceActive(c) \/ CallerStep(c)

(* The game loop keeps calling notify_score(), a thread inside a handler   *)
(* leaves it and the scan thread keeps running once it is woken; nothing   *)
(* makes an IN_OPEN arrive, and no wait() need end by its timeout.         *)
ScanAwake == (scanPc = "wait" => wake) /\ ScanStep

Fairness ==
    /\ WF_vars(GameStep)
    /\ WF_vars(ScanAwake)
    /\ \A c \in Callers : WF_vars(CallerStep(c))

Spec     == Init /\ [][Next]_vars
FairSpec == Spec /\ Fairness

-----------------------------------------------------------------------------
(* Correctness properties *)

(* Once a score has reached trigger_score, the hunter is ACTIVE between    *)
(* two calls of notify_score() until IdleAfter LOW epochs have followed,   *)
(* whatever the Timer threads do in the middle of those calls.             *)
ScoreKeepsActive ==
    hadHigh /\ gamePc = "out" /\ lowStreak < IdleAfter => state = "ACTIVE"

(* Threads that have activated the hunter, or think they have, and not yet *)
(* counted it.                                                             *)
Uncounted ==
    Cardinality({c \in Callers : callerPc[c] \in {"arm", "announce"}})
      + (IF gamePc \in {"arm", "announce"} THEN 1 ELSE 0)

(* trigger_count never misses an activation: each change to ACTIVE has     *)
(* been counted or is about to be by the thread that made it.  (Both count *)
(* up to MaxTriggers, so nothing is said once trigger_count is there.)     *)
ActivationsCounted == activations <= triggerCount + Uncounted

(* A wake set while the hunter is ACTIVE, be it in the middle of a scan,   *)
(* brings the scan thread to a new look at the state and from there to a   *)
(* new scan, unless the hunter goes IDLE.  As the timeout of wait() is not *)
(* relied on, _wake_event.clear() must never lose it.                      *)
WakeServed ==
    /\ wake /\ state = "ACTIVE" ~> scanPc = "check" \/ state = "IDLE"
    /\ scanPc = "check" /\ state = "ACTIVE" ~> scanPc = "scan" \/ state = "IDLE"

(* When scores stay LOW and no IN_OPEN arrives, the hunter ends up IDLE.   *)
ReturnsToIdle ==
    <>[](~scoreHigh /\ \A c \in Callers : callerPc[c] = "out")
        => <>[](state = "IDLE")
=============================================================================
