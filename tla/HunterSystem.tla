----------------------------- MODULE HunterSystem -----------------------------
(***************************************************************************)
(* The observer hunter from the inotify event to the activation:           *)
(* InotifyWatcher (Tier 1) and HunterActivation (IDLE/ACTIVE) composed as  *)
(* class ObserverHunter composes them (src/python_prototype/               *)
(* phase1_tracker.py).                                                     *)
(*                                                                         *)
(* Two couplings make the composition more than the sum of its parts:      *)
(*   - the Timer thread that runs _fire_open() is the thread that runs     *)
(*     _on_mem_open() and so _force_active(), between the setting of       *)
(*     _scanning and its clearing;                                         *)
(*   - the walks over /proc/*/fd that an ACTIVE hunter makes (Phase B of   *)
(*     the scan thread, Tier 4 of the game thread, the callback's own) can *)
(*     post IN_OPEN events, which come back through the watcher.           *)
(***************************************************************************)
EXTENDS Naturals, Sequences, FiniteSets

CONSTANTS
    Readers, Timers, NoTimer, MaxQueue,   \* of InotifyWatcher
    IdleAfter, MaxTriggers                \* of HunterActivation

ASSUME TimersAssumption == IsFiniteSet(Timers) /\ NoTimer \notin Timers
ASSUME BoundsAssumption ==
    MaxQueue \in Nat \ {0} /\ IdleAfter \in Nat \ {0} /\ MaxTriggers \in Nat

VARIABLES
    (* InotifyWatcher *)
    held, queue, batch, runPc, debounceActive, debounceTimer, scanning,
    timerPc, stopped, detected,
    (* HunterActivation, its Callers being the Timer threads *)
    state, pollerActive, lowStreak, triggerCount, wake, gamePc, gameSaw,
    scoreHigh, callerPc, scanPc, activations, hadHigh,
    todo,    \* what each Timer thread still has to do in _on_mem_open()
    hadOpen  \* auxiliary: a foreign process has opened or read our mem file

Watcher    == INSTANCE InotifyWatcher
Activation == INSTANCE HunterActivation WITH Callers <- Timers

watcherVars == <<held, queue, batch, runPc, debounceActive, debounceTimer,
                 scanning, timerPc, stopped, detected>>
activationVars == <<state, pollerActive, wake, triggerCount, activations,
                    gamePc, gameSaw, scoreHigh, lowStreak, hadHigh, callerPc,
                    scanPc>>
vars == <<watcherVars, activationVars, todo, hadOpen>>

(* activate: about to call _force_active(); post: the hits of the listing  *)
(* have yet to be queued                                                   *)
Todos == {"nothing", "activate", "activateAndPost", "post"}

TypeOK == todo \in [Timers -> Todos] /\ hadOpen \in BOOLEAN

Init ==
    /\ Watcher!Init
    /\ Activation!Init
    /\ todo = [t \in Timers |-> "nothing"]
    /\ hadOpen = FALSE

Owes(t, what) == todo' = [todo EXCEPT ![t] = what]

-----------------------------------------------------------------------------
(* A foreign process opens, reads or closes /proc/<pid>/mem. *)
ReaderStep(r) ==
    /\ \/ (Watcher!ReaderOpen(r) \/ Watcher!ReaderRead(r)) /\ hadOpen' = TRUE
       \/ Watcher!ReaderClose(r) /\ UNCHANGED hadOpen
    /\ UNCHANGED <<activationVars, todo>>

(* Mutation: Tier 4 walks in every epoch, ACTIVE or not. *)
WalkingIdleToo ==
    \/ \E t \in Timers : timerPc[t] = "calling"
    \/ scanPc = "scan"
    \/ gamePc = "tier4"

(* a thread of ours is inside _find_foreign_mem_handles() *)
Walking ==
    \/ \E t \in Timers : timerPc[t] = "calling"
    \/ scanPc = "scan"
    \/ gamePc = "tier4" /\ gameSaw

OwnWalk == Walking /\ Watcher!SelfOpen /\ UNCHANGED <<activationVars, todo, hadOpen>>

-----------------------------------------------------------------------------
(* _on_mem_open(), in a Timer thread: the listing, then _force_active() on *)
(* every path, then the snapshots.  Readers of higher privilege are left   *)
(* to ObserverHunter.                                                      *)
List(t) ==
    /\ Watcher!Callback(t)
    /\ Owes(t, IF held = {} THEN "activate" ELSE "activateAndPost")
    /\ UNCHANGED <<activationVars, hadOpen>>

(* Mutation: the "no fd found" path returns without _force_active(), as    *)
(* the module docstring has it.                                            *)
ActivateHitsOnly(t) ==
    /\ \/ /\ todo[t] = "activate"
          /\ UNCHANGED activationVars
       \/ /\ todo[t] = "activateAndPost"
          /\ Activation!ForceActive(t)
    /\ Owes(t, IF todo[t] = "activate" THEN "nothing" ELSE "post")
    /\ UNCHANGED <<watcherVars, hadOpen>>

Activate(t) ==
    /\ todo[t] \in {"activate", "activateAndPost"}
    /\ Activation!ForceActive(t)
    /\ Owes(t, IF todo[t] = "activate" THEN "nothing" ELSE "post")
    /\ UNCHANGED <<watcherVars, hadOpen>>

(* the rest of _force_active() *)
Activating(t) ==
    /\ Activation!CallerStep(t)
    /\ UNCHANGED <<watcherVars, todo, hadOpen>>

(* Mutation: the hits are queued once more than the Timer thread owes. *)
PostTwice(t) ==
    /\ todo[t] = "post" /\ callerPc[t] = "out"
    /\ Activation!Rouse
    /\ Owes(t, "postAgain")
    /\ UNCHANGED <<watcherVars, hadOpen>>

Post(t) ==
    /\ todo[t] = "post" /\ callerPc[t] = "out"
    /\ Activation!Rouse
    /\ Owes(t, "nothing")
    /\ UNCHANGED <<watcherVars, hadOpen>>

(* Mutation: the callback waits until the scan thread has taken the wake. *)
ReturnAfterScan(t) ==
    /\ todo[t] = "nothing" /\ callerPc[t] = "out" /\ ~wake
    /\ Watcher!ClearGuard(t)
    /\ UNCHANGED <<activationVars, todo, hadOpen>>

Return(t) ==
    /\ todo[t] = "nothing" /\ callerPc[t] = "out"
    /\ Watcher!ClearGuard(t)
    /\ UNCHANGED <<activationVars, todo, hadOpen>>

Before(t) ==
    /\ \/ Watcher!Expire(t) \/ Watcher!TestGuard(t) \/ Watcher!ResetGate(t)
       \/ Watcher!SetGuard(t)
    /\ UNCHANGED <<activationVars, todo, hadOpen>>

TimerStep(t) == Before(t) \/ List(t) \/ Activate(t) \/ Activating(t) \/ Post(t)
                   \/ Return(t)

-----------------------------------------------------------------------------
RunStep == Watcher!RunStep /\ UNCHANGED <<activationVars, todo, hadOpen>>

(* stop() closes the inotify descriptor; nothing joins a Timer thread *)
Stop == Watcher!Stop /\ UNCHANGED <<activationVars, todo, hadOpen>>

(* notify_score() and _scan_loop(); the hits of Tier 4 rouse the scan *)
GameStep == Activation!GameStep /\ UNCHANGED <<watcherVars, todo, hadOpen>>
ScanStep == Activation!ScanStep /\ UNCHANGED <<watcherVars, todo, hadOpen>>

Tier4Hit ==
    /\ gamePc = "tier4" /\ gameSaw /\ held # {}
    /\ Activation!Rouse
    /\ UNCHANGED <<watcherVars, todo, hadOpen>>

Next == RunStep \/ Stop \/ OwnWalk \/ GameStep \/ ScanStep \/ Tier4Hit
          \/ (\E r \in Readers : ReaderStep(r))
          \/ (\E t \in Timers : TimerStep(t))

(* The watcher thread and the Timer threads keep running; nothing is asked *)
(* of the game thread and the scan thread.                                 *)
Fairness == WF_vars(RunStep) /\ \A t \in Timers : WF_vars(TimerStep(t))

Spec     == Init /\ [][Next]_vars
FairSpec == Spec /\ Fairness

-----------------------------------------------------------------------------
(* Correctness properties *)

(* No false alarm out of nothing: with no foreign access to our mem file   *)
(* and no score ever at trigger_score, the hunter is IDLE.  The walks of   *)
(* an ACTIVE hunter post events of their own, so this rests on an IDLE     *)
(* hunter never walking.                                                   *)
NoCauseNoAlarm ==
    ~hadOpen /\ ~hadHigh => state = "IDLE" /\ \A t \in Timers : timerPc[t] = "free"

(* _force_active() only runs inside the callback of a Timer thread, so     *)
(* that a thread that has left _fire_open() owes the hunter nothing.       *)
ActivationInCallback ==
    \A t \in Timers : todo[t] # "nothing" \/ callerPc[t] # "out"
                          => timerPc[t] = "returning"

(* From the event to the activation: an IN_OPEN that waits while no        *)
(* callback is past its listing and no timer is giving up ends with the    *)
(* hunter ACTIVE, even when the reader has gone before the listing, unless *)
(* an IN_CLOSE cancels the timer or the hunter is shut down.               *)
OpenActivates ==
    ( /\ "open" \in {queue[i] : i \in 1..Len(queue)}
      /\ ~scanning
      /\ \A t \in Timers : timerPc[t] \notin {"returning", "dropping"} )
    ~> (state = "ACTIVE" \/ Watcher!CloseSeen \/ stopped \/ runPc = "done")

(* After stop() has closed the descriptor, the events already read are     *)
(* worked off and every Timer thread ends, although the hunter may still   *)
(* be ACTIVE and walk: from then on nothing but a score activates it.      *)
StopQuiesces ==
    stopped ~> [](\A t \in Timers : timerPc[t] = "free")

(* module docstring, on the IN_OPEN that a walk of ours posts: "The        *)
(* inotify callback discards any hit whose only matching PIDs are the      *)
(* prototype itself (own_pid), treating it as outcome (c) - silent, no     *)
(* wake, no dossier update": as long as no foreign process has touched the *)
(* mem file, no callback activates the hunter.                             *)
SelfOpenSilent == ~hadOpen => \A t \in Timers : callerPc[t] = "out"
=============================================================================
