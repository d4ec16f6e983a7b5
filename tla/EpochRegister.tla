---------------------------- MODULE EpochRegister ----------------------------
(***************************************************************************)
(* The shared register of the prototypes of phase 5, 6 and 7 and its       *)
(* threads: CoherenceWindowRegister (phase5_prototype.py),                 *)
(* PollTelemetryRegister (phase6_prototype.py) and AdaptivePoisonRegister  *)
(* (phase7_prototype.py), each of which extends the one before it:         *)
(*   5  a scrub thread overwrites the real buffer one coherence window     *)
(*      after a swap, without a lock;                                      *)
(*   6  the scrub is made under _buf_lock, a telemetry thread samples a    *)
(*      canary inside the buffer, an optional observer thread changes it;  *)
(*   7  poison mode: hits in a suspicious rhythm enlarge the ring of       *)
(*      decoys for a number of epochs.                                     *)
(* Phases 8 and 9 keep these threads.  Buffers are counted as they are     *)
(* published; of their bytes only the canary and "scrubbed" are kept.  A   *)
(* block under _buf_lock is one step.                                      *)
(***************************************************************************)
EXTENDS Integers

CONSTANTS
    Versions,     \* the phases to look at
    MaxBuffers,   \* bound on the buffers published: gameinit()'s and the swaps'
    Threshold,    \* SUSPICION_HIT_THRESHOLD; hits are counted up to it
    Hold,         \* POISON_HOLD_EPOCHS
    BaseDecoys, MaxDecoys,  \* BASE_DECOYS (N_DECOYS in phases 5 and 6), MAX_DECOYS
    Observer      \* SIMULATE_OBSERVER

ASSUME VersionsAssumption == Versions \subseteq 5..7
ASSUME NumbersAssumption ==
    /\ MaxBuffers \in Nat \ {0} /\ Threshold \in Nat \ {0, 1} /\ Hold \in Nat
    /\ BaseDecoys \in Nat \ {0} /\ MaxDecoys \in Nat /\ MaxDecoys >= BaseDecoys
ASSUME ObserverAssumption == Observer \in BOOLEAN

VARIABLES
    version,      \* the prototype that is running
    gamePc,       \* the main thread: __init__, sync_shared, swap_shared, stop
    published,    \* buffers published so far; _active_buf is the last of them
    scrubbed,     \* _active_buf has been overwritten with noise
    scrubEvent,   \* _scrub_event
    stopEvent,    \* _stop_event
    scrubPc, grabbed,                 \* the scrub thread, its _active_buf (5)
    canary,       \* the canary bytes of _active_buf
    telPc, sample, lastCanary, hits,  \* the telemetry thread
    observerPc,
    decoys, decoyIdx,                 \* len(_decoys), _decoy_idx
    poisonUntil, activations,         \* _poison_active_until_epoch, _poison_activations
    activatedAt   \* history: the epoch of the last of these activations

poisonVars   == <<decoys, decoyIdx, poisonUntil, activations, activatedAt>>
telVars      == <<telPc, sample, lastCanary, hits>>
scrubVars    == <<scrubPc, grabbed>>
vars == <<version, gamePc, published, scrubbed, scrubEvent, stopEvent, scrubVars,
          canary, telVars, observerPc, poisonVars>>

(* Canary values: the zeros of a new buffer, _canary_seed, and noise; four *)
(* of the latter leave one that no variable holds.                         *)
Noises   == {"n1", "n2", "n3", "n4"}
Canaries == {"zero", "seed"} \cup Noises

ThreadPcs == {"unborn", "top", "gone"}

TypeOK ==
    /\ version \in Versions
    /\ gamePc \in {"construct", "attributes", "update", "publish", "signal",
                   "stopping", "done"}
    /\ published \in 0..MaxBuffers
    /\ grabbed \in 0..MaxBuffers
    /\ scrubbed \in BOOLEAN /\ scrubEvent \in BOOLEAN /\ stopEvent \in BOOLEAN
    /\ scrubPc \in ThreadPcs \cup {"wait", "clear", "sleep", "write"}
    /\ canary \in Canaries /\ sample \in Canaries /\ lastCanary \in Canaries
    /\ telPc \in ThreadPcs \cup {"read", "compare"}
    /\ hits \in 0..Threshold
    /\ observerPc \in ThreadPcs \cup {"flip"}
    /\ decoys \in {BaseDecoys, MaxDecoys} /\ decoyIdx \in Nat
    /\ poisonUntil \in Int /\ activations \in Nat /\ activatedAt \in Int

Init ==
    /\ version \in Versions
    /\ gamePc = "construct"
    /\ published = 0 /\ scrubbed = FALSE
    /\ scrubEvent = FALSE /\ stopEvent = FALSE
    /\ scrubPc = "unborn" /\ grabbed = 0
    /\ canary = "zero" /\ sample = "zero" /\ lastCanary = "zero" /\ hits = 0
    /\ telPc = "unborn" /\ observerPc = "unborn"
    /\ decoys = BaseDecoys /\ decoyIdx = 0
    /\ poisonUntil = -1 /\ activations = 0
    /\ activatedAt = -(Hold + 1)

GameMoves(from, to) == gamePc = from /\ gamePc' = to

HasTelemetry == version >= 6
HasPoison    == version >= 7

-----------------------------------------------------------------------------
(* The main thread.  __init__ starts the threads before it assigns the     *)
(* attributes that the telemetry thread uses.                              *)
Construct ==
    /\ GameMoves("construct", "attributes")
    /\ scrubPc' = "top"
    /\ telPc' = IF HasTelemetry THEN "top" ELSE "gone"
    /\ UNCHANGED <<version, published, scrubbed, scrubEvent, stopEvent, grabbed,
                   canary, sample, lastCanary, hits, observerPc, poisonVars>>

Attributes ==
    /\ GameMoves("attributes", "update")
    /\ observerPc' = IF Observer /\ HasTelemetry THEN "top" ELSE "gone"
    /\ UNCHANGED <<version, published, scrubbed, scrubEvent, stopEvent, scrubVars,
                   canary, telVars, poisonVars>>

Ready == gamePc \notin {"construct", "attributes"}

(* the epoch argument of the call in progress: 0 for sync_shared(0, 0) and *)
(* again for the first swap                                                *)
Epoch == IF published = 0 THEN 0 ELSE published - 1

(* Mutation: pop() without the correction of the index. *)
EnsureCapacityKeepsIndex(target) == decoys' = target /\ UNCHANGED decoyIdx

(* _ensure_decoy_capacity() *)
EnsureCapacity(target) == decoys' = target /\ decoyIdx' = decoyIdx % target

(* Mutation: an activation is counted in every suspicious epoch. *)
CountedEvery(suspicious) == IF suspicious THEN activations + 1 ELSE activations

Counted(suspicious) ==
    IF suspicious /\ Epoch > poisonUntil THEN activations + 1 ELSE activations

(* _update_poison_state(); the mean period is any once there are hits      *)
UpdatePoison ==
    \E suspicious \in BOOLEAN :
       /\ suspicious => hits >= Threshold
       /\ activations' = Counted(suspicious)
       /\ activatedAt' = IF activations' = activations THEN activatedAt ELSE Epoch
       /\ poisonUntil' = IF suspicious THEN Epoch + Hold ELSE poisonUntil
       /\ EnsureCapacity(IF Epoch <= poisonUntil' THEN MaxDecoys ELSE BaseDecoys)

Update ==
    /\ GameMoves("update", "publish")
    /\ IF HasPoison THEN UpdatePoison ELSE UNCHANGED poisonVars
    /\ UNCHANGED <<version, published, scrubbed, scrubEvent, stopEvent, scrubVars,
                   canary, telVars, observerPc>>

(* sync_shared() writes the constructor's buffer, swap_shared() a new one  *)
Publish ==
    /\ GameMoves("publish", "signal")
    /\ published < MaxBuffers
    /\ published' = published + 1
    /\ scrubbed' = FALSE
    /\ canary' = IF HasTelemetry THEN "seed" ELSE canary
    /\ UNCHANGED <<version, scrubEvent, stopEvent, scrubVars, telVars, observerPc,
                   poisonVars>>

(* swap_shared() renews one decoy; then both start the scrub's countdown *)
Signal ==
    /\ GameMoves("signal", "update")
    /\ scrubEvent' = TRUE
    /\ decoyIdx' = IF published = 1 THEN decoyIdx ELSE (decoyIdx + 1) % decoys
    /\ UNCHANGED <<version, published, scrubbed, stopEvent, scrubVars, canary,
                   telVars, observerPc, decoys, poisonUntil, activations, activatedAt>>

(* stop(), at the end of gameloop() or wherever a KeyboardInterrupt hits it *)
StopGame ==
    /\ gamePc \in {"update", "publish", "signal"} /\ published > 0
    /\ gamePc' = "stopping"
    /\ stopEvent' = TRUE
    /\ UNCHANGED <<version, published, scrubbed, scrubEvent, scrubVars, canary,
                   telVars, observerPc, poisonVars>>

StopScrub ==
    /\ GameMoves("stopping", "done")
    /\ scrubEvent' = TRUE
    /\ UNCHANGED <<version, published, scrubbed, stopEvent, scrubVars, canary,
                   telVars, observerPc, poisonVars>>

GameStep == Construct \/ Attributes \/ Update \/ Publish \/ Signal \/ StopGame
              \/ StopScrub

-----------------------------------------------------------------------------
(* The scrub thread *)
ScrubMoves(from, to) ==
    /\ scrubPc = from /\ scrubPc' = to
    /\ UNCHANGED <<version, gamePc, published, stopEvent, telVars, observerPc,
                   poisonVars>>

ScrubLoop ==
    /\ ScrubMoves("top", IF stopEvent THEN "gone" ELSE "wait")
    /\ UNCHANGED <<scrubbed, scrubEvent, grabbed, canary>>

(* wait(timeout=1.0) *)
ScrubWait ==
    /\ ScrubMoves("wait", IF scrubEvent THEN "clear" ELSE "top")
    /\ UNCHANGED <<scrubbed, scrubEvent, grabbed, canary>>

ScrubClear ==
    /\ ScrubMoves("clear", "sleep")
    /\ scrubEvent' = FALSE
    /\ UNCHANGED <<scrubbed, grabbed, canary>>

(* after the coherence window; phase 5 evaluates _active_buf here *)
ScrubAwake ==
    /\ ScrubMoves("sleep", IF stopEvent THEN "gone" ELSE "write")
    /\ grabbed' = published
    /\ UNCHANGED <<scrubbed, scrubEvent, canary>>

(* new noise, equal to no value in sight *)
Fresh == CHOOSE n \in Noises : n \notin {canary, sample, lastCanary}

(* Mutation: the event is cleared after the scrub instead of before it. *)
ScrubGrabbedThenClear ==
    /\ version = 5
    /\ ScrubMoves("write", "top")
    /\ scrubbed' = (scrubbed \/ grabbed = published)
    /\ scrubEvent' = FALSE
    /\ UNCHANGED <<grabbed, canary>>

(* Phase 5: scrub_buffer() writes the buffer it was given *)
ScrubGrabbed ==
    /\ version = 5
    /\ ScrubMoves("write", "top")
    /\ scrubbed' = (scrubbed \/ grabbed = published)
    /\ UNCHANGED <<scrubEvent, grabbed, canary>>

(* Phases 6 and 7: under _buf_lock the active buffer, with its canary *)
ScrubActive ==
    /\ version >= 6
    /\ ScrubMoves("write", "top")
    /\ scrubbed' = TRUE
    /\ canary' = Fresh
    /\ UNCHANGED <<scrubEvent, grabbed>>

ScrubStep == ScrubLoop \/ ScrubWait \/ ScrubClear \/ ScrubAwake \/ ScrubGrabbed
               \/ ScrubActive

-----------------------------------------------------------------------------
(* The telemetry thread *)
TelMoves(from, to) ==
    /\ telPc = from /\ telPc' = to
    /\ UNCHANGED <<version, gamePc, published, scrubbed, scrubEvent, stopEvent,
                   scrubVars, canary, observerPc, poisonVars>>

TelemetryLoop ==
    /\ TelMoves("top", IF stopEvent THEN "gone" ELSE "read")
    /\ UNCHANGED <<sample, lastCanary, hits>>

TelemetryRead ==
    /\ TelMoves("read", "compare")
    /\ sample' = canary
    /\ UNCHANGED <<lastCanary, hits>>

(* _last_canary does not exist before __init__ has got to it: the thread   *)
(* then dies of an AttributeError                                          *)
TelemetryDie ==
    /\ ~Ready
    /\ TelMoves("compare", "gone")
    /\ UNCHANGED <<sample, lastCanary, hits>>

TelemetryCompare ==
    /\ Ready
    /\ TelMoves("compare", "top")
    /\ hits' = IF sample # lastCanary /\ hits < Threshold THEN hits + 1 ELSE hits
    /\ lastCanary' = sample
    /\ UNCHANGED sample

TelemetryStep == TelemetryLoop \/ TelemetryRead \/ TelemetryDie \/ TelemetryCompare

(* The simulated observer changes one bit of the canary, under the lock, or *)
(* changes it back                                                          *)
ObserverLoop ==
    /\ observerPc = "top"
    /\ observerPc' = IF stopEvent THEN "gone" ELSE "flip"
    /\ UNCHANGED <<version, gamePc, published, scrubbed, scrubEvent, stopEvent,
                   scrubVars, canary, telVars, poisonVars>>

ObserverFlip ==
    /\ observerPc = "flip" /\ observerPc' = "top"
    /\ canary' \in {Fresh, "seed"} \ {canary}
    /\ UNCHANGED <<version, gamePc, published, scrubbed, scrubEvent, stopEvent,
                   scrubVars, telVars, poisonVars>>

Next == GameStep \/ ScrubStep \/ TelemetryStep \/ ObserverLoop \/ ObserverFlip

Spec     == Init /\ [][Next]_vars
(* a daemon thread, never blocked for longer than its timeout *)
FairSpec == Spec /\ WF_vars(ScrubStep)

-----------------------------------------------------------------------------
(* Correctness properties *)

(* swap_shared() indexes _decoys with _decoy_idx: the ring shrinks from    *)
(* MAX_DECOYS to BASE_DECOYS when the poison mode ends, with the index     *)
(* anywhere in the larger ring.                                            *)
DecoyIndexInRange == decoyIdx < decoys

(* Poison mode is activated once per episode: a suspicious epoch extends   *)
(* the episode it falls in, so that any two activations are more than      *)
(* POISON_HOLD_EPOCHS epochs apart, however the canary hits arrive.        *)
ActivationsSpaced ==
    [][activations' # activations => Epoch - activatedAt > Hold]_vars

(* class CoherenceWindowRegister: "short-lived coherence windows".  Every  *)
(* buffer whose countdown has been started is overwritten with noise, or   *)
(* replaced, or the program stops: no signal is lost between the wait and  *)
(* the clear of the event, nor by the scrub that a late signal meets.      *)
BufferScrubbed ==
    \A b \in 1..MaxBuffers :
        published = b /\ gamePc = "update"
            ~> scrubbed \/ published # b \/ stopEvent
=============================================================================
