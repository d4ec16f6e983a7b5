---------------------------- MODULE InotifyWatcher ----------------------------
(***************************************************************************)
(* Tier 1 of the observer hunter: class _InotifyMemWatcher of              *)
(* src/python_prototype/phase1_tracker.py.                                 *)
(*                                                                         *)
(* Three kinds of actor interleave:                                        *)
(*   - the kernel and the foreign readers, which open and close            *)
(*     /proc/<pid>/mem and so post IN_OPEN / IN_CLOSE events;              *)
(*   - the watcher thread _run(), which reads a batch of events and opens  *)
(*     or resets the debounce gate;                                        *)
(*   - the threading.Timer threads, each of which runs _fire_open() once.  *)
(*                                                                         *)
(* A step is what the code does between two points where another thread    *)
(* can get in: a block under _debounce_lock, one Event.set/clear/is_set,   *)
(* one listing of /proc/*/fd.                                              *)
(***************************************************************************)
EXTENDS Naturals, Sequences, SequencesExt

CONSTANTS
    Readers,    \* the foreign processes that may open /proc/<pid>/mem
    Timers,     \* identities of the Timer threads alive at one time (a bound)
    NoTimer,    \* _debounce_timer is None
    MaxQueue    \* bound on the events waiting in the inotify descriptor

ASSUME TimersAssumption == NoTimer \notin Timers
ASSUME MaxQueueAssumption == MaxQueue \in Nat \ {0}

VARIABLES
    held,            \* readers whose descriptor on our mem file is open
    queue,           \* events posted by the kernel and not yet read
    batch,           \* events of the buffer _run() is parsing
    runPc,           \* where the watcher thread is
    debounceActive,  \* self._debounce_active
    debounceTimer,   \* self._debounce_timer
    scanning,        \* self._scanning
    timerPc,         \* where each Timer thread is
    stopped,         \* self._stop, and the inotify descriptor closed
    detected         \* readers some callback found in its fd listing

gate    == <<debounceActive, debounceTimer>>
runVars == <<queue, batch, runPc>>
vars    == <<held, queue, batch, runPc, debounceActive, debounceTimer,
             scanning, timerPc, stopped, detected>>

(* "arm": admitted by Layer 1, about to take _debounce_lock *)
RunPcs == {"loop", "arm", "done"}

(* free: no such thread; counting: the 0.1 s have not elapsed; fired: at   *)
(* the Layer 2 test; dropping / resetting: about to take _debounce_lock;   *)
(* guarding: about to set _scanning; calling: in on_open_cb before its fd  *)
(* listing; returning: after it, before _scanning.clear()                  *)
TimerPcs == {"free", "counting", "fired", "dropping", "resetting",
             "guarding", "calling", "returning"}

Events == {"open", "close"}

TypeOK ==
    /\ held \subseteq Readers
    /\ queue \in Seq(Events)
    /\ batch \in Seq(Events)
    /\ runPc \in RunPcs
    /\ runPc = "arm" => batch # <<>>
    /\ debounceActive \in BOOLEAN
    /\ debounceTimer \in Timers \cup {NoTimer}
    /\ scanning \in BOOLEAN
    /\ timerPc \in [Timers -> TimerPcs]
    /\ stopped \in BOOLEAN
    /\ detected \subseteq Readers

(* start() returns False when inotify is unavailable: no watcher thread *)
Init ==
    /\ held = {}
    /\ queue = <<>>
    /\ batch = <<>>
    /\ runPc \in {"loop", "done"}
    /\ debounceActive = FALSE
    /\ debounceTimer = NoTimer
    /\ scanning = FALSE
    /\ timerPc = [t \in Timers |-> "free"]
    /\ stopped = FALSE
    /\ detected = {}

-----------------------------------------------------------------------------
(* The kernel.  An event equal to the last unread one is coalesced, and    *)
(* none is posted once the descriptor is closed or was never opened.       *)
Post(e) ==
    IF stopped \/ runPc = "done" \/ (queue # <<>> /\ Last(queue) = e)
    THEN queue' = queue
    ELSE Len(queue) < MaxQueue /\ queue' = Append(queue, e)

ReaderOpen(r) ==
    /\ r \notin held
    /\ held' = held \cup {r}
    /\ Post("open")
    /\ UNCHANGED <<batch, runPc, gate, scanning, timerPc, stopped, detected>>

ReaderClose(r) ==
    /\ r \in held
    /\ held' = held \ {r}
    /\ Post("close")
    /\ UNCHANGED <<batch, runPc, gate, scanning, timerPc, stopped, detected>>

(* "pread64() on /proc/*/mem re-triggers IN_OPEN internally" *)
ReaderRead(r) ==
    /\ r \in held
    /\ Post("open")
    /\ UNCHANGED <<held, batch, runPc, gate, scanning, timerPc, stopped, detected>>

(* the process's own walks over /proc/*/fd can post an IN_OPEN: the        *)
(* callback's, Phase B's and Tier 4's, the last two at any time            *)
SelfOpen ==
    /\ Post("open")
    /\ UNCHANGED <<held, batch, runPc, gate, scanning, timerPc, stopped, detected>>

-----------------------------------------------------------------------------
(* The watcher thread _run() *)
ReadBatch ==
    /\ runPc = "loop" /\ batch = <<>> /\ ~stopped
    /\ queue # <<>>
    /\ batch' = queue
    /\ queue' = <<>>
    /\ UNCHANGED <<held, runPc, gate, scanning, timerPc, stopped, detected>>

NextEvent(e) == runPc = "loop" /\ batch # <<>> /\ Head(batch) = e

(* Layer 1: an IN_OPEN seen while a callback scans is dropped *)
DropOpen ==
    /\ NextEvent("open") /\ scanning
    /\ batch' = Tail(batch)
    /\ UNCHANGED <<held, queue, runPc, gate, scanning, timerPc, stopped, detected>>

(* Mutation: the parser steps past the event before it takes the lock. *)
AdmitOpenPopsEvent ==
    /\ NextEvent("open") /\ ~scanning
    /\ runPc' = "arm"
    /\ batch' = Tail(batch)
    /\ UNCHANGED <<held, queue, gate, scanning, timerPc, stopped, detected>>

AdmitOpen ==
    /\ NextEvent("open") /\ ~scanning
    /\ runPc' = "arm"
    /\ UNCHANGED <<held, queue, batch, gate, scanning, timerPc, stopped, detected>>

ArmGate ==
    /\ runPc = "arm" /\ ~debounceActive
    /\ \E t \in Timers :
          /\ timerPc[t] = "free"
          /\ debounceActive' = TRUE
          /\ debounceTimer' = t
          /\ timerPc' = [timerPc EXCEPT ![t] = "counting"]
    /\ batch' = Tail(batch)
    /\ runPc' = "loop"
    /\ UNCHANGED <<held, queue, scanning, stopped, detected>>

SwallowOpen ==
    /\ runPc = "arm" /\ debounceActive
    /\ batch' = Tail(batch)
    /\ runPc' = "loop"
    /\ UNCHANGED <<held, queue, gate, scanning, timerPc, stopped, detected>>

(* Timer.cancel() only stops a timer that is still counting *)
Cancelled(pcs) ==
    [t \in Timers |-> IF t = debounceTimer /\ pcs[t] = "counting"
                      THEN "free" ELSE pcs[t]]

HandleClose ==
    /\ NextEvent("close")
    /\ timerPc' = Cancelled(timerPc)
    /\ debounceActive' = FALSE
    /\ debounceTimer' = NoTimer
    /\ batch' = Tail(batch)
    /\ UNCHANGED <<held, queue, runPc, scanning, stopped, detected>>

(* the loop ends at shutdown, or when a read raises: os.readinto() is new  *)
(* in Python 3.14                                                          *)
RunExit ==
    /\ runPc = "loop" /\ batch = <<>>
    /\ stopped \/ queue # <<>>
    /\ runPc' = "done"
    /\ UNCHANGED <<held, queue, batch, gate, scanning, timerPc, stopped, detected>>

RunStep == ReadBatch \/ DropOpen \/ AdmitOpen \/ ArmGate \/ SwallowOpen
              \/ HandleClose \/ RunExit

-----------------------------------------------------------------------------
(* A Timer thread: _fire_open() *)
TimerMoves(t, from, to) ==
    /\ timerPc[t] = from
    /\ timerPc' = [timerPc EXCEPT ![t] = to]

Expire(t) ==
    /\ TimerMoves(t, "counting", "fired")
    /\ UNCHANGED <<held, runVars, gate, scanning, stopped, detected>>

(* Mutation: Layer 2 returns without resetting the gate. *)
TestGuardKeepsGate(t) ==
    /\ TimerMoves(t, "fired", IF scanning THEN "free" ELSE "resetting")
    /\ UNCHANGED <<held, runVars, gate, scanning, stopped, detected>>

(* Layer 2: drop the callback when another one is scanning *)
TestGuard(t) ==
    /\ TimerMoves(t, "fired", IF scanning THEN "dropping" ELSE "resetting")
    /\ UNCHANGED <<held, runVars, gate, scanning, stopped, detected>>

(* Mutation: _fire_open returns after the reset on both paths. *)
ResetGateNoCallback(t) ==
    /\ TimerMoves(t, timerPc[t], "free")
    /\ timerPc[t] \in {"dropping", "resetting"}
    /\ debounceActive' = FALSE
    /\ debounceTimer' = NoTimer
    /\ UNCHANGED <<held, runVars, scanning, stopped, detected>>

ResetGate(t) ==
    /\ \/ TimerMoves(t, "dropping", "free")
       \/ TimerMoves(t, "resetting", "guarding")
    /\ debounceActive' = FALSE
    /\ debounceTimer' = NoTimer
    /\ UNCHANGED <<held, runVars, scanning, stopped, detected>>

SetGuard(t) ==
    /\ TimerMoves(t, "guarding", "calling")
    /\ scanning' = TRUE
    /\ UNCHANGED <<held, runVars, gate, stopped, detected>>

(* on_open_cb lists the foreign holders of our mem file *)
Callback(t) ==
    /\ TimerMoves(t, "calling", "returning")
    /\ detected' = detected \cup held
    /\ UNCHANGED <<held, runVars, gate, scanning, stopped>>

(* Mutation: no "finally", the guard stays set when the callback ends. *)
ClearGuardMissing(t) ==
    /\ TimerMoves(t, "returning", "free")
    /\ UNCHANGED <<held, runVars, gate, scanning, stopped, detected>>

ClearGuard(t) ==
    /\ TimerMoves(t, "returning", "free")
    /\ scanning' = FALSE
    /\ UNCHANGED <<held, runVars, gate, stopped, detected>>

TimerStep(t) == Expire(t) \/ TestGuard(t) \/ ResetGate(t) \/ SetGuard(t)
                   \/ Callback(t) \/ ClearGuard(t)

(* stop() closes the descriptor; a Timer already started is not cancelled *)
Stop ==
    /\ ~stopped
    /\ stopped' = TRUE
    /\ queue' = <<>>
    /\ UNCHANGED <<held, batch, runPc, gate, scanning, timerPc, detected>>

-----------------------------------------------------------------------------
Kernel == SelfOpen \/ \E r \in Readers :
                         ReaderOpen(r) \/ ReaderClose(r) \/ ReaderRead(r)

Next == Kernel \/ RunStep \/ Stop \/ \E t \in Timers : TimerStep(t)

(* The watcher thread and every Timer thread keep running; readers and the *)
(* shutdown owe nothing.                                                   *)
Fairness == WF_vars(RunStep) /\ \A t \in Timers : WF_vars(TimerStep(t))

Spec     == Init /\ [][Next]_vars
FairSpec == Spec /\ Fairness

-----------------------------------------------------------------------------
(* Correctness properties *)

(* The gate never stays shut on a timer that is gone: while                *)
(* _debounce_active is set, _debounce_timer is a thread that has yet to    *)
(* reset it.  A gate shut on a finished timer would swallow every later    *)
(* IN_OPEN.                                                                *)
GateHasTimer ==
    IF debounceActive
    THEN /\ debounceTimer \in Timers
         /\ timerPc[debounceTimer] \in {"counting", "fired", "dropping", "resetting"}
    ELSE debounceTimer = NoTimer

(* _scanning is never left set when no callback runs: Layer 1 would drop   *)
(* every IN_OPEN from then on.                                             *)
GuardHasCallback ==
    scanning => \E t \in Timers : timerPc[t] \in {"calling", "returning"}

(* Every shut gate opens again, and every set guard is released. *)
GateReopens   == debounceActive ~> ~debounceActive
GuardReleased == scanning ~> ~scanning

(* An IN_OPEN that waits while no scan is past its listing and no timer is *)
(* giving up leads to the detection of the reader that holds the file,     *)
(* unless some reader closes it or the watcher is shut down.               *)
CloseSeen == "close" \in Range(queue) \cup Range(batch)

OpenDetectedUnlessClosed ==
    \A r \in Readers :
        ( /\ r \in held
          /\ "open" \in Range(queue) \cup Range(batch)
          /\ ~scanning
          /\ \A t \in Timers : timerPc[t] \notin {"returning", "dropping"} )
        ~> (r \in detected \/ CloseSeen \/ r \notin held \/ stopped \/ runPc = "done")

(* module docstring: "Fires the instant ANY process calls open() on it":   *)
(* a reader that opens the file and keeps it open is found by a callback.  *)
HeldReaderDetected ==
    \A r \in Readers :
        <>[](r \in held) => <>(r \in detected \/ stopped \/ runPc = "done")

=============================================================================
