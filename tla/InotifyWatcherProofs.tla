------------------------- MODULE InotifyWatcherProofs -------------------------
(***************************************************************************)
(* Proofs about the Tier 1 watcher, for any set of readers, any number of  *)
(* Timer threads and any queue bound: the debounce gate is never shut on a *)
(* timer that is gone, the scanning guard never outlives its callback, an  *)
(* IN_OPEN is not lost on its way to the listing, and after stop() nothing *)
(* but the events already read is worked off.                              *)
(***************************************************************************)
EXTENDS InotifyWatcher, SequenceTheorems, TLAPS

(* What the kernel posts is an event. *)
LEMMA PostType ==
    ASSUME queue \in Seq(Events), NEW e \in Events, Post(e)
    PROVE  queue' \in Seq(Events)
<1>1. CASE queue' = queue
  BY <1>1
<1>2. CASE queue' = Append(queue, e)
  BY <1>2
<1> QED
  BY <1>1, <1>2 DEF Post

(* Type correctness of the watcher: every field keeps the values the code  *)
(* gives it.                                                               *)
THEOREM TypeCorrect == Spec => []TypeOK
<1>1. Init => TypeOK
  <2> SUFFICES ASSUME Init
               PROVE  TypeOK
    OBVIOUS
  <2>1. <<>> \in Seq(Events)
    OBVIOUS
  <2> QED
    BY <2>1 DEF Init, TypeOK, RunPcs, TimerPcs
<1>2. TypeOK /\ [Next]_vars => TypeOK'
  <2> SUFFICES ASSUME TypeOK, [Next]_vars
               PROVE  TypeOK'
    OBVIOUS
  <2>1. CASE Kernel
    <3>1. "open" \in Events /\ "close" \in Events
      BY DEF Events
    <3>2. queue' \in Seq(Events)
      BY <2>1, <3>1, PostType DEF Kernel, SelfOpen, ReaderOpen, ReaderClose,
         ReaderRead, TypeOK
    <3> QED
      BY <2>1, <3>2 DEF Kernel, SelfOpen, ReaderOpen, ReaderClose, ReaderRead,
         TypeOK, gate
  <2>2. CASE ReadBatch
    BY <2>2 DEF ReadBatch, TypeOK, gate
  <2>3. CASE DropOpen
    BY <2>3 DEF DropOpen, NextEvent, TypeOK, gate
  <2>4. CASE AdmitOpen
    BY <2>4 DEF AdmitOpen, NextEvent, TypeOK, gate, RunPcs
  <2>5. CASE ArmGate
    <3>1. batch' \in Seq(Events)
      BY <2>5 DEF ArmGate, TypeOK
    <3> QED
      BY <2>5, <3>1 DEF ArmGate, TypeOK, RunPcs, TimerPcs
  <2>6. CASE SwallowOpen
    BY <2>6 DEF SwallowOpen, TypeOK, gate, RunPcs
  <2>7. CASE HandleClose
    <3>1. timerPc' \in [Timers -> TimerPcs]
      BY <2>7 DEF HandleClose, Cancelled, TypeOK, TimerPcs
    <3>2. batch' \in Seq(Events)
      BY <2>7 DEF HandleClose, NextEvent, TypeOK
    <3> QED
      BY <2>7, <3>1, <3>2 DEF HandleClose, NextEvent, TypeOK
  <2>8. CASE RunExit
    BY <2>8 DEF RunExit, TypeOK, gate, RunPcs
  <2>9. CASE Stop
    BY <2>9 DEF Stop, TypeOK, gate
  <2>10. ASSUME NEW t \in Timers, TimerStep(t)
         PROVE  TypeOK'
    BY <2>10 DEF TimerStep, Expire, TestGuard, ResetGate, SetGuard, Callback,
       ClearGuard, TimerMoves, TypeOK, TimerPcs, gate, runVars
  <2>11. CASE UNCHANGED vars
    BY <2>11 DEF vars, TypeOK
  <2> QED
    BY <2>1, <2>2, <2>3, <2>4, <2>5, <2>6, <2>7, <2>8, <2>9, <2>10, <2>11
       DEF Next, RunStep
<1> QED
  BY <1>1, <1>2, PTL DEF Spec

(***************************************************************************)
(* The gate.  Only the watcher thread starts a timer, and it stores the    *)
(* timer and shuts the gate in the same locked block; a timer leaves the   *)
(* states named in GateHasTimer only through a locked block that opens the *)
(* gate, or by being cancelled in one.                                     *)
(***************************************************************************)
GateInv == TypeOK /\ GateHasTimer

(* The debounce gate of _InotifyMemWatcher is never left shut by a timer   *)
(* that has already run, was cancelled or was replaced.                    *)
THEOREM GateAlwaysHasTimer == Spec => []GateHasTimer
<1>1. Init => GateHasTimer
  BY DEF Init, GateHasTimer
<1>2. GateInv /\ [Next]_vars => GateHasTimer'
  <2> SUFFICES ASSUME TypeOK, GateHasTimer, [Next]_vars
               PROVE  GateHasTimer'
    BY DEF GateInv
  <2>1. CASE Kernel
    BY <2>1 DEF Kernel, SelfOpen, ReaderOpen, ReaderClose, ReaderRead, gate,
       GateHasTimer
  <2>2. CASE ArmGate
    BY <2>2 DEF ArmGate, GateHasTimer, TypeOK
  <2>3. CASE HandleClose
    BY <2>3 DEF HandleClose, GateHasTimer
  <2>4. CASE ReadBatch \/ DropOpen \/ AdmitOpen \/ SwallowOpen \/ RunExit \/ Stop
    BY <2>4 DEF ReadBatch, DropOpen, AdmitOpen, SwallowOpen, RunExit, Stop,
       gate, GateHasTimer
  <2>5. ASSUME NEW t \in Timers, Expire(t) \/ TestGuard(t)
        PROVE  GateHasTimer'
    BY <2>5 DEF Expire, TestGuard, TimerMoves, gate, GateHasTimer, TypeOK
  <2>6. ASSUME NEW t \in Timers, ResetGate(t)
        PROVE  GateHasTimer'
    BY <2>6 DEF ResetGate, GateHasTimer
  <2>7. ASSUME NEW t \in Timers, SetGuard(t) \/ Callback(t) \/ ClearGuard(t)
        PROVE  GateHasTimer'
    <3>1. t # debounceTimer \/ ~debounceActive
      BY <2>7 DEF SetGuard, Callback, ClearGuard, TimerMoves, GateHasTimer
    <3> QED
      BY <2>7, <3>1 DEF SetGuard, Callback, ClearGuard, TimerMoves, gate,
         GateHasTimer, TypeOK
  <2>8. CASE UNCHANGED vars
    BY <2>8 DEF vars, GateHasTimer
  <2> QED
    BY <2>1, <2>2, <2>3, <2>4, <2>5, <2>6, <2>7, <2>8
       DEF Next, RunStep, TimerStep
<1> QED
  BY <1>1, <1>2, TypeCorrect, PTL DEF Spec, GateInv

(* _scanning is set only while some Timer thread is inside on_open_cb, so  *)
(* Layer 1 never drops an IN_OPEN for a scan that is over.                 *)
THEOREM GuardAlwaysHasCallback == Spec => []GuardHasCallback
<1>1. Init => GuardHasCallback
  BY DEF Init, GuardHasCallback
<1>2. TypeOK /\ GuardHasCallback /\ [Next]_vars => GuardHasCallback'
  <2> SUFFICES ASSUME TypeOK, GuardHasCallback, [Next]_vars, scanning'
               PROVE  \E u \in Timers : timerPc'[u] \in {"calling", "returning"}
    BY DEF GuardHasCallback
  <2>1. ASSUME NEW t \in Timers, SetGuard(t) \/ Callback(t)
        PROVE  timerPc'[t] \in {"calling", "returning"}
    BY <2>1 DEF SetGuard, Callback, TimerMoves, TypeOK
  <2>2. ASSUME NEW t \in Timers, ClearGuard(t)
        PROVE  FALSE
    BY <2>2 DEF ClearGuard
  <2>3. CASE /\ scanning
             /\ \A u \in Timers : timerPc[u] \in {"calling", "returning"}
                                      => timerPc'[u] = timerPc[u]
    BY <2>3 DEF GuardHasCallback
  <2>4. CASE Kernel \/ RunStep \/ Stop \/ UNCHANGED vars
    <3>1. scanning' = scanning
      BY <2>4 DEF Kernel, SelfOpen, ReaderOpen, ReaderClose, ReaderRead, RunStep,
         ReadBatch, DropOpen, AdmitOpen, ArmGate, SwallowOpen, HandleClose,
         RunExit, Stop, vars
    <3>2. ASSUME NEW u \in Timers, timerPc[u] \in {"calling", "returning"}
          PROVE  timerPc'[u] = timerPc[u]
      BY <2>4, <3>2 DEF Kernel, SelfOpen, ReaderOpen, ReaderClose, ReaderRead,
         RunStep, ReadBatch, DropOpen, AdmitOpen, ArmGate, SwallowOpen,
         HandleClose, Cancelled, RunExit, Stop, vars, TypeOK
    <3> QED
      BY <2>3, <3>1, <3>2
  <2>5. ASSUME NEW t \in Timers, Expire(t) \/ TestGuard(t) \/ ResetGate(t)
        PROVE  /\ scanning
               /\ \A u \in Timers : timerPc[u] \in {"calling", "returning"}
                                        => timerPc'[u] = timerPc[u]
    BY <2>5 DEF Expire, TestGuard, ResetGate, TimerMoves, TypeOK
  <2> QED
    BY <2>1, <2>2, <2>3, <2>4, <2>5 DEF Next, TimerStep
<1> QED
  BY <1>1, <1>2, TypeCorrect, PTL DEF Spec

-----------------------------------------------------------------------------
(* A listing is still to come: some Timer thread is past Layer 2, or no    *)
(* callback and no timer stands in the way of the next one.                *)
Clear ==
    ~scanning /\ \A t \in Timers : timerPc[t] \notin {"dropping", "returning"}

OpenWaits == "open" \in Range(queue) \cup Range(batch)

Timing  == \E t \in Timers : timerPc[t] \in {"counting", "fired"}
Through == \E t \in Timers : timerPc[t] \in {"resetting", "guarding", "calling"}

Coming ==
    \/ Through
    \/ Clear /\ (OpenWaits \/ Timing)

Listing == \E t \in Timers : Callback(t)

(* What the watcher owes: a listing that is to come stays to come until it *)
(* is made, a reader closes or the watcher ends.                           *)
ComingStays ==
    Coming /\ ~CloseSeen =>
       Coming' \/ Listing \/ CloseSeen' \/ stopped' \/ runPc' = "done"

(* What the kernel posts is appended to what waits. *)
LEMMA PostKeeps ==
    ASSUME queue \in Seq(Events), NEW e \in Events, Post(e)
    PROVE  Range(queue) \subseteq Range(queue')
<1>1. CASE queue' = queue
  BY <1>1
<1>2. CASE queue' = Append(queue, e)
  BY <1>2 DEF Range
<1> QED BY <1>1, <1>2 DEF Post

LEMMA KernelKeepsComing ==
    ASSUME TypeOK, Coming, Kernel
    PROVE  Coming'
<1>1. UNCHANGED <<batch, scanning, timerPc>>
  BY DEF Kernel, SelfOpen, ReaderOpen, ReaderClose, ReaderRead
<1>2. "open" \in Events /\ "close" \in Events
  BY DEF Events
<1>3. Range(queue) \subseteq Range(queue')
  BY <1>2, PostKeeps DEF Kernel, SelfOpen, ReaderOpen, ReaderClose, ReaderRead, TypeOK
<1> QED BY <1>1, <1>3 DEF Coming, Clear, OpenWaits, Timing, Through

(* The watcher thread: an IN_OPEN that it takes off the batch arms the     *)
(* gate, or finds it armed by a timer that has not run; only an IN_CLOSE   *)
(* takes a timer away.                                                     *)
LEMMA RunStepKeepsComing ==
    ASSUME TypeOK, GateHasTimer, Coming, ~CloseSeen, RunStep
    PROVE  Coming' \/ runPc' = "done"
<1>1. CASE ReadBatch
  <2>1. Range(batch') = Range(queue)
    BY <1>1 DEF ReadBatch
  <2>2. Range(batch) = {}
    BY <1>1 DEF ReadBatch, Range
  <2>3. UNCHANGED <<scanning, timerPc>>
    BY <1>1 DEF ReadBatch
  <2> QED BY <2>1, <2>2, <2>3 DEF Coming, Clear, OpenWaits, Timing, Through
<1>2. CASE DropOpen
  BY <1>2 DEF DropOpen, Coming, Clear, Through
<1>3. CASE AdmitOpen
  BY <1>3 DEF AdmitOpen, Coming, Clear, OpenWaits, Timing, Through
<1>4. CASE ArmGate
  <2>1. PICK t \in Timers : timerPc[t] = "free"
                            /\ timerPc' = [timerPc EXCEPT ![t] = "counting"]
    BY <1>4 DEF ArmGate
  <2>2. UNCHANGED scanning /\ timerPc'[t] = "counting"
    BY <1>4, <2>1 DEF ArmGate, TypeOK
  <2>3. \A u \in Timers : u # t => timerPc'[u] = timerPc[u]
    BY <2>1 DEF TypeOK
  <2> QED BY <2>1, <2>2, <2>3 DEF Coming, Clear, Timing, Through
<1>5. CASE SwallowOpen
  <2>1. UNCHANGED <<scanning, timerPc>> /\ debounceActive
    BY <1>5 DEF SwallowOpen
  <2> QED BY <2>1 DEF GateHasTimer, Coming, Clear, Timing, Through
<1>6. CASE HandleClose
  <2>1. "close" \in Range(batch)
    BY <1>6 DEF HandleClose, NextEvent, TypeOK, Range
  <2> QED BY <2>1 DEF CloseSeen
<1>7. CASE RunExit
  BY <1>7 DEF RunExit
<1> QED BY <1>1, <1>2, <1>3, <1>4, <1>5, <1>6, <1>7 DEF RunStep

(* The Timer threads: with the guard clear a timer passes Layer 2, and     *)
(* from there on leads to the listing.                                     *)
LEMMA TimerStepKeepsComing ==
    ASSUME TypeOK, Coming, NEW t \in Timers, TimerStep(t)
    PROVE  Coming' \/ Listing
<1> USE DEF TimerMoves
<1>1. UNCHANGED <<queue, batch>>
  BY DEF TimerStep, Expire, TestGuard, ResetGate, SetGuard, Callback, ClearGuard, runVars
<1>2. \A u \in Timers : u # t => timerPc'[u] = timerPc[u]
  BY DEF TimerStep, Expire, TestGuard, ResetGate, SetGuard, Callback, ClearGuard, TypeOK
<1>3. OpenWaits' = OpenWaits
  BY <1>1 DEF OpenWaits
<1>4. CASE Expire(t)
  <2>1. UNCHANGED scanning /\ timerPc[t] = "counting" /\ timerPc'[t] = "fired"
    BY <1>4 DEF Expire, TypeOK
  <2> QED BY <1>2, <1>3, <2>1 DEF Coming, Clear, Timing, Through
<1>5. CASE TestGuard(t)
  <2>1. timerPc[t] = "fired" /\ (timerPc'[t] = IF scanning THEN "dropping" ELSE "resetting")
    BY <1>5 DEF TestGuard, TypeOK
  <2> QED BY <1>2, <2>1 DEF Coming, Clear, Through
<1>6. CASE ResetGate(t)
  <2>1. UNCHANGED scanning
        /\ \/ timerPc[t] = "dropping" /\ timerPc'[t] = "free"
           \/ timerPc'[t] = "guarding"
    BY <1>6 DEF ResetGate, TypeOK
  <2> QED BY <1>2, <1>3, <2>1 DEF Coming, Clear, Timing, Through
<1>7. CASE SetGuard(t)
  <2>1. timerPc'[t] = "calling"
    BY <1>7 DEF SetGuard, TypeOK
  <2> QED BY <2>1 DEF Coming, Through
<1>8. CASE Callback(t)
  BY <1>8 DEF Listing
<1>9. CASE ClearGuard(t)
  <2>1. timerPc[t] = "returning"
    BY <1>9 DEF ClearGuard
  <2> QED BY <1>2, <2>1 DEF Coming, Clear, Through
<1> QED BY <1>4, <1>5, <1>6, <1>7, <1>8, <1>9 DEF TimerStep

LEMMA ComingStep ==
    ASSUME TypeOK, GateHasTimer, [Next]_vars
    PROVE  ComingStays
<1> SUFFICES ASSUME Coming, ~CloseSeen
             PROVE  Coming' \/ Listing \/ CloseSeen' \/ stopped' \/ runPc' = "done"
  BY DEF ComingStays
<1>1. CASE Stop
  BY <1>1 DEF Stop
<1>2. CASE UNCHANGED vars
  BY <1>2 DEF vars, Coming, Clear, OpenWaits, Timing, Through
<1> QED BY <1>1, <1>2, KernelKeepsComing, RunStepKeepsComing, TimerStepKeepsComing
        DEF Next

(* The safety behind OpenDetectedUnlessClosed, in every interleaving: from *)
(* the IN_OPEN to the listing no step loses a reader that holds the file,  *)
(* unless an IN_CLOSE is on its way, or the watcher is shut down.          *)
HolderInSight ==
    [][\A r \in held :
          Coming /\ ~CloseSeen =>
             r \in detected' \/ Coming' \/ CloseSeen' \/ stopped' \/ runPc' = "done"]_vars

THEOREM ListingAlwaysComing == Spec => [][ComingStays]_vars
BY ComingStep, TypeCorrect, GateAlwaysHasTimer, PTL DEF Spec

THEOREM HolderAlwaysInSight == Spec => HolderInSight
<1> DEFINE Sight == \A r \in held :
          Coming /\ ~CloseSeen =>
             r \in detected' \/ Coming' \/ CloseSeen' \/ stopped' \/ runPc' = "done"
<1>1. ComingStays => Sight
  <2>1. ASSUME NEW r \in held, Listing PROVE r \in detected'
    BY <2>1 DEF Listing, Callback
  <2> QED BY <2>1 DEF ComingStays
<1> HIDE DEF Sight
<1>2. Spec => [][Sight]_vars
  BY <1>1, ListingAlwaysComing, PTL
<1> QED BY <1>2 DEF HolderInSight, Sight

-----------------------------------------------------------------------------
(* After stop(): no event reaches the watcher, and a Timer thread starts   *)
(* only for an event that had been read before.                            *)
DescriptorClosed == stopped => queue = <<>>

WorkedOff ==
    stopped =>
       /\ stopped' /\ Len(batch') <= Len(batch)
       /\ (\E t \in Timers : timerPc[t] = "free" /\ timerPc'[t] # "free")
             => Len(batch') < Len(batch)

LEMMA ClosedStays == DescriptorClosed /\ [Next]_vars => DescriptorClosed'
BY DEF DescriptorClosed, Next, Kernel, SelfOpen, ReaderOpen, ReaderClose, ReaderRead,
   Post, RunStep, ReadBatch, DropOpen, AdmitOpen, ArmGate, SwallowOpen, HandleClose,
   RunExit, Stop, TimerStep, Expire, TestGuard, ResetGate, SetGuard, Callback,
   ClearGuard, runVars, vars

LEMMA WorkedOffStep ==
    ASSUME TypeOK, [Next]_vars
    PROVE  WorkedOff
<1> SUFFICES ASSUME stopped
             PROVE  /\ stopped' /\ Len(batch') <= Len(batch)
                    /\ (\E t \in Timers : timerPc[t] = "free" /\ timerPc'[t] # "free")
                          => Len(batch') < Len(batch)
  BY DEF WorkedOff
<1>1. batch \in Seq(Events) /\ Len(batch) \in Nat
  BY DEF TypeOK
<1>2. stopped'
  BY DEF Next, Kernel, SelfOpen, ReaderOpen, ReaderClose, ReaderRead, RunStep,
     ReadBatch, DropOpen, AdmitOpen, ArmGate, SwallowOpen, HandleClose, RunExit,
     Stop, TimerStep, Expire, TestGuard, ResetGate, SetGuard, Callback, ClearGuard, vars
<1>3. CASE Kernel \/ Stop \/ ReadBatch \/ AdmitOpen \/ RunExit \/ UNCHANGED vars
  <2>1. UNCHANGED <<batch, timerPc>>
    BY <1>3 DEF Kernel, SelfOpen, ReaderOpen, ReaderClose, ReaderRead, Stop,
       ReadBatch, AdmitOpen, RunExit, vars
  <2> QED BY <1>1, <1>2, <2>1
<1>4. CASE DropOpen \/ SwallowOpen \/ HandleClose \/ ArmGate
  <2>1. batch # <<>> /\ batch' = Tail(batch)
    BY <1>4 DEF DropOpen, SwallowOpen, HandleClose, ArmGate, NextEvent, TypeOK
  <2>2. Len(batch') < Len(batch)
    BY <1>1, <2>1
  <2> QED BY <1>1, <1>2, <2>1, <2>2
<1>5. ASSUME NEW u \in Timers, TimerStep(u)
      PROVE  UNCHANGED batch
             /\ ~ \E t \in Timers : timerPc[t] = "free" /\ timerPc'[t] # "free"
  BY <1>5 DEF TimerStep, Expire, TestGuard, ResetGate, SetGuard, Callback,
     ClearGuard, TimerMoves, runVars, TypeOK
<1> QED BY <1>1, <1>2, <1>3, <1>4, <1>5 DEF Next, RunStep

(* The safety behind StopQuiesces: stop() joins nothing, yet from then on  *)
(* the descriptor stays empty, and each further callback uses up one of    *)
(* the events already read.                                                *)
THEOREM StopAlwaysWorksOff == Spec => []DescriptorClosed /\ [][WorkedOff]_vars
<1>1. Init => DescriptorClosed
  BY DEF Init, DescriptorClosed
<1> QED BY <1>1, ClosedStays, WorkedOffStep, TypeCorrect, PTL DEF Spec

=============================================================================
