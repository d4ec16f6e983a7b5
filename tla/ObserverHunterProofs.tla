------------------------- MODULE ObserverHunterProofs -------------------------
(***************************************************************************)
(* Proofs about the detection pipeline, for any processes, any number of   *)
(* Timer threads and any bounds: it drives the state machine only as       *)
(* HunterActivation allows, it implements SuspectLog (no dossier is built  *)
(* for a process that neither opened our mem file nor read us), dossiers   *)
(* only move forward, no sighting is lost or counted twice on its way to   *)
(* the counters, what is known of a process stays in the pipeline until it *)
(* is in a dossier, and it keeps its types.                                *)
(***************************************************************************)
EXTENDS ObserverHunter, FiniteSetTheorems, TLAPS

(* The pipeline takes only steps of HunterActivation, or leaves its        *)
(* variables alone.                                                        *)
LEMMA DrivesActivation == Spec => A!Spec
<1>1. Init => A!Init
  BY DEF Init
<1>2. [Next]_vars => [A!Next]_(A!vars)
  <2> SUFFICES ASSUME [Next]_vars
               PROVE  A!Next \/ UNCHANGED A!vars
    OBVIOUS
  <2> USE DEF A!Next
  <2>1. CASE WorldStep
    BY <2>1 DEF WorldStep, Tick, OpenMem, CloseMem, VmReadBegin, VmReadEnd,
       Exit, RearmElapsed, World, actVars, A!vars, A!gameVars
  <2>2. CASE GameStep
    <3>1. CASE Notify \/ Transition
      BY <3>1 DEF Notify, Transition, A!GameStep
    <3>2. CASE Tier4List
      BY <3>2 DEF Tier4List, actVars, A!vars, A!gameVars
    <3>3. CASE Tier4Return \/ \E p \in Pids : Tier4Queue(p)
      BY <3>3 DEF Tier4Return, Tier4Queue, A!GameStep
    <3> QED
      BY <2>2, <3>1, <3>2, <3>3 DEF GameStep
  <2>3. CASE PollerStep
    BY <2>3 DEF PollerStep, PollerSweep, PollerReport, actVars, A!vars, A!gameVars
  <2>4. CASE ScanStep
    <3>1. CASE ScanLoop \/ ScanBegin \/ ScanEnd
      BY <3>1 DEF ScanLoop, ScanBegin, ScanEnd, A!ScanStep
    <3>2. CASE ScanDrain \/ ScanLive \/ ScanVm
      BY <3>2 DEF ScanDrain, ScanLive, ScanVm, actVars, A!vars, A!gameVars
    <3>3. CASE ScanVmHit \/ \E p \in Pids : ScanFdHit(p)
      BY <3>3 DEF ScanVmHit, ScanFdHit, actVars, A!vars, A!gameVars
    <3> QED
      BY <2>4, <3>1, <3>2, <3>3 DEF ScanStep
  <2>5. ASSUME NEW c \in Callers, OnMemOpen(c) \/ CallbackStep(c)
        PROVE  A!Next \/ UNCHANGED A!vars
    <3>1. CASE Activate(c) \/ Activating(c) \/ SnapshotsQueued(c)
      BY <3>1 DEF Activate, Activating, SnapshotsQueued
    <3>2. CASE \/ OnMemOpen(c) \/ FastOpen(c) \/ AnonLimited(c) \/ AnonAccepted(c)
               \/ AnonStamp(c) \/ AnonRecord(c)
               \/ \E p \in Pids : QueueSnapshot(c, p)
      BY <3>2 DEF OnMemOpen, FastOpen, AnonLimited, AnonAccepted, AnonStamp,
         AnonRecord, QueueSnapshot, actVars, A!vars, A!gameVars
    <3> QED
      BY <2>5, <3>1, <3>2 DEF CallbackStep
  <2>6. CASE \E a \in Emitters : EmitStep(a)
    BY <2>6 DEF EmitStep, actVars, A!vars, A!gameVars
  <2>7. CASE UNCHANGED vars
    BY <2>7 DEF vars, actVars, A!vars, A!gameVars
  <2> QED
    BY <2>1, <2>2, <2>3, <2>4, <2>5, <2>6, <2>7 DEF Next
<1> QED
  BY <1>1, <1>2, PTL DEF Spec, A!Spec

-----------------------------------------------------------------------------
(* The inductive invariant behind the refinement of SuspectLog: a process  *)
(* held anywhere in the pipeline -- in a queue, in a local of a thread, in *)
(* the result of a listing -- has touched us.                              *)
CallsOn(S) == [pc : CbPcs, branch : Branches, hits : SUBSET S,
               now : Int, epoch : Int]

Sightings == [seen : Nat, first : Int, last : Int]

Flags(f) == f \in [Pids -> Knowledge] /\ \A p \in Pids : f[p] # "no" => p \in touched

Lists(q) == q \in Seq(Pids) /\ \A i \in 1..Len(q) : q[i] \in touched

WorldInv == /\ touched \subseteq Pids
            /\ held \subseteq touched
            /\ vmReading \subseteq touched
            /\ clock \in Int
            /\ epoch \in Int
HitsInv  == tier4Hits \subseteq touched /\ pollerHits \subseteq touched
QueueInv == Flags(snapshots) /\ Lists(vmreadvQ)
CallInv  == cb \in [Callers -> CallsOn(touched)]
ScanInv  == Flags(found) /\ Lists(vmFound) /\ scanEpoch \in Int
LogInv   == /\ dossiers \in [Pids \cup {Anon} -> Sightings]
            /\ Recorded \subseteq touched

PipelineInv == WorldInv /\ HitsInv /\ QueueInv /\ CallInv /\ ScanInv /\ LogInv

pipelineVars == <<touched, held, vmReading, clock, epoch, tier4Hits, pollerHits,
                  queueVars, cb, found, vmFound, scanEpoch, dossiers>>

LEMMA PipelineStutters ==
    ASSUME PipelineInv, UNCHANGED pipelineVars
    PROVE  PipelineInv' /\ Recorded' = Recorded /\ touched' = touched
  BY DEF PipelineInv, pipelineVars, queueVars, WorldInv, HitsInv, QueueInv,
     CallInv, ScanInv, LogInv, Flags, Lists, Recorded

(* What has once touched us stays so: a process that touches us later      *)
(* disturbs none of the parts.                                             *)
LEMMA TouchKeeps ==
    ASSUME PipelineInv, touched \subseteq touched', touched' \subseteq Pids,
           held' \subseteq touched', vmReading' \subseteq touched',
           UNCHANGED <<clock, epoch, tier4Hits, pollerHits, queueVars, cb, found,
                       vmFound, scanEpoch, dossiers>>
    PROVE  PipelineInv' /\ Recorded' = Recorded
<1> USE DEF PipelineInv
<1>1. WorldInv' /\ HitsInv'
  BY DEF WorldInv, HitsInv
<1>2. QueueInv'
  BY DEF QueueInv, Flags, Lists, queueVars
<1>3. ScanInv'
  BY DEF ScanInv, Flags, Lists
<1>4. CallInv'
  BY DEF CallInv, CallsOn
<1>5. LogInv' /\ Recorded' = Recorded
  BY DEF LogInv, Recorded
<1> QED
  BY <1>1, <1>2, <1>3, <1>4, <1>5

(* A sighting adds its process to the recorded ones, and the anonymous one *)
(* adds nobody.                                                            *)
LEMMA SightingRecords ==
    ASSUME PipelineInv, NEW p \in touched \cup {Anon}, NEW e \in Int, NEW a,
           RecordDossier(p, e, a), UNCHANGED touched
    PROVE  /\ LogInv'
           /\ p \in touched => Recorded' = Recorded \cup {p}
           /\ p = Anon => Recorded' = Recorded
<1> USE DEF PipelineInv, WorldInv, LogInv
<1>1. Updated(p, e) \in Sightings /\ Updated(p, e).seen > 0
  BY CountAssumption DEF Updated, Up, Sightings
<1>2. dossiers' = [dossiers EXCEPT ![p] = Updated(p, e)]
  BY DEF RecordDossier
<1>3. dossiers' \in [Pids \cup {Anon} -> Sightings]
  BY <1>1, <1>2
<1>4. \A q \in Pids : dossiers'[q].seen > 0 <=> q = p \/ dossiers[q].seen > 0
  BY <1>1, <1>2
<1>5. p \in touched => Recorded' = Recorded \cup {p}
  BY <1>4 DEF Recorded
<1>6. p = Anon => Recorded' = Recorded
  BY <1>4, AnonAssumption DEF Recorded
<1> QED
  BY <1>3, <1>5, <1>6

(* What a handler knows of a process it has listed.                        *)
LEMMA FlagsSet ==
    ASSUME NEW f, NEW p \in Pids, p \in touched, NEW k \in Knowledge, Flags(f)
    PROVE  Flags([f EXCEPT ![p] = k])
  BY DEF Flags

LEMMA LookKnows == \A p : Look(p) \in Knowledge
  BY DEF Look, Knowledge

LEMMA NothingFlags == Flags(Nothing)
  BY DEF Flags, Nothing, Knowledge

LEMMA ListsEmpty == Lists(<<>>)
  BY DEF Lists

LEMMA ListsAppend ==
    ASSUME NEW q, NEW p \in Pids, p \in touched, Lists(q)
    PROVE  Lists(Append(q, p))
  BY DEF Lists

LEMMA ListsTail ==
    ASSUME NEW q, Lists(q), q # <<>>
    PROVE  Lists(Tail(q)) /\ Head(q) \in Pids /\ Head(q) \in touched
  BY DEF Lists

(* Consider() in the scan thread, for a process that has touched us.       *)
LEMMA ConsiderRecords ==
    ASSUME PipelineInv, NEW p \in touched, NEW k, Consider(p, k), UNCHANGED touched
    PROVE  LogInv' /\ (Recorded' = Recorded \/ Recorded' = Recorded \cup {p})
<1>1. CASE Buildable(p, k)
  BY <1>1, SightingRecords DEF Consider, PipelineInv, ScanInv
<1>2. CASE ~Buildable(p, k)
  BY <1>2 DEF Consider, PipelineInv, LogInv, Recorded
<1> QED
  BY <1>1, <1>2

LogStep == [Log!Next]_(Log!vars)

LEMMA WorldSteps ==
    ASSUME PipelineInv, WorldStep
    PROVE  PipelineInv' /\ LogStep
<1>1. CASE Tick
  <2>1. clock' \in Int
    BY <1>1 DEF Tick, PipelineInv, WorldInv
  <2>2. PipelineInv' /\ Recorded' = Recorded /\ touched' = touched
    BY <1>1, <2>1 DEF Tick, World, PipelineInv, WorldInv, HitsInv, QueueInv,
       CallInv, ScanInv, LogInv, Flags, Lists, Recorded, queueVars, cbVars,
       tier4Vars, scanVars
  <2> QED
    BY <2>2 DEF LogStep, Log!vars
<1>2. ASSUME NEW p \in Pids, OpenMem(p) \/ VmReadBegin(p)
      PROVE  PipelineInv' /\ LogStep
  <2>1. touched' = touched \cup {p}
    BY <1>2 DEF OpenMem, VmReadBegin
  <2>2. PipelineInv' /\ Recorded' = Recorded
    <3>1. held' \subseteq touched' /\ vmReading' \subseteq touched'
      BY <1>2 DEF OpenMem, VmReadBegin, PipelineInv, WorldInv
    <3>2. touched' \subseteq Pids
      BY <2>1 DEF PipelineInv, WorldInv
    <3> QED
      BY <1>2, <2>1, <3>1, <3>2, TouchKeeps
         DEF OpenMem, VmReadBegin, World, cbVars, tier4Vars, scanVars
  <2> QED
    BY <2>1, <2>2 DEF LogStep, Log!Next, Log!Touch
<1>3. ASSUME NEW p \in Pids,
             CloseMem(p) \/ VmReadEnd(p) \/ Exit(p) \/ RearmElapsed(p)
      PROVE  PipelineInv' /\ LogStep
  <2>1. PipelineInv' /\ Recorded' = Recorded
    <3>1. held' \subseteq touched /\ vmReading' \subseteq touched
      BY <1>3 DEF CloseMem, VmReadEnd, Exit, RearmElapsed, worldVars, PipelineInv,
         WorldInv
    <3> QED
      BY <1>3, <3>1, TouchKeeps
         DEF CloseMem, VmReadEnd, Exit, RearmElapsed, World, worldVars, cbVars,
         tier4Vars, scanVars, PipelineInv, WorldInv
  <2>2. touched' = touched
    BY <1>3 DEF CloseMem, VmReadEnd, Exit, RearmElapsed, worldVars
  <2> QED
    BY <2>1, <2>2 DEF LogStep, Log!vars
<1> QED
  BY <1>1, <1>2, <1>3 DEF WorldStep

LEMMA GameSteps ==
    ASSUME PipelineInv, GameStep
    PROVE  PipelineInv' /\ LogStep
<1>1. CASE Notify
  <2>1. epoch' \in Int
    BY <1>1 DEF Notify, PipelineInv, WorldInv
  <2>2. PipelineInv' /\ Recorded' = Recorded /\ touched' = touched
    BY <1>1, <2>1 DEF Notify, worldVars, PipelineInv, WorldInv, HitsInv, QueueInv,
       CallInv, ScanInv, LogInv, Flags, Lists, Recorded, queueVars, cbVars,
       tier4Vars, pollVars, scanVars
  <2> QED
    BY <2>2 DEF LogStep, Log!vars
<1>2. CASE Transition \/ Tier4Return
  <2>1. UNCHANGED pipelineVars
    BY <1>2 DEF Transition, Tier4Return, pipelineVars, worldVars, cbVars,
       tier4Vars, pollVars, scanVars
  <2> QED
    BY <2>1, PipelineStutters DEF LogStep, Log!vars
<1>3. CASE Tier4List
  <2>1. tier4Hits' \subseteq touched
    BY <1>3 DEF Tier4List, PipelineInv, WorldInv
  <2>2. PipelineInv' /\ Recorded' = Recorded /\ touched' = touched
    BY <1>3, <2>1 DEF Tier4List, worldVars, PipelineInv, WorldInv, HitsInv,
       QueueInv, CallInv, ScanInv, LogInv, Flags, Lists, Recorded, queueVars,
       cbVars, pollVars, scanVars
  <2> QED
    BY <2>2 DEF LogStep, Log!vars
<1>4. ASSUME NEW p \in Pids, Tier4Queue(p)
      PROVE  PipelineInv' /\ LogStep
  <2>1. p \in touched
    BY <1>4 DEF Tier4Queue, PipelineInv, HitsInv
  <2>2. Flags(snapshots') /\ tier4Hits' \subseteq touched
    BY <1>4, <2>1, FlagsSet, LookKnows DEF Tier4Queue, PipelineInv, HitsInv, QueueInv
  <2>3. PipelineInv' /\ Recorded' = Recorded /\ touched' = touched
    BY <1>4, <2>2 DEF Tier4Queue, worldVars, PipelineInv, WorldInv, HitsInv,
       QueueInv, CallInv, ScanInv, LogInv, Flags, Lists, Recorded, cbVars,
       pollVars, scanVars
  <2> QED
    BY <2>3 DEF LogStep, Log!vars
<1> QED
  BY <1>1, <1>2, <1>3, <1>4 DEF GameStep

LEMMA PollerSteps ==
    ASSUME PipelineInv, PollerStep
    PROVE  PipelineInv' /\ LogStep
<1>1. CASE PollerSweep
  <2>1. pollerHits' \subseteq touched
    BY <1>1 DEF PollerSweep, PipelineInv, WorldInv
  <2>2. PipelineInv' /\ Recorded' = Recorded /\ touched' = touched
    BY <1>1, <2>1 DEF PollerSweep, worldVars, PipelineInv, WorldInv, HitsInv,
       QueueInv, CallInv, ScanInv, LogInv, Flags, Lists, Recorded, queueVars,
       cbVars, tier4Vars, scanVars
  <2> QED
    BY <2>2 DEF LogStep, Log!vars
<1>2. ASSUME NEW p \in Pids, PollerReport(p)
      PROVE  PipelineInv' /\ LogStep
  <2>1. p \in touched
    BY <1>2 DEF PollerReport, PipelineInv, HitsInv
  <2>2. Lists(vmreadvQ') /\ pollerHits' \subseteq touched
    BY <1>2, <2>1, ListsAppend DEF PollerReport, PipelineInv, HitsInv, QueueInv
  <2>3. PipelineInv' /\ Recorded' = Recorded /\ touched' = touched
    BY <1>2, <2>2 DEF PollerReport, worldVars, PipelineInv, WorldInv, HitsInv,
       QueueInv, CallInv, ScanInv, LogInv, Flags, Lists, Recorded, cbVars,
       tier4Vars, scanVars
  <2> QED
    BY <2>3 DEF LogStep, Log!vars
<1> QED
  BY <1>1, <1>2 DEF PollerStep

LEMMA CallbackSteps ==
    ASSUME PipelineInv, NEW c \in Callers, OnMemOpen(c) \/ CallbackStep(c)
    PROVE  PipelineInv' /\ LogStep
<1> USE DEF PipelineInv
<1>1. CASE \/ OnMemOpen(c) \/ Activate(c) \/ SnapshotsQueued(c) \/ FastOpen(c)
           \/ AnonLimited(c) \/ AnonAccepted(c) \/ AnonStamp(c)
  <2>1. CallInv'
    <3>1. CASE OnMemOpen(c)
      <4>1. touched' = touched
        BY <3>1 DEF OnMemOpen, worldVars
      <4>2. held \in SUBSET touched /\ clock \in Int /\ epoch \in Int
        BY DEF WorldInv
      <4> QED
        BY <3>1, <4>1, <4>2 DEF OnMemOpen, CallInv, CallsOn, CbPcs, Branches
    <3>2. CASE Activate(c) \/ AnonAccepted(c) \/ AnonStamp(c)
      <4>1. touched' = touched
        BY <3>2 DEF Activate, AnonAccepted, AnonStamp, worldVars
      <4> QED
        BY <3>2, <4>1 DEF Activate, AnonAccepted, AnonStamp, CallInv, CallsOn, CbPcs
    <3>3. CASE SnapshotsQueued(c) \/ FastOpen(c) \/ AnonLimited(c)
      <4>1. touched' = touched
        BY <3>3 DEF SnapshotsQueued, FastOpen, AnonLimited, worldVars
      <4> QED
        BY <3>3, <4>1 DEF SnapshotsQueued, FastOpen, AnonLimited, CallInv, CallsOn,
           NoCall, CbPcs, Branches
    <3> QED
      BY <1>1, <3>1, <3>2, <3>3
  <2>2. /\ WorldInv' /\ HitsInv' /\ QueueInv' /\ ScanInv' /\ LogInv'
        /\ Recorded' = Recorded /\ touched' = touched
    BY <1>1 DEF OnMemOpen, Activate, SnapshotsQueued, FastOpen, AnonLimited,
       AnonAccepted, AnonStamp, worldVars, WorldInv, HitsInv, QueueInv, ScanInv,
       LogInv, Flags, Lists, Recorded, queueVars, tier4Vars, pollVars, scanVars
  <2> QED
    BY <2>1, <2>2 DEF LogStep, Log!vars
<1>2. CASE Activating(c)
  <2>1. UNCHANGED pipelineVars
    BY <1>2 DEF Activating, pipelineVars, worldVars, cbVars, tier4Vars, pollVars,
       scanVars
  <2> QED
    BY <2>1, PipelineStutters DEF LogStep, Log!vars
<1>3. CASE AnonRecord(c)
  <2>1. cb[c].epoch \in Int /\ touched' = touched
    BY <1>3 DEF AnonRecord, CallInv, CallsOn, worldVars
  <2>2. LogInv' /\ Recorded' = Recorded
    BY <1>3, <2>1, SightingRecords DEF AnonRecord
  <2>3. CallInv'
    BY <1>3, <2>1 DEF AnonRecord, CallInv, CallsOn, NoCall, CbPcs, Branches
  <2>4. WorldInv' /\ HitsInv' /\ QueueInv' /\ ScanInv'
    BY <1>3 DEF AnonRecord, worldVars, WorldInv, HitsInv, QueueInv, ScanInv, Flags,
       Lists, queueVars, tier4Vars, pollVars, scanVars
  <2> QED
    BY <2>1, <2>2, <2>3, <2>4 DEF LogStep, Log!vars
<1>4. ASSUME NEW p \in Pids, QueueSnapshot(c, p)
      PROVE  PipelineInv' /\ LogStep
  <2>1. p \in touched /\ touched' = touched
    BY <1>4 DEF QueueSnapshot, CallInv, CallsOn, worldVars
  <2>2. Flags(snapshots')
    BY <1>4, <2>1, FlagsSet, LookKnows DEF QueueSnapshot, QueueInv
  <2>3. QueueInv'
    BY <1>4, <2>1, <2>2 DEF QueueSnapshot, QueueInv, Flags, Lists
  <2>4. CallInv'
    BY <1>4, <2>1 DEF QueueSnapshot, CallInv, CallsOn
  <2>5. /\ WorldInv' /\ HitsInv' /\ ScanInv' /\ LogInv'
        /\ Recorded' = Recorded
    BY <1>4 DEF QueueSnapshot, worldVars, WorldInv, HitsInv, ScanInv, LogInv, Flags,
       Lists, Recorded, tier4Vars, pollVars, scanVars
  <2> QED
    BY <2>1, <2>3, <2>4, <2>5 DEF LogStep, Log!vars
<1> QED
  BY <1>1, <1>2, <1>3, <1>4 DEF CallbackStep

LEMMA ScanSteps ==
    ASSUME PipelineInv, ScanStep
    PROVE  PipelineInv' /\ LogStep
<1> USE DEF PipelineInv
<1>1. CASE ScanLoop
  <2>1. UNCHANGED pipelineVars
    BY <1>1 DEF ScanLoop, pipelineVars, worldVars, cbVars, tier4Vars, pollVars,
       scanVars
  <2> QED
    BY <2>1, PipelineStutters DEF LogStep, Log!vars
<1>2. CASE ScanBegin \/ ScanEnd
  <2>1. scanEpoch' \in Int
    BY <1>2 DEF ScanBegin, ScanEnd, WorldInv
  <2>2. PipelineInv' /\ Recorded' = Recorded /\ touched' = touched
    BY <1>2, <2>1 DEF ScanBegin, ScanEnd, worldVars, WorldInv, HitsInv, QueueInv,
       CallInv, ScanInv, LogInv, Flags, Lists, Recorded, queueVars, cbVars,
       tier4Vars, pollVars
  <2> QED
    BY <2>2 DEF LogStep, Log!vars
<1>3. CASE ScanDrain \/ ScanLive \/ ScanVm
  <2>1. Flags(snapshots') /\ Lists(vmreadvQ')
    BY <1>3, NothingFlags, ListsEmpty DEF ScanDrain, ScanLive, ScanVm, queueVars,
       QueueInv
  <2>2. Flags(found') /\ Lists(vmFound') /\ scanEpoch' \in Int
    <3>1. CASE ScanDrain \/ ScanVm
      BY <3>1 DEF ScanDrain, ScanVm, QueueInv, ScanInv
    <3>2. CASE ScanLive
      BY <3>2, LookKnows DEF ScanLive, WorldInv, ScanInv, Flags
    <3> QED
      BY <1>3, <3>1, <3>2
  <2>3. PipelineInv' /\ Recorded' = Recorded /\ touched' = touched
    BY <1>3, <2>1, <2>2 DEF ScanDrain, ScanLive, ScanVm, worldVars, WorldInv,
       HitsInv, QueueInv, CallInv, ScanInv, LogInv, Flags, Lists, Recorded, cbVars,
       tier4Vars, pollVars
  <2> QED
    BY <2>3 DEF LogStep, Log!vars
<1>4. ASSUME NEW p \in Pids, ScanFdHit(p) \/ (ScanVmHit /\ p = Head(vmFound))
      PROVE  PipelineInv' /\ LogStep
  <2>1. p \in touched /\ touched' = touched
    BY <1>4, ListsTail DEF ScanFdHit, ScanVmHit, ScanInv, Flags, worldVars
  <2>2. LogInv' /\ (Recorded' = Recorded \/ Recorded' = Recorded \cup {p})
    BY <1>4, <2>1, ConsiderRecords DEF ScanFdHit, ScanVmHit
  <2>3. ScanInv'
    <3>1. Flags(found') /\ Lists(vmFound')
      <4>1. CASE ScanFdHit(p)
        BY <4>1, <2>1, FlagsSet DEF ScanFdHit, ScanInv, Knowledge
      <4>2. CASE ScanVmHit
        BY <4>2, ListsTail DEF ScanVmHit, ScanInv
      <4> QED
        BY <1>4, <4>1, <4>2
    <3> QED
      BY <1>4, <2>1, <3>1 DEF ScanFdHit, ScanVmHit, ScanInv, Flags, Lists
  <2>4. WorldInv' /\ HitsInv' /\ QueueInv' /\ CallInv'
    BY <1>4 DEF ScanFdHit, ScanVmHit, worldVars, WorldInv, HitsInv, QueueInv,
       CallInv, Flags, Lists, queueVars, cbVars, tier4Vars, pollVars
  <2>5. LogStep
    BY <2>1, <2>2 DEF LogStep, Log!Next, Log!Record, Log!vars
  <2> QED
    BY <2>2, <2>3, <2>4, <2>5
<1>5. ScanVmHit => Head(vmFound) \in Pids
  BY ListsTail DEF ScanVmHit, ScanInv
<1> QED
  BY <1>1, <1>2, <1>3, <1>4, <1>5 DEF ScanStep

LEMMA PipelineSteps ==
    PipelineInv /\ [Next]_vars => PipelineInv' /\ LogStep
<1> SUFFICES ASSUME PipelineInv, [Next]_vars
             PROVE  PipelineInv' /\ LogStep
  OBVIOUS
<1>1. CASE UNCHANGED vars \/ \E a \in Emitters : EmitStep(a)
  <2>1. UNCHANGED pipelineVars
    <3>1. CASE UNCHANGED vars
      BY <3>1 DEF vars, pipelineVars, worldVars, cbVars, tier4Vars, pollVars, scanVars
    <3>2. CASE \E a \in Emitters : EmitStep(a)
      BY <3>2 DEF EmitStep, pipelineVars, worldVars, cbVars, tier4Vars, pollVars,
         scanVars
    <3> QED
      BY <1>1, <3>1, <3>2
  <2> QED
    BY <2>1, PipelineStutters DEF LogStep, Log!vars
<1> QED
  BY <1>1, WorldSteps, GameSteps, PollerSteps, CallbackSteps, ScanSteps DEF Next

(* A process held in a queue or by a thread of the pipeline has touched us.*)
THEOREM PipelineSound == Spec => []PipelineInv
<1>1. Init => PipelineInv
  <2> SUFFICES ASSUME Init
               PROVE  PipelineInv
    OBVIOUS
  <2>1. WorldInv /\ HitsInv
    BY DEF Init, WorldInv, HitsInv
  <2>2. QueueInv /\ ScanInv
    BY NothingFlags, ListsEmpty DEF Init, QueueInv, ScanInv
  <2>3. CallInv
    BY DEF Init, CallInv, CallsOn, NoCall, CbPcs, Branches
  <2>4. LogInv
    BY DEF Init, LogInv, Sightings, Recorded
  <2> QED
    BY <2>1, <2>2, <2>3, <2>4 DEF PipelineInv
<1> QED
  BY <1>1, PipelineSteps, PTL DEF Spec

(* The pipeline implements SuspectLog: through every queue, thread and     *)
(* exit, only a process that opened our mem file or read us gets a         *)
(* dossier, and none is ever taken back.                                   *)
THEOREM RefinesLog == Spec => ImplementsLog
<1>1. Init => Log!Init
  BY DEF Init, Log!Init, Recorded
<1>2. PipelineInv /\ [Next]_vars => [Log!Next]_(Log!vars)
  BY PipelineSteps DEF LogStep
<1> QED
  BY <1>1, <1>2, PipelineSound, PTL DEF Spec, ImplementsLog, Log!Spec

-----------------------------------------------------------------------------
(* Epochs move forward through the pipeline: no dossier of a process is    *)
(* dated later than the running scan, or than now between scans, and a     *)
(* scan is never dated later than now.                                     *)
ScanDate == IF scanPc = "scan" THEN scanEpoch ELSE epoch

DateInv ==
    /\ ScanDate <= epoch
    /\ \A p \in Recorded : /\ dossiers[p].first <= dossiers[p].last
                           /\ dossiers[p].last <= ScanDate

DossiersKept ==
    \A p \in Recorded :
       /\ dossiers'[p].first = dossiers[p].first
       /\ dossiers'[p].last >= dossiers[p].last
       /\ dossiers'[p].last >= dossiers'[p].first
       /\ dossiers'[p].seen >= dossiers[p].seen

(* The scan thread is the only one to write the dossier of a process.      *)
LEMMA DossierWriters ==
    ASSUME PipelineInv, [Next]_vars
    PROVE  \/ /\ scanPc = "scan" /\ UNCHANGED <<scanPc, scanEpoch, epoch>>
              /\ \E p \in Pids, k \in Knowledge : Consider(p, k)
           \/ /\ scanPc # "scan" /\ scanEpoch' = epoch /\ epoch' = epoch
              /\ \A p \in Pids : dossiers'[p] = dossiers[p]
           \/ /\ scanPc' # "scan" /\ epoch' = epoch
              /\ \A p \in Pids : dossiers'[p] = dossiers[p]
           \/ /\ UNCHANGED <<scanPc, scanEpoch>> /\ epoch' >= epoch
              /\ \A p \in Pids : dossiers'[p] = dossiers[p]
<1> USE DEF PipelineInv, WorldInv, LogInv, ScanInv
<1>1. CASE WorldStep
  BY <1>1 DEF WorldStep, Tick, OpenMem, CloseMem, VmReadBegin, VmReadEnd, Exit,
     RearmElapsed, World, actVars, scanVars
<1>2. CASE GameStep
  <2>1. UNCHANGED <<dossiers, scanPc, scanEpoch>>
    <3>1. CASE Notify \/ Transition
      BY <3>1 DEF Notify, Transition, A!NotifyHigh, A!NotifyLow, A!Raise, A!Arm,
         A!Announce, A!Lower, A!Disarm, scanVars
    <3>2. CASE Tier4List \/ Tier4Return \/ \E p \in Pids : Tier4Queue(p)
      BY <3>2 DEF Tier4List, Tier4Return, Tier4Queue, A!Tier4, A!Rouse, actVars, scanVars
    <3> QED
      BY <1>2, <3>1, <3>2 DEF GameStep
  <2>2. epoch' >= epoch
    BY <1>2 DEF GameStep, Notify, Transition, Tier4List, Tier4Return, Tier4Queue
  <2> QED
    BY <2>1, <2>2
<1>3. CASE PollerStep
  BY <1>3 DEF PollerStep, PollerSweep, PollerReport, A!Rouse, actVars, scanVars
<1>4. CASE ScanLoop \/ ScanBegin \/ ScanEnd
  BY <1>4 DEF ScanLoop, ScanBegin, ScanEnd, A!ScanWait, A!ScanClear, A!ScanCheck,
     A!ScanReturn, A!ScanMoves
<1>5. CASE ScanDrain \/ ScanLive \/ ScanVm
  BY <1>5 DEF ScanDrain, ScanLive, ScanVm, actVars
<1>6. ASSUME NEW p \in Pids, ScanFdHit(p)
      PROVE  /\ scanPc = "scan" /\ UNCHANGED <<scanPc, scanEpoch, epoch>>
             /\ \E q \in Pids, k \in Knowledge : Consider(q, k)
  <2>1. found[p] \in Knowledge /\ Consider(p, found[p])
    BY <1>6 DEF ScanFdHit, Flags
  <2> QED
    BY <1>6, <2>1 DEF ScanFdHit, AtDossiers, actVars
<1>7. CASE ScanVmHit
  <2>1. Head(vmFound) \in Pids /\ Consider(Head(vmFound), "no") /\ "no" \in Knowledge
    BY <1>7, ListsTail DEF ScanVmHit, Knowledge
  <2> QED
    BY <1>7, <2>1 DEF ScanVmHit, AtDossiers, actVars
<1>8. ASSUME NEW c \in Callers, OnMemOpen(c) \/ CallbackStep(c)
      PROVE  /\ UNCHANGED <<scanPc, scanEpoch, epoch>>
             /\ \A p \in Pids : dossiers'[p] = dossiers[p]
  <2>1. UNCHANGED <<scanPc, scanEpoch, epoch>>
    BY <1>8 DEF OnMemOpen, CallbackStep, Activate, Activating, SnapshotsQueued,
       FastOpen, AnonLimited, AnonAccepted, AnonStamp, AnonRecord, QueueSnapshot,
       A!ForceActive, A!CallerStep, A!ForceArm, A!ForceAnnounce, A!ForceWake,
       A!Rouse, actVars, scanVars
  <2>2. CASE AnonRecord(c)
    <3>1. dossiers' = [dossiers EXCEPT ![Anon] = Updated(Anon, cb[c].epoch)]
      BY <2>2 DEF AnonRecord, RecordDossier
    <3>2. dossiers \in [Pids \cup {Anon} -> Sightings]
      OBVIOUS
    <3> HIDE DEF PipelineInv
    <3> QED
      BY <2>1, <3>1, <3>2, AnonAssumption
  <2>3. CASE ~AnonRecord(c)
    <3>1. UNCHANGED dossiers
      BY <1>8, <2>3 DEF OnMemOpen, CallbackStep, Activate, Activating,
         SnapshotsQueued, FastOpen, AnonLimited, AnonAccepted, AnonStamp,
         QueueSnapshot
    <3> QED
      BY <2>1, <3>1
  <2> QED
    BY <2>1, <2>2, <2>3
<1>9. CASE (\E a \in Emitters : EmitStep(a)) \/ UNCHANGED vars
  BY <1>9 DEF EmitStep, vars, actVars, scanVars
<1> QED
  BY <1>1, <1>2, <1>3, <1>4, <1>5, <1>6, <1>7, <1>8, <1>9 DEF Next, ScanStep

LEMMA DatesKept == PipelineInv /\ DateInv /\ [Next]_vars => DateInv' /\ DossiersKept
<1> SUFFICES ASSUME PipelineInv, DateInv, [Next]_vars
             PROVE  DateInv' /\ DossiersKept
  OBVIOUS
<1> USE DEF PipelineInv, WorldInv, LogInv, ScanInv
<1>1. /\ epoch \in Int /\ scanEpoch \in Int
      /\ \A p \in Pids : dossiers[p] \in Sightings
  OBVIOUS
<1>2. ASSUME scanPc = "scan", UNCHANGED <<scanPc, scanEpoch, epoch>>,
             NEW p \in Pids, NEW k \in Knowledge, Consider(p, k)
      PROVE  DateInv' /\ DossiersKept
  <2>1. CASE ~Buildable(p, k)
    BY <1>1, <1>2, <2>1 DEF Consider, DateInv, DossiersKept, Recorded, ScanDate, Sightings
  <2>2. CASE Buildable(p, k)
    <3>1. dossiers' = [dossiers EXCEPT ![p] = Updated(p, scanEpoch)]
      BY <1>2, <2>2 DEF Consider, RecordDossier
    <3>2. /\ Updated(p, scanEpoch).last = scanEpoch
          /\ Updated(p, scanEpoch).seen >= dossiers[p].seen
          /\ Updated(p, scanEpoch).first \in Int
          /\ dossiers[p].seen > 0 => Updated(p, scanEpoch).first = dossiers[p].first
          /\ ~(dossiers[p].seen > 0) => Updated(p, scanEpoch).first = scanEpoch
      BY <1>1, CountAssumption DEF Updated, Up, Sightings
    <3>3. ScanDate' = scanEpoch /\ ScanDate = scanEpoch /\ epoch' = epoch
      BY <1>2 DEF ScanDate
    <3>4. \A q \in Pids : dossiers'[q] = IF q = p THEN Updated(p, scanEpoch) ELSE dossiers[q]
      BY <3>1
    <3>5. \A q \in Pids : dossiers[q].seen > 0 =>
             /\ dossiers[q].first \in Int /\ dossiers[q].last \in Int /\ dossiers[q].seen \in Nat
             /\ dossiers[q].first <= dossiers[q].last /\ dossiers[q].last <= scanEpoch
      BY <1>1, <3>3 DEF DateInv, Recorded, Sightings
    <3> HIDE DEF PipelineInv, WorldInv, LogInv, ScanInv
    <3>6. DossiersKept
      <4> SUFFICES ASSUME NEW q \in Pids, dossiers[q].seen > 0
                   PROVE  /\ dossiers'[q].first = dossiers[q].first
                          /\ dossiers'[q].last >= dossiers[q].last
                          /\ dossiers'[q].last >= dossiers'[q].first
                          /\ dossiers'[q].seen >= dossiers[q].seen
        BY DEF DossiersKept, Recorded
      <4>1. CASE q = p
        BY <1>1, <3>2, <3>4, <3>5, <4>1
      <4>2. CASE q # p
        BY <3>4, <3>5, <4>2
      <4> QED
        BY <4>1, <4>2
    <3>7. DateInv'
      <4> SUFFICES ASSUME NEW q \in Pids, dossiers'[q].seen > 0
                   PROVE  dossiers'[q].first <= dossiers'[q].last /\ dossiers'[q].last <= scanEpoch
        BY <3>3 DEF DateInv, Recorded
      <4>1. CASE q = p
        BY <1>1, <3>2, <3>4, <3>5, <4>1
      <4>2. CASE q # p
        BY <3>4, <3>5, <4>2
      <4> QED
        BY <4>1, <4>2
    <3> QED
      BY <3>6, <3>7
  <2> QED
    BY <2>1, <2>2
<1>3. ASSUME \A p \in Pids : dossiers'[p] = dossiers[p],
             ScanDate <= ScanDate', ScanDate' <= epoch', ScanDate' \in Int
      PROVE  DateInv' /\ DossiersKept
  <2>1. Recorded' = Recorded /\ Recorded \subseteq Pids
    BY <1>3 DEF Recorded
  <2>2. ScanDate \in Int
    BY <1>1 DEF ScanDate
  <2>3. \A p \in Pids : /\ dossiers[p].first \in Int
                        /\ dossiers[p].last \in Int
                        /\ dossiers[p].seen \in Int
    BY <1>1 DEF Sightings
  <2> HIDE DEF PipelineInv, WorldInv, LogInv, ScanInv
  <2> QED
    BY <1>3, <2>1, <2>2, <2>3 DEF DateInv, DossiersKept
<1>4. CASE /\ scanPc # "scan" /\ scanEpoch' = epoch /\ epoch' = epoch
           /\ \A p \in Pids : dossiers'[p] = dossiers[p]
  BY <1>1, <1>3, <1>4 DEF ScanDate
<1>5. CASE /\ scanPc' # "scan" /\ epoch' = epoch
           /\ \A p \in Pids : dossiers'[p] = dossiers[p]
  BY <1>1, <1>3, <1>5 DEF ScanDate, DateInv
<1>6. CASE /\ UNCHANGED <<scanPc, scanEpoch>> /\ epoch' >= epoch
           /\ \A p \in Pids : dossiers'[p] = dossiers[p]
  <2>1. epoch' \in Int
    BY PipelineSteps
  <2> QED
    BY <1>1, <1>3, <1>6, <2>1 DEF ScanDate, DateInv
<1> QED
  BY <1>2, <1>4, <1>5, <1>6, DossierWriters

(* A dossier keeps its first_seen_epoch and its other numbers never go     *)
(* back, for any interleaving of the scans with the epochs.                *)
THEOREM DossiersAlwaysAdvance == Spec => DossiersAdvance
<1>1. Init => DateInv
  BY DEF Init, A!Init, DateInv, ScanDate, Recorded
<1>2. [DossiersKept]_vars <=>
         [\A p \in Recorded :
             /\ dossiers'[p].first = dossiers[p].first
             /\ dossiers'[p].last >= dossiers[p].last
             /\ dossiers'[p].last >= dossiers'[p].first
             /\ dossiers'[p].seen >= dossiers[p].seen]_vars
  BY DEF DossiersKept
<1> QED
  BY <1>1, <1>2, DatesKept, PipelineSound, PTL DEF Spec, DossiersAdvance

-----------------------------------------------------------------------------
(* The type invariant.  That of the state machine is a theorem of          *)
(* HunterActivation, which holds here because the pipeline implements it.  *)
Machine == INSTANCE HunterActivationProofs

LEMMA RunsMachine == Spec => Machine!Spec
<1>1. Machine!Init <=> A!Init
  BY DEF Machine!Init, A!Init
<1>2. [Machine!Next]_(Machine!vars) <=> [A!Next]_(A!vars)
  BY Zenon DEF Machine!Next, A!Next, Machine!vars, A!vars, Machine!gameVars,
     A!gameVars, Machine!GameStep, A!GameStep, Machine!ScanStep, A!ScanStep,
     Machine!CallerStep, A!CallerStep, Machine!Rouse, A!Rouse,
     Machine!NotifyHigh, A!NotifyHigh, Machine!NotifyLow, A!NotifyLow,
     Machine!Raise, A!Raise, Machine!Arm, A!Arm, Machine!Announce, A!Announce,
     Machine!Lower, A!Lower, Machine!Disarm, A!Disarm, Machine!Tier4, A!Tier4,
     Machine!ForceActive, A!ForceActive, Machine!ForceArm, A!ForceArm,
     Machine!ForceAnnounce, A!ForceAnnounce, Machine!ForceWake, A!ForceWake,
     Machine!ScanWait, A!ScanWait, Machine!ScanClear, A!ScanClear,
     Machine!ScanCheck, A!ScanCheck, Machine!ScanReturn, A!ScanReturn,
     Machine!GameMoves, A!GameMoves, Machine!CallerMoves, A!CallerMoves,
     Machine!ScanMoves, A!ScanMoves, Machine!GoActive, A!GoActive,
     Machine!OneMore, A!OneMore, Machine!OneMoreLow, A!OneMoreLow
<1> QED
  BY <1>1, <1>2, DrivesActivation, PTL DEF Machine!Spec, A!Spec

LEMMA MachineAssumptions ==
    /\ Machine!IsFiniteSet(Callers)
    /\ IdleAfter \in Nat \ {0} /\ MaxTriggers \in Nat
  BY CallersAssumption, IdleAfterAssumption, BoundsAssumption
     DEF Machine!IsFiniteSet, IsFiniteSet

LEMMA MachineTypes == Spec => []A!TypeOK
<1>1. Machine!Spec => []Machine!TypeOK
  <2>1. Machine!IsFiniteSet(Callers)
    BY MachineAssumptions
  <2>2. IdleAfter \in Nat \ {0} /\ MaxTriggers \in Nat
    BY MachineAssumptions
  <2> QED
    BY <2>1, <2>2, Machine!TypeCorrect, PTL
<1>2. Machine!TypeOK <=> A!TypeOK
  BY DEF Machine!TypeOK, A!TypeOK, Machine!States, A!States, Machine!GamePcs,
     A!GamePcs, Machine!CallerPcs, A!CallerPcs, Machine!ScanPcs, A!ScanPcs
<1> QED
  BY <1>1, <1>2, RunsMachine, PTL

(* No activation goes uncounted, and a HIGH score keeps the hunter ACTIVE, *)
(* in the whole pipeline: the theorems of HunterActivation, carried over.  *)
THEOREM PipelineKeepsActivation ==
    Spec => [](A!ScoreKeepsActive /\ A!ActivationsCounted)
<1>1. Machine!Spec => [](Machine!ScoreKeepsActive /\ Machine!ActivationsCounted)
  <2>1. Machine!IsFiniteSet(Callers)
    BY MachineAssumptions
  <2>2. IdleAfter \in Nat \ {0} /\ MaxTriggers \in Nat
    BY MachineAssumptions
  <2>3. Machine!Spec => []Machine!ScoreKeepsActive
    BY <2>1, <2>2, Machine!ScoreAlwaysKeepsActive, PTL
  <2>4. Machine!Spec => []Machine!ActivationsCounted
    BY <2>1, <2>2, Machine!ActivationsAlwaysCounted, PTL
  <2> QED
    BY <2>3, <2>4, PTL
<1>2. Machine!ScoreKeepsActive <=> A!ScoreKeepsActive
  BY DEF Machine!ScoreKeepsActive, A!ScoreKeepsActive
<1>3. Machine!ActivationsCounted <=> A!ActivationsCounted
  <2>1. \A S : Machine!Cardinality(S) = A!Cardinality(S)
    BY DEF Machine!Cardinality, A!Cardinality
  <2> QED
    BY <2>1 DEF Machine!ActivationsCounted, A!ActivationsCounted, Machine!Uncounted,
       A!Uncounted
<1> QED
  BY <1>1, <1>2, <1>3, RunsMachine, PTL

(* The foreign processes, and the numbers bounded by the clock and epoch.  *)
WorldTypes ==
    /\ alive \subseteq Pids /\ held \subseteq alive /\ vmReading \subseteq alive
    /\ clock \in 0..MaxClock
    /\ epoch \in 0..MaxEpoch

LocalTypes ==
    /\ tier4Listed \in BOOLEAN
    /\ recent \subseteq Pids
    /\ scanAt \in ScanAts
    /\ scanEpoch \in 0..MaxEpoch

CallTypes == cb \in [Callers -> Calls] /\ lastAnon \in -1..MaxClock

EmitTypes ==
    /\ dossiers \in [Pids \cup {Anon} -> Dossiers]
    /\ suspectCount \in 0..MaxCount
    /\ packetId \in 0..MaxCount
    /\ emit \in [Emitters -> Emits]

LEMMA WorldTypesKept == WorldTypes /\ [Next]_vars => WorldTypes'
<1> SUFFICES ASSUME WorldTypes, [Next]_vars
             PROVE  WorldTypes'
  OBVIOUS
<1> USE CountAssumption, BoundsAssumption DEF WorldTypes
<1>1. CASE WorldStep
  BY <1>1 DEF WorldStep, Tick, OpenMem, CloseMem, VmReadBegin, VmReadEnd, Exit,
     RearmElapsed, World, worldVars, Pids
<1>2. CASE Notify
  BY <1>2 DEF Notify, worldVars
<1>3. CASE UNCHANGED <<worldVars, epoch>>
  BY <1>3 DEF worldVars
<1>4. CASE GameStep \/ PollerStep \/ ScanStep
  BY <1>2, <1>3, <1>4 DEF GameStep, Transition, Tier4List, Tier4Return, Tier4Queue,
     PollerStep, PollerSweep, PollerReport, ScanStep, ScanLoop, ScanBegin, ScanEnd,
     ScanDrain, ScanLive, ScanVm, ScanFdHit, ScanVmHit
<1>5. ASSUME NEW c \in Callers, OnMemOpen(c) \/ CallbackStep(c)
      PROVE  UNCHANGED <<worldVars, epoch>>
  BY <1>5 DEF OnMemOpen, CallbackStep, Activate, Activating, SnapshotsQueued,
     FastOpen, AnonLimited, AnonAccepted, AnonStamp, AnonRecord, QueueSnapshot
<1>6. CASE (\E a \in Emitters : EmitStep(a)) \/ UNCHANGED vars
  BY <1>3, <1>6 DEF EmitStep, vars
<1> QED
  BY <1>1, <1>3, <1>4, <1>5, <1>6 DEF Next

LEMMA LocalTypesKept == WorldTypes /\ LocalTypes /\ [Next]_vars => LocalTypes'
<1> SUFFICES ASSUME WorldTypes, LocalTypes, [Next]_vars
             PROVE  LocalTypes'
  OBVIOUS
<1> USE CountAssumption DEF WorldTypes, LocalTypes
<1>1. CASE UNCHANGED <<tier4Listed, recent, scanAt, scanEpoch>>
  BY <1>1
<1>2. CASE WorldStep
  BY <1>1, <1>2 DEF WorldStep, Tick, OpenMem, CloseMem, VmReadBegin, VmReadEnd, Exit,
     RearmElapsed, World, tier4Vars, scanVars
<1>3. CASE GameStep
  <2>1. tier4Listed' \in BOOLEAN
    BY <1>3 DEF GameStep, Notify, Transition, Tier4List, Tier4Return, Tier4Queue,
       tier4Vars
  <2>2. UNCHANGED <<recent, scanAt, scanEpoch>>
    BY <1>3 DEF GameStep, Notify, Transition, Tier4List, Tier4Return, Tier4Queue,
       pollVars, scanVars
  <2> QED
    BY <2>1, <2>2
<1>4. CASE PollerStep
  BY <1>4 DEF PollerStep, PollerSweep, PollerReport, tier4Vars, scanVars
<1>5. CASE ScanStep
  <2>1. UNCHANGED <<tier4Listed, recent>>
    BY <1>5 DEF ScanStep, ScanLoop, ScanBegin, ScanEnd, ScanDrain, ScanLive, ScanVm,
       ScanFdHit, ScanVmHit, tier4Vars, pollVars
  <2>2. scanAt' \in ScanAts
    BY <1>5 DEF ScanStep, ScanLoop, ScanBegin, ScanEnd, ScanDrain, ScanLive, ScanVm,
       ScanFdHit, ScanVmHit, ScanMoves, ScanAts, scanVars
  <2>3. scanEpoch' \in 0..MaxEpoch
    BY <1>5 DEF ScanStep, ScanLoop, ScanBegin, ScanEnd, ScanDrain, ScanLive, ScanVm,
       ScanFdHit, ScanVmHit, scanVars
  <2> QED
    BY <2>1, <2>2, <2>3
<1>6. ASSUME NEW c \in Callers, OnMemOpen(c) \/ CallbackStep(c)
      PROVE  UNCHANGED <<tier4Listed, recent, scanAt, scanEpoch>>
  BY <1>6 DEF OnMemOpen, CallbackStep, Activate, Activating, SnapshotsQueued,
     FastOpen, AnonLimited, AnonAccepted, AnonStamp, AnonRecord, QueueSnapshot,
     tier4Vars, pollVars, scanVars
<1>7. CASE (\E a \in Emitters : EmitStep(a)) \/ UNCHANGED vars
  BY <1>1, <1>7 DEF EmitStep, vars, tier4Vars, pollVars, scanVars
<1> QED
  BY <1>1, <1>2, <1>3, <1>4, <1>5, <1>6, <1>7 DEF Next

LEMMA CallTypesKept ==
    PipelineInv /\ WorldTypes /\ CallTypes /\ [Next]_vars => CallTypes'
<1> SUFFICES ASSUME PipelineInv, WorldTypes, CallTypes, [Next]_vars
             PROVE  CallTypes'
  OBVIOUS
<1> USE BoundsAssumption, CountAssumption DEF CallTypes
<1>1. /\ held \in SUBSET Pids /\ clock \in 0..MaxClock /\ epoch \in 0..MaxEpoch
      /\ 0 \in 0..MaxClock /\ 0 \in 0..MaxEpoch /\ NoCall \in Calls
  <2>1. 0 \in 0..MaxClock /\ 0 \in 0..MaxEpoch
    OBVIOUS
  <2>2. NoCall \in Calls
    BY <2>1 DEF NoCall, Calls, CbPcs, Branches
  <2> QED
    BY <2>1, <2>2 DEF WorldTypes, PipelineInv, WorldInv
<1>2. CASE UNCHANGED cbVars
  BY <1>2 DEF cbVars
<1>3. CASE \E c \in Callers : OnMemOpen(c)
  <2>1. PICK c \in Callers : OnMemOpen(c)
    BY <1>3
  <2>2. \E call \in Calls : cb' = [cb EXCEPT ![c] = call]
    BY <1>1, <2>1 DEF OnMemOpen, Calls, CbPcs, Branches
  <2> QED
    BY <2>1, <2>2 DEF OnMemOpen
<1>4. ASSUME NEW c \in Callers, CallbackStep(c)
      PROVE  CallTypes'
  <2>1. cb[c] \in Calls
    OBVIOUS
  <2>2. CASE Activating(c)
    BY <1>2, <2>2 DEF Activating
  <2>3. CASE Activate(c) \/ AnonAccepted(c)
    BY <2>1, <2>3 DEF Activate, AnonAccepted, Calls, CbPcs
  <2>4. CASE AnonStamp(c)
    <3>1. cb[c].now \in 0..MaxClock
      BY <2>1 DEF Calls
    <3>2. cb' \in [Callers -> Calls]
      BY <2>1, <2>4 DEF AnonStamp, Calls, CbPcs
    <3> QED
      BY <2>4, <3>1, <3>2 DEF AnonStamp
  <2>5. CASE SnapshotsQueued(c) \/ FastOpen(c) \/ AnonLimited(c) \/ AnonRecord(c)
    <3>1. cb' = [cb EXCEPT ![c] = NoCall] /\ lastAnon' = lastAnon
      BY <2>5 DEF SnapshotsQueued, FastOpen, AnonLimited, AnonRecord
    <3> QED
      BY <1>1, <3>1
  <2>6. CASE \E p \in Pids : QueueSnapshot(c, p)
    BY <2>1, <2>6 DEF QueueSnapshot, Calls
  <2> QED
    BY <1>4, <2>2, <2>3, <2>4, <2>5, <2>6 DEF CallbackStep
<1>5. \/ UNCHANGED cbVars
      \/ \E c \in Callers : OnMemOpen(c) \/ CallbackStep(c)
  BY DEF Next, WorldStep, Tick, OpenMem, CloseMem, VmReadBegin, VmReadEnd, Exit,
     RearmElapsed, World, GameStep, Notify, Transition, Tier4List, Tier4Return,
     Tier4Queue, PollerStep, PollerSweep, PollerReport, ScanStep, ScanLoop,
     ScanBegin, ScanEnd, ScanDrain, ScanLive, ScanVm, ScanFdHit, ScanVmHit,
     EmitStep, vars
<1> QED
  BY <1>2, <1>3, <1>4, <1>5

(* What the builders of dossiers and frames write. *)
LEMMA SightingTypes ==
    ASSUME EmitTypes, NEW p \in Pids \cup {Anon}, NEW e \in 0..MaxEpoch,
           NEW a \in Emitters, RecordDossier(p, e, a), UNCHANGED counters
    PROVE  EmitTypes'
<1> USE CountAssumption DEF EmitTypes
<1>1. Updated(p, e) \in Dossiers
  BY DEF Updated, Up, Dossiers
<1>2. [pc |-> "count", id |-> 0, pid |-> p] \in Emits
  BY DEF Emits, EmitPcs
<1> QED
  BY <1>1, <1>2 DEF RecordDossier, counters

LEMMA EmitTypesKept ==
    PipelineInv /\ LocalTypes /\ CallTypes /\ EmitTypes /\ [Next]_vars => EmitTypes'
<1> SUFFICES ASSUME PipelineInv, LocalTypes, CallTypes, EmitTypes, [Next]_vars
             PROVE  EmitTypes'
  OBVIOUS
<1> USE CountAssumption
<1>1. CASE UNCHANGED <<dossiers, emitVars>>
  BY <1>1 DEF EmitTypes, emitVars, counters
<1>2. ASSUME NEW a \in Emitters, EmitStep(a)
      PROVE  EmitTypes'
  <2>1. emit[a] \in Emits /\ NoEmit \in Emits
    BY DEF EmitTypes, NoEmit, Emits, EmitPcs
  <2>2. suspectCount' \in 0..MaxCount /\ packetId' \in 0..MaxCount
    BY <1>2 DEF EmitStep, EmitCount, EmitRead, EmitBump, Up, EmitTypes, counters
  <2>3. emit' \in [Emitters -> Emits]
    BY <1>2, <2>1 DEF EmitStep, EmitCount, EmitRead, EmitBump, Emits, EmitPcs,
       EmitTypes
  <2> QED
    BY <1>2, <2>2, <2>3 DEF EmitStep, EmitTypes
<1>3. ASSUME NEW p \in Pids, NEW k, Consider(p, k), UNCHANGED counters
      PROVE  EmitTypes'
  <2>1. "scan" \in Emitters /\ scanEpoch \in 0..MaxEpoch
    BY DEF Emitters, LocalTypes
  <2>2. CASE Buildable(p, k)
    BY <1>3, <2>1, <2>2, SightingTypes DEF Consider
  <2>3. CASE ~Buildable(p, k)
    BY <1>1, <1>3, <2>3 DEF Consider, emitVars
  <2> QED
    BY <2>2, <2>3
<1>4. CASE ScanStep
  <2>1. CASE ScanLoop \/ ScanBegin \/ ScanEnd \/ ScanDrain \/ ScanLive \/ ScanVm
    BY <1>1, <2>1 DEF ScanLoop, ScanBegin, ScanEnd, ScanDrain, ScanLive, ScanVm
  <2>2. ASSUME NEW p \in Pids, ScanFdHit(p)
        PROVE  EmitTypes'
    BY <1>3, <2>2 DEF ScanFdHit
  <2>3. CASE ScanVmHit
    <3>1. Head(vmFound) \in Pids
      BY <2>3, ListsTail DEF ScanVmHit, PipelineInv, ScanInv
    <3> QED
      BY <1>3, <2>3, <3>1 DEF ScanVmHit
  <2> QED
    BY <1>4, <2>1, <2>2, <2>3 DEF ScanStep
<1>5. ASSUME NEW c \in Callers, OnMemOpen(c) \/ CallbackStep(c)
      PROVE  EmitTypes'
  <2>1. CASE AnonRecord(c)
    <3>1. cb[c].epoch \in 0..MaxEpoch /\ c \in Emitters
      BY DEF CallTypes, Calls, Emitters
    <3> QED
      BY <2>1, <3>1, SightingTypes DEF AnonRecord
  <2>2. CASE \/ OnMemOpen(c) \/ Activate(c) \/ Activating(c) \/ SnapshotsQueued(c)
             \/ FastOpen(c) \/ AnonLimited(c) \/ AnonAccepted(c) \/ AnonStamp(c)
             \/ \E p \in Pids : QueueSnapshot(c, p)
    BY <1>1, <2>2 DEF OnMemOpen, Activate, Activating, SnapshotsQueued, FastOpen,
       AnonLimited, AnonAccepted, AnonStamp, QueueSnapshot
  <2> QED
    BY <1>5, <2>1, <2>2 DEF CallbackStep
<1>6. CASE WorldStep \/ GameStep \/ PollerStep \/ UNCHANGED vars
  BY <1>1, <1>6 DEF WorldStep, Tick, OpenMem, CloseMem, VmReadBegin, VmReadEnd, Exit,
     RearmElapsed, World, GameStep, Notify, Transition, Tier4List, Tier4Return,
     Tier4Queue, PollerStep, PollerSweep, PollerReport, vars
<1> QED
  BY <1>2, <1>4, <1>5, <1>6 DEF Next

(* The pipeline keeps its types, for any processes and any bounds. *)
THEOREM TypeCorrect == Spec => []TypeOK
<1> USE CountAssumption, BoundsAssumption
<1>1. Init => WorldTypes /\ LocalTypes /\ CallTypes /\ EmitTypes
  <2> SUFFICES ASSUME Init
               PROVE  WorldTypes /\ LocalTypes /\ CallTypes /\ EmitTypes
    OBVIOUS
  <2>1. 0 \in 0..MaxClock /\ 0 \in 0..MaxEpoch /\ 0 \in 0..MaxCount
    OBVIOUS
  <2>2. WorldTypes /\ LocalTypes
    BY <2>1 DEF Init, WorldTypes, LocalTypes, ScanAts
  <2>3. CallTypes
    BY <2>1 DEF Init, CallTypes, NoCall, Calls, CbPcs, Branches
  <2>4. EmitTypes
    BY <2>1 DEF Init, EmitTypes, Dossiers, NoEmit, Emits, EmitPcs
  <2> QED
    BY <2>2, <2>3, <2>4
<1>2. Spec => [](WorldTypes /\ LocalTypes /\ CallTypes /\ EmitTypes)
  BY <1>1, WorldTypesKept, LocalTypesKept, CallTypesKept, EmitTypesKept,
     PipelineSound, PTL DEF Spec
<1>3. ASSUME A!TypeOK, PipelineInv, WorldTypes, LocalTypes, CallTypes, EmitTypes
      PROVE  TypeOK
  BY <1>3 DEF TypeOK, PipelineInv, WorldInv, HitsInv, QueueInv, ScanInv, Flags, Lists,
     WorldTypes, LocalTypes, CallTypes, EmitTypes
<1> QED
  BY <1>2, <1>3, MachineTypes, PipelineSound, PTL

-----------------------------------------------------------------------------
(* Counting.  A thread that moves between two sets of places in _emit()    *)
(* changes the number of threads there by one at most.                     *)
LEMMA AtMoves ==
    ASSUME DOMAIN emit = Emitters, NEW a \in Emitters, NEW e,
           emit' = [emit EXCEPT ![a] = e], NEW pcs
    PROVE  /\ At(pcs) \in Nat /\ At(pcs)' \in Nat
           /\ (emit[a].pc \in pcs <=> e.pc \in pcs) => At(pcs)' = At(pcs)
           /\ emit[a].pc \notin pcs /\ e.pc \in pcs => At(pcs)' = At(pcs) + 1
           /\ emit[a].pc \in pcs /\ e.pc \notin pcs => At(pcs)' = At(pcs) - 1
<1> DEFINE Before == {x \in Emitters : emit[x].pc \in pcs}
           After  == {x \in Emitters : emit'[x].pc \in pcs}
<1>1. At(pcs) = Cardinality(Before) /\ At(pcs)' = Cardinality(After)
  BY DEF At
<1>2. /\ IsFiniteSet(Before) /\ Cardinality(Before) \in Nat
      /\ IsFiniteSet(After) /\ Cardinality(After) \in Nat
  <2>1. IsFiniteSet(Emitters)
    BY CallersAssumption, FS_AddElement DEF Emitters
  <2>2. Before \subseteq Emitters /\ After \subseteq Emitters
    OBVIOUS
  <2> HIDE DEF Before, After
  <2> QED
    BY <2>1, <2>2, FS_Subset, FS_CardinalityType
<1>3. emit'[a] = e /\ \A x \in Emitters : x # a => emit'[x] = emit[x]
  OBVIOUS
<1>4. (emit[a].pc \in pcs <=> e.pc \in pcs) => After = Before
  BY <1>3
<1>5. ASSUME emit[a].pc \notin pcs, e.pc \in pcs
      PROVE  Cardinality(After) = Cardinality(Before) + 1
  <2>1. After = Before \cup {a} /\ a \notin Before
    BY <1>3, <1>5
  <2> HIDE DEF Before, After
  <2> QED
    BY <1>2, <2>1, FS_AddElement
<1>6. ASSUME emit[a].pc \in pcs, e.pc \notin pcs
      PROVE  Cardinality(After) = Cardinality(Before) - 1
  <2>1. After = Before \ {a} /\ a \in Before
    BY <1>3, <1>6
  <2> HIDE DEF Before, After
  <2> QED
    BY <1>2, <2>1, FS_RemoveElement
<1> HIDE DEF Before, After
<1> QED
  BY <1>1, <1>2, <1>4, <1>5, <1>6

(* The sightings are finitely many.                                        *)
LEMMA SeenFinite == IsFiniteSet(Seen) /\ IsFiniteSet(Seen')
<1> DEFINE All == (Pids \cup {Anon}) \X (1..MaxCount)
<1>1. IsFiniteSet(Pids \cup {Anon})
  BY PidsAssumption, FS_AddElement
<1>2. 1 \in Int /\ MaxCount \in Int
  BY CountAssumption
<1>3. IsFiniteSet(1..MaxCount)
  BY <1>2, FS_Interval
<1>4. IsFiniteSet(All)
  BY <1>1, <1>3, FS_Product
<1>5. Seen \subseteq All /\ Seen' \subseteq All
  BY DEF Seen
<1> QED
  BY <1>4, <1>5, FS_Subset

(* A sighting recorded adds one to the sum of the seen_counts, below its   *)
(* bound.                                                                  *)
LEMMA SeenGrows ==
    ASSUME dossiers \in [Pids \cup {Anon} -> Dossiers], NEW p \in Pids \cup {Anon},
           NEW e, NEW a, RecordDossier(p, e, a)
    PROVE  /\ SeenCounts \in Nat /\ SeenCounts' \in Nat
           /\ \/ SeenCounts' = SeenCounts + 1
              \/ SeenCounts' = SeenCounts /\ MaxCount <= SeenCounts
<1> USE CountAssumption
<1> DEFINE n == dossiers[p].seen
           All == (Pids \cup {Anon}) \X (1..MaxCount)
<1>1. n \in 0..MaxCount
  BY DEF Dossiers
<1>2. IsFiniteSet(Seen) /\ IsFiniteSet(Seen')
  BY SeenFinite
<1>3. SeenCounts \in Nat /\ SeenCounts' \in Nat
  BY <1>2, FS_CardinalityType DEF SeenCounts
<1>4. /\ dossiers'[p].seen = Up(n)
      /\ \A q \in Pids \cup {Anon} : q # p => dossiers'[q] = dossiers[q]
  BY DEF RecordDossier, Updated
<1>5. CASE n < MaxCount
  <2>1. <<p, n + 1>> \notin Seen /\ <<p, n + 1>> \in All
    BY <1>1, <1>5 DEF Seen
  <2>2. \A s \in All : s[2] <= dossiers'[s[1]].seen
                         <=> s = <<p, n + 1>> \/ s[2] <= dossiers[s[1]].seen
    <3> SUFFICES ASSUME NEW q \in Pids \cup {Anon}, NEW k \in 1..MaxCount
                 PROVE  k <= dossiers'[q].seen
                          <=> <<q, k>> = <<p, n + 1>> \/ k <= dossiers[q].seen
      OBVIOUS
    <3>1. CASE q = p
      BY <1>1, <1>4, <1>5, <3>1 DEF Up
    <3>2. CASE q # p
      BY <1>4, <3>2
    <3> QED
      BY <3>1, <3>2
  <2>3. Seen' = Seen \cup {<<p, n + 1>>}
    BY <2>1, <2>2 DEF Seen
  <2>4. SeenCounts' = SeenCounts + 1
    BY <1>2, <2>1, <2>3, FS_AddElement DEF SeenCounts
  <2> QED
    BY <1>3, <2>4
<1>6. CASE n = MaxCount
  <2>1. MaxCount <= SeenCounts
    <3>1. IsFiniteSet({p} \X (1..MaxCount)) /\ Cardinality({p} \X (1..MaxCount)) = MaxCount
      <4>1. /\ IsFiniteSet({p}) /\ Cardinality({p}) = 1
            /\ IsFiniteSet(1..MaxCount) /\ Cardinality(1..MaxCount) = MaxCount
        <5>1. IsFiniteSet({p}) /\ Cardinality({p}) = 1
          BY FS_Singleton
        <5>2. 1 \in Int /\ MaxCount \in Int
          OBVIOUS
        <5>3. /\ IsFiniteSet(1..MaxCount)
              /\ Cardinality(1..MaxCount) = IF 1 > MaxCount THEN 0 ELSE MaxCount - 1 + 1
          BY <5>2, FS_Interval
        <5>4. (IF 1 > MaxCount THEN 0 ELSE MaxCount - 1 + 1) = MaxCount
          OBVIOUS
        <5> QED
          BY <5>1, <5>3, <5>4
      <4>2. /\ IsFiniteSet({p} \X (1..MaxCount))
            /\ Cardinality({p} \X (1..MaxCount)) = 1 * MaxCount
        BY <4>1, FS_Product
      <4> QED
        BY <4>2
    <3>2. {p} \X (1..MaxCount) \subseteq Seen
      BY <1>6 DEF Seen
    <3> QED
      BY <1>2, <3>1, <3>2, FS_Subset DEF SeenCounts
  <2>2. Seen' = Seen
    <3>1. \A q \in Pids \cup {Anon} : dossiers'[q].seen = dossiers[q].seen
      BY <1>4, <1>6 DEF Up
    <3> QED
      BY <3>1 DEF Seen
  <2> QED
    BY <1>3, <2>1, <2>2 DEF SeenCounts
<1> QED
  BY <1>1, <1>3, <1>5, <1>6

-----------------------------------------------------------------------------
(* A Timer thread that is inside _on_mem_open() before _emit() emits       *)
(* nothing yet: so a sighting never overwrites one still to be counted.    *)
EmitFree == \A c \in Callers : cb[c].pc # "out" => emit[c].pc = "no"

CountInv == SightingsCounted /\ EmitFree

CountTypes == CallTypes /\ EmitTypes

(* Counting, sending and being done move a sighting from one place to the  *)
(* next.                                                                   *)
LEMMA EmitKeepsCounts ==
    ASSUME CountTypes, CountInv, NEW a \in Emitters, EmitStep(a)
    PROVE  CountInv'
<1> USE CountAssumption
<1>1. /\ emit \in [Emitters -> Emits] /\ DOMAIN emit = Emitters
      /\ suspectCount \in Nat /\ suspectCount <= MaxCount
      /\ packetId \in Nat /\ packetId <= MaxCount
  BY DEF CountTypes, EmitTypes
<1>2. SeenCounts' = SeenCounts
  BY DEF EmitStep, SeenCounts, Seen
<1>3. EmitFree'
  <2> SUFFICES ASSUME NEW c \in Callers, cb[c].pc # "out"
               PROVE  emit'[c].pc = "no"
    BY DEF EmitFree, EmitStep, cbVars
  <2>1. emit[c].pc = "no"
    BY DEF CountInv, EmitFree
  <2>2. a # c
    BY <2>1 DEF EmitStep, EmitCount, EmitRead, EmitBump
  <2> QED
    <3>1. emit'[c] = emit[c]
      BY <1>1, <2>2 DEF EmitStep, EmitCount, EmitRead, EmitBump, Emitters
    <3> QED
      BY <2>1, <3>1
<1>4. SeenCounts \in Nat
  <2>1. IsFiniteSet(Seen)
    BY SeenFinite
  <2> QED
    BY <2>1, FS_CardinalityType DEF SeenCounts
<1>5. CASE EmitCount(a)
  <2>1. PICK e : e.pc = "read" /\ emit' = [emit EXCEPT ![a] = e]
    <3> DEFINE e == [emit[a] EXCEPT !.pc = "read"]
    <3>1. e.pc = "read" /\ emit' = [emit EXCEPT ![a] = e]
      BY <1>1, <1>5 DEF EmitCount, Emits
    <3> QED
      BY <3>1
  <2>2. /\ At({"count"}) \in Nat /\ At({"count"})' = At({"count"}) - 1
        /\ At({"count"})' \in Nat
    BY <1>1, <1>5, <2>1, AtMoves DEF EmitCount
  <2>3. /\ At({"read", "bump"}) \in Nat
        /\ At({"read", "bump"})' = At({"read", "bump"}) + 1
    BY <1>1, <1>5, <2>1, AtMoves DEF EmitCount
  <2>4. suspectCount' = Up(suspectCount) /\ packetId' = packetId
    BY <1>5 DEF EmitCount
  <2> QED
    BY <1>1, <1>2, <1>3, <1>4, <2>2, <2>3, <2>4 DEF CountInv, SightingsCounted, Up, Capped
<1>6. CASE EmitRead(a)
  <2>1. PICK e : e.pc = "bump" /\ emit' = [emit EXCEPT ![a] = e]
    <3> DEFINE e == [emit[a] EXCEPT !.pc = "bump", !.id = packetId]
    <3>1. e.pc = "bump" /\ emit' = [emit EXCEPT ![a] = e]
      BY <1>1, <1>6 DEF EmitRead, Emits
    <3> QED
      BY <3>1
  <2>2. /\ At({"count"})' = At({"count"})
        /\ At({"read", "bump"})' = At({"read", "bump"})
    <3>1. emit[a].pc = "read"
      BY <1>6 DEF EmitRead
    <3>2. At({"count"})' = At({"count"})
      BY <1>1, <2>1, <3>1, AtMoves
    <3>3. At({"read", "bump"})' = At({"read", "bump"})
      BY <1>1, <2>1, <3>1, AtMoves
    <3> QED
      BY <3>2, <3>3
  <2>3. UNCHANGED counters
    BY <1>6 DEF EmitRead
  <2> QED
    BY <1>2, <1>3, <2>2, <2>3 DEF CountInv, SightingsCounted, counters, Capped
<1>7. CASE EmitBump(a)
  <2>1. NoEmit.pc = "no" /\ emit' = [emit EXCEPT ![a] = NoEmit]
    BY <1>7 DEF EmitBump, NoEmit
  <2>2. At({"count"})' = At({"count"})
    BY <1>1, <1>7, <2>1, AtMoves DEF EmitBump
  <2>3. /\ At({"read", "bump"}) \in Nat /\ At({"read", "bump"})' \in Nat
        /\ At({"read", "bump"})' = At({"read", "bump"}) - 1
    BY <1>1, <1>7, <2>1, AtMoves DEF EmitBump
  <2>4. suspectCount' = suspectCount /\ packetId' = Up(packetId)
    BY <1>7 DEF EmitBump
  <2> QED
    BY <1>1, <1>2, <1>3, <2>2, <2>3, <2>4 DEF CountInv, SightingsCounted, Up, Capped
<1> QED
  BY <1>5, <1>6, <1>7 DEF EmitStep

(* A thread that records a sighting has none in hand: it takes up this one.*)
LEMMA RecordKeepsCounts ==
    ASSUME CountTypes, SightingsCounted, NEW p \in Pids \cup {Anon}, NEW e,
           NEW a \in Emitters, emit[a].pc = "no", RecordDossier(p, e, a),
           UNCHANGED counters
    PROVE  SightingsCounted'
<1> USE CountAssumption
<1>1. DOMAIN emit = Emitters /\ suspectCount \in Nat
  BY DEF CountTypes, EmitTypes
<1>2. PICK f : f.pc = "count" /\ emit' = [emit EXCEPT ![a] = f]
  BY DEF RecordDossier
<1>3. At({"count"}) \in Nat /\ At({"count"})' = At({"count"}) + 1
  BY <1>1, <1>2, AtMoves
<1>4. At({"read", "bump"})' = At({"read", "bump"})
  BY <1>1, <1>2, AtMoves
<1>5. /\ SeenCounts \in Nat /\ SeenCounts' \in Nat
      /\ \/ SeenCounts' = SeenCounts + 1
         \/ SeenCounts' = SeenCounts /\ MaxCount <= SeenCounts
  <2>1. dossiers \in [Pids \cup {Anon} -> Dossiers]
    BY DEF CountTypes, EmitTypes
  <2> QED
    BY <2>1, SeenGrows
<1>6. suspectCount' = suspectCount /\ packetId' = packetId
  BY DEF counters
<1> QED
  BY <1>1, <1>3, <1>4, <1>5, <1>6 DEF SightingsCounted, Capped

LEMMA CountInvKept == PipelineInv /\ CountTypes /\ CountInv /\ [Next]_vars => CountInv'
<1> SUFFICES ASSUME PipelineInv, CountTypes, CountInv, [Next]_vars
             PROVE  CountInv'
  OBVIOUS
<1>1. /\ SightingsCounted /\ EmitFree
      /\ cb \in [Callers -> Calls] /\ emit \in [Emitters -> Emits]
      /\ Callers \subseteq Emitters /\ "scan" \in Emitters
  BY DEF CountInv, CountTypes, CallTypes, EmitTypes, Emitters
<1>2. UNCHANGED <<dossiers, emitVars>> => SightingsCounted'
  BY <1>1 DEF emitVars, counters, SightingsCounted, Capped, SeenCounts, Seen, At
<1>3. CASE UNCHANGED <<dossiers, emitVars, cb>>
  BY <1>1, <1>2, <1>3 DEF CountInv, EmitFree, emitVars
<1>4. ASSUME NEW p \in Pids, NEW k, Consider(p, k), emit["scan"].pc = "no",
             UNCHANGED <<counters, cb>>
      PROVE  CountInv'
  <2>1. CASE Buildable(p, k)
    <3>1. RecordDossier(p, scanEpoch, "scan")
      BY <1>4, <2>1 DEF Consider
    <3>2. SightingsCounted'
      BY <1>1, <1>4, <3>1, RecordKeepsCounts
    <3>3. EmitFree'
      BY <1>1, <1>4, <3>1, CallersAssumption DEF RecordDossier, EmitFree
    <3> QED
      BY <3>2, <3>3 DEF CountInv
  <2>2. CASE ~Buildable(p, k)
    BY <1>3, <1>4, <2>2 DEF Consider, emitVars
  <2> QED
    BY <2>1, <2>2
<1>5. CASE ScanStep
  <2>1. CASE ScanLoop \/ ScanBegin \/ ScanEnd \/ ScanDrain \/ ScanLive \/ ScanVm
    BY <1>3, <2>1 DEF ScanLoop, ScanBegin, ScanEnd, ScanDrain, ScanLive, ScanVm, cbVars
  <2>2. ASSUME NEW p \in Pids, ScanFdHit(p)
        PROVE  CountInv'
    BY <1>4, <2>2 DEF ScanFdHit, AtDossiers, cbVars
  <2>3. CASE ScanVmHit
    <3>1. Head(vmFound) \in Pids
      BY <2>3, ListsTail DEF ScanVmHit, PipelineInv, ScanInv
    <3> QED
      BY <1>4, <2>3, <3>1 DEF ScanVmHit, AtDossiers, cbVars
  <2> QED
    BY <1>5, <2>1, <2>2, <2>3 DEF ScanStep
<1>6. ASSUME NEW c \in Callers, OnMemOpen(c) \/ CallbackStep(c)
      PROVE  CountInv'
  <2>1. CASE AnonRecord(c)
    <3>1. emit[c].pc = "no" /\ cb[c].pc = "record"
      BY <1>1, <2>1 DEF AnonRecord, EmitFree
    <3>2. SightingsCounted'
      BY <1>1, <2>1, <3>1, RecordKeepsCounts DEF AnonRecord
    <3>3. EmitFree'
      BY <1>1, <2>1 DEF AnonRecord, RecordDossier, EmitFree, NoCall
    <3> QED
      BY <3>2, <3>3 DEF CountInv
  <2>2. CASE OnMemOpen(c)
    <3>1. emit[c].pc = "no" /\ \A d \in Callers : d # c => cb'[d] = cb[d]
      BY <1>1, <2>2 DEF OnMemOpen
    <3> QED
      BY <1>1, <1>2, <2>2, <3>1 DEF OnMemOpen, CountInv, EmitFree, emitVars
  <2>3. CASE \/ Activate(c) \/ Activating(c) \/ SnapshotsQueued(c) \/ FastOpen(c)
             \/ AnonLimited(c) \/ AnonAccepted(c) \/ AnonStamp(c)
             \/ \E p \in Pids : QueueSnapshot(c, p)
    <3>1. /\ \A d \in Callers : cb'[d].pc # "out" => cb[d].pc # "out"
          /\ UNCHANGED <<dossiers, emitVars>>
      <4>1. CASE Activating(c)
        BY <4>1 DEF Activating, cbVars
      <4>2. CASE Activate(c) \/ AnonAccepted(c) \/ AnonStamp(c)
                 \/ \E p \in Pids : QueueSnapshot(c, p)
        BY <1>1, <4>2 DEF Activate, AnonAccepted, AnonStamp, QueueSnapshot, Activated,
           Calls
      <4>3. CASE SnapshotsQueued(c) \/ FastOpen(c) \/ AnonLimited(c)
        BY <1>1, <4>3 DEF SnapshotsQueued, FastOpen, AnonLimited, NoCall
      <4> QED
        BY <2>3, <4>1, <4>2, <4>3
    <3> QED
      BY <1>1, <1>2, <3>1 DEF CountInv, EmitFree, emitVars
  <2> QED
    BY <1>6, <2>1, <2>2, <2>3 DEF CallbackStep
<1>7. CASE WorldStep \/ GameStep \/ PollerStep \/ UNCHANGED vars
  BY <1>3, <1>7 DEF WorldStep, Tick, OpenMem, CloseMem, VmReadBegin, VmReadEnd, Exit,
     RearmElapsed, World, GameStep, Notify, Transition, Tier4List, Tier4Return,
     Tier4Queue, PollerStep, PollerSweep, PollerReport, vars, cbVars
<1>8. CASE \E a \in Emitters : EmitStep(a)
  BY <1>8, EmitKeepsCounts
<1> QED
  BY <1>5, <1>6, <1>7, <1>8 DEF Next

(* Every sighting is counted and every counted sighting sent, once, for    *)
(* any number of Timer threads and any number of processes.                *)
THEOREM SightingsAlwaysCounted == Spec => []SightingsCounted
<1> USE CountAssumption
<1>1. Init => CountInv
  <2> SUFFICES ASSUME Init
               PROVE  CountInv
    OBVIOUS
  <2>1. Seen = {}
    BY DEF Init, Seen
  <2>2. {a \in Emitters : emit[a].pc \in {"count"}} = {}
    BY DEF Init, NoEmit
  <2>3. {a \in Emitters : emit[a].pc \in {"read", "bump"}} = {}
    BY DEF Init, NoEmit
  <2>4. SeenCounts = 0 /\ At({"count"}) = 0 /\ At({"read", "bump"}) = 0
    BY <2>1, <2>2, <2>3, FS_EmptySet DEF SeenCounts, At
  <2>5. suspectCount = 0 /\ packetId = 0 /\ EmitFree
    BY DEF Init, EmitFree, NoCall
  <2> QED
    BY <2>4, <2>5 DEF CountInv, SightingsCounted, Capped
<1>2. TypeOK => CountTypes
  BY DEF TypeOK, CountTypes, CallTypes, EmitTypes
<1>3. CountInv => SightingsCounted
  BY DEF CountInv
<1> QED
  BY <1>1, <1>2, <1>3, CountInvKept, TypeCorrect, PipelineSound, PTL DEF Spec

-----------------------------------------------------------------------------
(* A scan begins with empty hands, so that Phase A and Phase C overwrite   *)
(* nothing.                                                                *)
EmptyHanded ==
    /\ scanAt \in {"drain", "live", "vm"} => vmFound = <<>>
    /\ scanAt = "drain" => found = Nothing

LEMMA EmptyHandedKept == EmptyHanded /\ [Next]_vars => EmptyHanded'
<1> SUFFICES ASSUME EmptyHanded, [Next]_vars PROVE EmptyHanded'
  OBVIOUS
<1> USE DEF EmptyHanded, Nothing
<1>1. CASE UNCHANGED <<scanAt, found, vmFound>>
  BY <1>1
<1>2. CASE ScanStep
  <2>1. CASE ScanLoop \/ ScanBegin
    BY <1>1, <2>1 DEF ScanLoop, ScanBegin, scanVars
  <2>2. CASE ScanDrain \/ ScanLive \/ ScanVm
    BY <2>2 DEF ScanDrain, ScanLive, ScanVm, ScanMoves
  <2>3. CASE ScanVmHit \/ ScanEnd \/ \E p \in Pids : ScanFdHit(p)
    BY <2>3 DEF ScanVmHit, ScanEnd, ScanFdHit, AtDossiers
  <2> QED BY <1>2, <2>1, <2>2, <2>3 DEF ScanStep
<1>3. ASSUME NEW c \in Callers, OnMemOpen(c) \/ CallbackStep(c)
      PROVE  UNCHANGED <<scanAt, found, vmFound>>
  BY <1>3 DEF OnMemOpen, CallbackStep, Activate, Activating, SnapshotsQueued,
     FastOpen, AnonLimited, AnonAccepted, AnonStamp, AnonRecord, QueueSnapshot, scanVars
<1>4. CASE \/ WorldStep \/ GameStep \/ PollerStep \/ UNCHANGED vars
           \/ \E a \in Emitters : EmitStep(a)
  BY <1>1, <1>4 DEF WorldStep, Tick, OpenMem, CloseMem, VmReadBegin, VmReadEnd, Exit,
     RearmElapsed, World, GameStep, Notify, Transition, Tier4List, Tier4Return,
     Tier4Queue, PollerStep, PollerSweep, PollerReport, EmitStep, vars, scanVars
<1> QED BY <1>1, <1>2, <1>3, <1>4 DEF Next

(* A listing that replaces a snapshot knows the process as long as it is   *)
(* alive.                                                                  *)
LEMMA LookReplaces ==
    ASSUME Flags(snapshots), NEW q \in Pids, UNCHANGED found,
           snapshots' = [snapshots EXCEPT ![q] = Look(q)]
    PROVE  KnownStays
BY DEF Flags, Look, KnownStays

LEMMA KnownStaysWhen ==
    ASSUME UNCHANGED <<snapshots, found>>
    PROVE  KnownStays
BY DEF KnownStays

LEMMA KnownSteps == PipelineInv /\ EmptyHanded /\ [Next]_vars => KnownStays
<1> SUFFICES ASSUME PipelineInv, EmptyHanded, [Next]_vars PROVE KnownStays
  OBVIOUS
<1>1. Flags(snapshots) /\ Flags(found) /\ dossiers \in [Pids \cup {Anon} -> Sightings]
  BY DEF PipelineInv, QueueInv, ScanInv, LogInv
<1>2. ASSUME NEW q \in Pids, Tier4Queue(q) PROVE KnownStays
  BY <1>1, <1>2, LookReplaces DEF Tier4Queue, scanVars
<1>3. CASE GameStep
  BY <1>2, <1>3, KnownStaysWhen DEF GameStep, Notify, Transition, Tier4List, Tier4Return,
     queueVars, scanVars
<1>4. ASSUME NEW c \in Callers, OnMemOpen(c) \/ CallbackStep(c) PROVE KnownStays
  <2>1. ASSUME NEW q \in Pids, QueueSnapshot(c, q) PROVE KnownStays
    BY <1>1, <2>1, LookReplaces DEF QueueSnapshot, scanVars
  <2> QED
    BY <1>4, <2>1, KnownStaysWhen DEF OnMemOpen, CallbackStep, Activate, Activating,
       SnapshotsQueued, FastOpen, AnonLimited, AnonAccepted, AnonStamp, AnonRecord,
       queueVars, scanVars
<1>5. CASE ScanStep
  <2>1. CASE ScanLoop \/ ScanBegin \/ ScanVm \/ ScanVmHit \/ ScanEnd
    BY <2>1, KnownStaysWhen DEF ScanLoop, ScanBegin, ScanVm, ScanVmHit, ScanEnd,
       queueVars, scanVars
  <2>2. CASE ScanDrain
    BY <2>2 DEF ScanDrain, ScanMoves, EmptyHanded, Nothing, KnownStays
  <2>3. CASE ScanLive
    BY <2>3 DEF ScanLive, queueVars, KnownStays
  <2>4. ASSUME NEW q \in Pids, ScanFdHit(q) PROVE KnownStays
    <3>1. UNCHANGED snapshots /\ found' = [found EXCEPT ![q] = "no"]
      BY <2>4 DEF ScanFdHit, queueVars
    <3>2. found[q] = "known" => dossiers'[q] = Updated(q, scanEpoch)
      <4> SUFFICES ASSUME found[q] = "known" PROVE dossiers'[q] = Updated(q, scanEpoch)
        OBVIOUS
      <4>1. dossiers' = [dossiers EXCEPT ![q] = Updated(q, scanEpoch)]
        BY <2>4 DEF ScanFdHit, Consider, Buildable, RecordDossier
      <4> QED BY <1>1, <4>1
    <3> QED BY <1>1, <3>1, <3>2 DEF KnownStays, Flags
  <2> QED BY <1>5, <2>1, <2>2, <2>3, <2>4 DEF ScanStep
<1>6. CASE \/ WorldStep \/ PollerStep \/ UNCHANGED vars
           \/ \E a \in Emitters : EmitStep(a)
  BY <1>6, KnownStaysWhen DEF WorldStep, Tick, OpenMem, CloseMem, VmReadBegin, VmReadEnd,
     Exit, RearmElapsed, World, PollerStep, PollerSweep, PollerReport, EmitStep, vars,
     queueVars, scanVars
<1> QED BY <1>3, <1>4, <1>5, <1>6 DEF Next

(* For any processes and threads: no exit, no new scan, no IDLE and no     *)
(* other thread loses what is known of a process on its way from queue to  *)
(* dossier; only a look at it after its exit may replace it.               *)
THEOREM KnownAlwaysKept == Spec => KnownKept
<1>1. Init => EmptyHanded
  BY DEF Init, EmptyHanded
<1> QED
  BY <1>1, EmptyHandedKept, KnownSteps, PipelineSound, PTL DEF Spec, KnownKept

=============================================================================
