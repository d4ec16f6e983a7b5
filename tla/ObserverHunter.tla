---------------------------- MODULE ObserverHunter ----------------------------
(***************************************************************************)
(* Class ObserverHunter of src/python_prototype/phase1_tracker.py: the     *)
(* activation state machine of HunterActivation together with the          *)
(* detection pipeline it drives.                                           *)
(*                                                                         *)
(*   Timer threads   _on_mem_open(): list the fd tables, activate, queue   *)
(*                   snapshots or record an anonymous opener               *)
(*   game thread     notify_score(), with its Tier 4 scan                  *)
(*   poller thread   _VmReadvPoller._run() and _on_vmreadv_hit()           *)
(*   scan thread     _scan(): drain both queues, list the fd tables, build *)
(*                   and emit the dossiers                                 *)
(*                                                                         *)
(* When a Timer thread gets to call _on_mem_open() is InotifyWatcher's     *)
(* business; here it may do so at any time.                                *)
(***************************************************************************)
EXTENDS Integers, Sequences, FiniteSets

CONSTANTS
    Openers,      \* foreign processes that open our mem file
    VmReaders,    \* foreign processes that call process_vm_readv
    Opaque,       \* whether some fd table may be unreadable (a root process)
    Anon,         \* the pid -1 of the anonymous dossier
    Callers,      \* Timer threads inside _on_mem_open() at once (a bound)
    IdleAfter,    \* HunterConfig.idle_after_epochs
    MaxTriggers,  \* activations are counted up to this
    MaxEpoch,     \* bound on the epoch number
    MaxClock,     \* bound on the clock, in units of _ANON_LOG_COOLDOWN_S
    MaxVmQueue,   \* bound on the length of _vmreadv_q
    MaxCount      \* counters are counted up to this

Pids == Openers \cup VmReaders

ASSUME AnonAssumption == Anon \notin Pids
ASSUME OpaqueAssumption == Opaque \in BOOLEAN
ASSUME CountAssumption == MaxCount \in Nat \ {0} /\ MaxEpoch \in Nat
ASSUME CallersAssumption == IsFiniteSet(Callers) /\ "scan" \notin Callers
ASSUME PidsAssumption == IsFiniteSet(Pids)
ASSUME IdleAfterAssumption == IdleAfter \in Nat \ {0}
ASSUME BoundsAssumption == MaxTriggers \in Nat /\ MaxClock \in Nat

VARIABLES
    \* the state machine, as in HunterActivation
    state, pollerActive, lowStreak, triggerCount, wake, gamePc, gameSaw,
    scoreHigh, callerPc, scanPc, activations, hadHigh,
    \* the outside world
    alive, held, vmReading, clock,
    \* shared state of the pipeline
    epoch,         \* self._epoch
    snapshots,     \* self._snapshot_q: per pid, the last snapshot queued
    vmreadvQ,      \* self._vmreadv_q
    dossiers,      \* self._dossiers
    suspectCount,  \* self.suspect_count
    packetId,      \* self._packet_id
    lastAnon,      \* self._last_anon_log
    \* locals of the threads
    cb,            \* _on_mem_open(), per Timer thread
    tier4Hits,     \* hits of the Tier 4 scan still to be queued
    tier4Listed,   \* the Tier 4 listing of this call has been done
    pollerHits,    \* readers the poller has found and is about to report
    recent,        \* _last_report: reported within _VMREADV_REARM_S
    scanAt, scanEpoch, found, vmFound,   \* _scan()
    emit,          \* _emit(), per thread that may be in it
    touched        \* auxiliary: processes that have opened or read our memory

A == INSTANCE HunterActivation

actVars    == <<state, pollerActive, wake, triggerCount, activations, gamePc,
                gameSaw, scoreHigh, lowStreak, hadHigh, callerPc, scanPc>>
worldVars  == <<alive, held, vmReading, clock, touched>>
counters   == <<suspectCount, packetId>>
emitVars   == <<counters, emit>>
cbVars     == <<cb, lastAnon>>
tier4Vars  == <<tier4Hits, tier4Listed>>
pollVars   == <<pollerHits, recent>>
scanVars   == <<scanAt, scanEpoch, found, vmFound>>
queueVars  == <<snapshots, vmreadvQ>>
vars == <<actVars, worldVars, epoch, queueVars, dossiers, emitVars, cbVars,
          tier4Vars, pollVars, scanVars>>

(* "scan" is the scan thread in _emit() *)
Emitters == Callers \cup {"scan"}

(* What is known of a pid from a queued snapshot or a listing: nothing;    *)
(* its fds only (it was gone when exe and cmdline were read); or exe and   *)
(* cmdline too.                                                            *)
Knowledge == {"no", "bare", "known"}

Branches == {"none", "named", "fast", "anon"}
CbPcs    == {"out", "activate", "activating", "stamp", "record"}
ScanAts  == {"drain", "live", "vm", "dossiers"}
EmitPcs  == {"no", "count", "read", "bump"}

NoCall   == [pc |-> "out", branch |-> "none", hits |-> {}, now |-> 0, epoch |-> 0]
Calls    == [pc : CbPcs, branch : Branches, hits : SUBSET Pids,
             now : 0..MaxClock, epoch : 0..MaxEpoch]
NoEmit   == [pc |-> "no", id |-> 0, pid |-> Anon]
Emits    == [pc : EmitPcs, id : 0..MaxCount, pid : Pids \cup {Anon}]
Dossiers == [seen : 0..MaxCount, first : 0..MaxEpoch, last : 0..MaxEpoch]

TypeOK ==
    /\ A!TypeOK
    /\ alive \subseteq Pids /\ held \subseteq alive /\ vmReading \subseteq alive
    /\ clock \in 0..MaxClock
    /\ touched \subseteq Pids
    /\ epoch \in 0..MaxEpoch
    /\ snapshots \in [Pids -> Knowledge]
    /\ vmreadvQ \in Seq(Pids)
    /\ dossiers \in [Pids \cup {Anon} -> Dossiers]
    /\ suspectCount \in 0..MaxCount
    /\ packetId \in 0..MaxCount
    /\ lastAnon \in -1..MaxClock
    /\ cb \in [Callers -> Calls]
    /\ tier4Hits \subseteq Pids
    /\ tier4Listed \in BOOLEAN
    /\ pollerHits \subseteq Pids /\ recent \subseteq Pids
    /\ scanAt \in ScanAts
    /\ scanEpoch \in 0..MaxEpoch
    /\ found \in [Pids -> Knowledge]
    /\ vmFound \in Seq(Pids)
    /\ emit \in [Emitters -> Emits]

Nothing == [p \in Pids |-> "no"]

(* _last_anon_log starts at 0.0, long before any time.monotonic() *)
Init ==
    /\ A!Init
    /\ alive = Pids /\ held = {} /\ vmReading = {} /\ clock = 0 /\ touched = {}
    /\ epoch = 0
    /\ snapshots = Nothing
    /\ vmreadvQ = <<>>
    /\ dossiers = [p \in Pids \cup {Anon} |-> [seen |-> 0, first |-> 0, last |-> 0]]
    /\ suspectCount = 0
    /\ packetId = 0
    /\ lastAnon = -1
    /\ cb = [c \in Callers |-> NoCall]
    /\ tier4Hits = {} /\ tier4Listed = FALSE
    /\ pollerHits = {} /\ recent = {}
    /\ scanAt = "drain" /\ scanEpoch = 0 /\ found = Nothing /\ vmFound = <<>>
    /\ emit = [a \in Emitters |-> NoEmit]

Up(n)   == IF n < MaxCount THEN n + 1 ELSE n
(* Mutation: what could not be read is None instead of "". *)
LookNone(p) == IF p \in alive THEN "known" ELSE "None"

Look(p) == IF p \in alive THEN "known" ELSE "bare"

-----------------------------------------------------------------------------
(* The outside world: foreign processes and the clock *)
World ==
    /\ UNCHANGED <<actVars, epoch, queueVars, dossiers, emitVars, cbVars,
                   tier4Vars, pollerHits, scanVars>>

OpenMem(p) ==
    /\ p \in (Openers \cap alive) \ held
    /\ held' = held \cup {p}
    /\ touched' = touched \cup {p}
    /\ World /\ UNCHANGED <<alive, vmReading, clock, recent>>

CloseMem(p) ==
    /\ p \in held
    /\ held' = held \ {p}
    /\ World /\ UNCHANGED <<alive, vmReading, clock, touched, recent>>

VmReadBegin(p) ==
    /\ p \in (VmReaders \cap alive) \ vmReading
    /\ vmReading' = vmReading \cup {p}
    /\ touched' = touched \cup {p}
    /\ World /\ UNCHANGED <<alive, held, clock, recent>>

VmReadEnd(p) ==
    /\ p \in vmReading
    /\ vmReading' = vmReading \ {p}
    /\ World /\ UNCHANGED <<alive, held, clock, touched, recent>>

Exit(p) ==
    /\ p \in alive
    /\ alive' = alive \ {p}
    /\ held' = held \ {p}
    /\ vmReading' = vmReading \ {p}
    /\ World /\ UNCHANGED <<clock, touched, recent>>

Tick ==
    /\ clock < MaxClock
    /\ clock' = clock + 1
    /\ World /\ UNCHANGED <<alive, held, vmReading, touched, recent>>

RearmElapsed(p) ==
    /\ p \in recent
    /\ recent' = recent \ {p}
    /\ World /\ UNCHANGED worldVars

-----------------------------------------------------------------------------
(* The game thread *)
Notify ==
    /\ A!NotifyHigh \/ A!NotifyLow
    /\ epoch' = IF epoch < MaxEpoch THEN epoch + 1 ELSE epoch
    /\ UNCHANGED <<worldVars, queueVars, dossiers, emitVars, cbVars, tier4Vars,
                   pollVars, scanVars>>

(* Mutation: an IDLE hunter forgets the snapshots that wait. *)
TransitionForgets ==
    /\ A!Raise \/ A!Arm \/ A!Announce \/ A!Lower \/ A!Disarm
    /\ snapshots' = IF gamePc = "disarm" THEN Nothing ELSE snapshots
    /\ UNCHANGED <<worldVars, epoch, vmreadvQ, dossiers, emitVars, cbVars,
                   tier4Vars, pollVars, scanVars>>

Transition ==
    /\ A!Raise \/ A!Arm \/ A!Announce \/ A!Lower \/ A!Disarm
    /\ UNCHANGED <<worldVars, epoch, queueVars, dossiers, emitVars, cbVars,
                   tier4Vars, pollVars, scanVars>>

(* Tier 4 runs when the hunter was ACTIVE at the start of the call *)
Tier4List ==
    /\ gamePc = "tier4" /\ gameSaw /\ ~tier4Listed
    /\ tier4Listed' = TRUE
    /\ tier4Hits' = held
    /\ UNCHANGED <<actVars, worldVars, epoch, queueVars, dossiers, emitVars,
                   cbVars, pollVars, scanVars>>

Tier4Queue(p) ==
    /\ gamePc = "tier4" /\ p \in tier4Hits
    /\ snapshots' = [snapshots EXCEPT ![p] = Look(p)]
    /\ tier4Hits' = tier4Hits \ {p}
    /\ A!Rouse
    /\ UNCHANGED <<worldVars, epoch, vmreadvQ, dossiers, emitVars, cbVars,
                   tier4Listed, pollVars, scanVars>>

Tier4Return ==
    /\ A!Tier4
    /\ gameSaw => tier4Listed /\ tier4Hits = {}
    /\ tier4Listed' = FALSE
    /\ UNCHANGED <<worldVars, epoch, queueVars, dossiers, emitVars, cbVars,
                   tier4Hits, pollVars, scanVars>>

GameStep == Notify \/ Transition \/ Tier4List \/ Tier4Return
              \/ \E p \in Pids : Tier4Queue(p)

-----------------------------------------------------------------------------
(* _on_mem_open(), in a Timer thread.  eperm: the fd table of some process *)
(* could not be listed.  The anonymous branch reads now and cur_epoch      *)
(* before it activates.                                                    *)
OnMemOpen(c) ==
    /\ cb[c].pc = "out" /\ emit[c].pc = "no"
    /\ \E eperm \in {FALSE, Opaque} :
          LET branch == IF held # {} THEN "named" ELSE IF eperm THEN "anon" ELSE "fast"
          IN  cb' = [cb EXCEPT ![c] =
                       [pc     |-> "activate",
                        branch |-> branch,
                        hits   |-> held,
                        now    |-> IF branch = "anon" THEN clock ELSE 0,
                        epoch  |-> IF branch = "anon" THEN epoch ELSE 0]]
    /\ UNCHANGED <<actVars, worldVars, epoch, queueVars, dossiers, emitVars,
                   lastAnon, tier4Vars, pollVars, scanVars>>

Activate(c) ==
    /\ cb[c].pc = "activate"
    /\ A!ForceActive(c)
    /\ cb' = [cb EXCEPT ![c].pc = "activating"]
    /\ UNCHANGED <<worldVars, epoch, queueVars, dossiers, emitVars, lastAnon,
                   tier4Vars, pollVars, scanVars>>

Activating(c) ==
    /\ A!CallerStep(c)
    /\ UNCHANGED <<worldVars, epoch, queueVars, dossiers, emitVars, cbVars,
                   tier4Vars, pollVars, scanVars>>

Activated(c) == cb[c].pc = "activating" /\ callerPc[c] = "out"

QueueSnapshot(c, p) ==
    /\ Activated(c) /\ p \in cb[c].hits
    /\ snapshots' = [snapshots EXCEPT ![p] = Look(p)]
    /\ cb' = [cb EXCEPT ![c].hits = @ \ {p}]
    /\ UNCHANGED <<actVars, worldVars, epoch, vmreadvQ, dossiers, emitVars,
                   lastAnon, tier4Vars, pollVars, scanVars>>

SnapshotsQueued(c) ==
    /\ Activated(c) /\ cb[c].branch = "named" /\ cb[c].hits = {}
    /\ A!Rouse
    /\ cb' = [cb EXCEPT ![c] = NoCall]
    /\ UNCHANGED <<worldVars, epoch, queueVars, dossiers, emitVars, lastAnon,
                   tier4Vars, pollVars, scanVars>>

FastOpen(c) ==
    /\ Activated(c) /\ cb[c].branch = "fast"
    /\ cb' = [cb EXCEPT ![c] = NoCall]
    /\ UNCHANGED <<actVars, worldVars, epoch, queueVars, dossiers, emitVars,
                   lastAnon, tier4Vars, pollVars, scanVars>>

CooledDown(c) == cb[c].now - lastAnon >= 1

AnonLimited(c) ==
    /\ Activated(c) /\ cb[c].branch = "anon" /\ ~CooledDown(c)
    /\ cb' = [cb EXCEPT ![c] = NoCall]
    /\ UNCHANGED <<actVars, worldVars, epoch, queueVars, dossiers, emitVars,
                   lastAnon, tier4Vars, pollVars, scanVars>>

(* the cooldown is tested and then restarted, with no lock *)
AnonAccepted(c) ==
    /\ Activated(c) /\ cb[c].branch = "anon" /\ CooledDown(c)
    /\ cb' = [cb EXCEPT ![c].pc = "stamp"]
    /\ UNCHANGED <<actVars, worldVars, epoch, queueVars, dossiers, emitVars,
                   lastAnon, tier4Vars, pollVars, scanVars>>

AnonStamp(c) ==
    /\ cb[c].pc = "stamp"
    /\ lastAnon' = cb[c].now
    /\ cb' = [cb EXCEPT ![c].pc = "record"]
    /\ UNCHANGED <<actVars, worldVars, epoch, queueVars, dossiers, emitVars,
                   tier4Vars, pollVars, scanVars>>

(* Mutation: a later sighting builds the dossier anew. *)
UpdatedAnew(p, e) == [seen |-> Up(dossiers[p].seen), first |-> e, last |-> e]

(* the dossier of p seen in epoch e *)
Updated(p, e) ==
    [seen  |-> Up(dossiers[p].seen),
     first |-> IF dossiers[p].seen = 0 THEN e ELSE dossiers[p].first,
     last  |-> e]

(* store the dossier; thread a has then to count and to emit it *)
RecordDossier(p, e, a) ==
    /\ dossiers' = [dossiers EXCEPT ![p] = Updated(p, e)]
    /\ emit' = [emit EXCEPT ![a] = [pc |-> "count", id |-> 0, pid |-> p]]

AnonRecord(c) ==
    /\ cb[c].pc = "record"
    /\ RecordDossier(Anon, cb[c].epoch, c)
    /\ cb' = [cb EXCEPT ![c] = NoCall]
    /\ UNCHANGED <<actVars, worldVars, epoch, queueVars, counters, lastAnon,
                   tier4Vars, pollVars, scanVars>>

CallbackStep(c) ==
    \/ Activate(c) \/ Activating(c) \/ SnapshotsQueued(c) \/ FastOpen(c)
    \/ AnonLimited(c) \/ AnonAccepted(c) \/ AnonStamp(c)
    \/ AnonRecord(c)
    \/ \E p \in Pids : QueueSnapshot(c, p)

-----------------------------------------------------------------------------
(* suspect_count, then _emit() and _emit_dossier(): write a frame under    *)
(* the _packet_id read at the start, then advance it, with no lock         *)
EmitCount(a) ==
    /\ emit[a].pc = "count"
    /\ suspectCount' = Up(suspectCount)
    /\ emit' = [emit EXCEPT ![a].pc = "read"]
    /\ UNCHANGED packetId

EmitRead(a) ==
    /\ emit[a].pc = "read"
    /\ emit' = [emit EXCEPT ![a].pc = "bump", ![a].id = packetId]
    /\ UNCHANGED counters

(* Mutation: the id written is the one read at the start, plus one. *)
EmitBumpStale(a) ==
    /\ emit[a].pc = "bump"
    /\ packetId' = Up(emit[a].id)
    /\ emit' = [emit EXCEPT ![a] = NoEmit]
    /\ UNCHANGED suspectCount

EmitBump(a) ==
    /\ emit[a].pc = "bump"
    /\ packetId' = Up(packetId)
    /\ emit' = [emit EXCEPT ![a] = NoEmit]
    /\ UNCHANGED suspectCount

EmitStep(a) ==
    /\ EmitCount(a) \/ EmitRead(a) \/ EmitBump(a)
    /\ UNCHANGED <<actVars, worldVars, epoch, queueVars, dossiers, cbVars,
                   tier4Vars, pollVars, scanVars>>

-----------------------------------------------------------------------------
(* Mutation: every process in a system call counts as a reader. *)
PollerSweepAnyCaller ==
    /\ pollerActive /\ pollerHits = {}
    /\ pollerHits' = alive \ recent
    /\ UNCHANGED <<actVars, worldVars, epoch, queueVars, dossiers, emitVars,
                   cbVars, tier4Vars, recent, scanVars>>

(* _VmReadvPoller._run(): one sweep, then one report per due hit *)
PollerSweep ==
    /\ pollerActive /\ pollerHits = {}
    /\ pollerHits' = vmReading \ recent
    /\ UNCHANGED <<actVars, worldVars, epoch, queueVars, dossiers, emitVars,
                   cbVars, tier4Vars, recent, scanVars>>

PollerReport(p) ==
    /\ p \in pollerHits
    /\ Len(vmreadvQ) < MaxVmQueue
    /\ vmreadvQ' = Append(vmreadvQ, p)
    /\ pollerHits' = pollerHits \ {p}
    /\ recent' = recent \cup {p}
    /\ A!Rouse
    /\ UNCHANGED <<worldVars, epoch, snapshots, dossiers, emitVars, cbVars,
                   tier4Vars, scanVars>>

PollerStep == PollerSweep \/ \E p \in Pids : PollerReport(p)

-----------------------------------------------------------------------------
(* The scan thread: _scan_loop() and _scan() *)
ScanLoop ==
    /\ A!ScanWait \/ A!ScanClear
    /\ UNCHANGED <<worldVars, epoch, queueVars, dossiers, emitVars, cbVars,
                   tier4Vars, pollVars, scanVars>>

ScanBegin ==
    /\ A!ScanCheck
    /\ scanEpoch' = epoch
    /\ UNCHANGED <<worldVars, epoch, queueVars, dossiers, emitVars, cbVars,
                   tier4Vars, pollVars, scanAt, found, vmFound>>

ScanMoves(from, to) == scanPc = "scan" /\ scanAt = from /\ scanAt' = to

(* Phase A *)
ScanDrain ==
    /\ ScanMoves("drain", "live")
    /\ found' = snapshots
    /\ snapshots' = Nothing
    /\ UNCHANGED <<actVars, worldVars, epoch, vmreadvQ, dossiers, emitVars,
                   cbVars, tier4Vars, pollVars, scanEpoch, vmFound>>

(* Mutation: every process found in /proc counts as a reader. *)
ScanLiveAnyProcess ==
    /\ ScanMoves("live", "vm")
    /\ found' = [p \in Pids |-> IF found[p] = "no" /\ p \in alive
                                THEN Look(p) ELSE found[p]]
    /\ UNCHANGED <<actVars, worldVars, epoch, queueVars, dossiers, emitVars,
                   cbVars, tier4Vars, pollVars, scanEpoch, vmFound>>

(* Phase B: a live hit counts when no snapshot of that pid was drained *)
ScanLive ==
    /\ ScanMoves("live", "vm")
    /\ found' = [p \in Pids |-> IF found[p] = "no" /\ p \in held
                                THEN Look(p) ELSE found[p]]
    /\ UNCHANGED <<actVars, worldVars, epoch, queueVars, dossiers, emitVars,
                   cbVars, tier4Vars, pollVars, scanEpoch, vmFound>>

(* Phase C *)
ScanVm ==
    /\ ScanMoves("vm", "dossiers")
    /\ vmFound' = vmreadvQ
    /\ vmreadvQ' = <<>>
    /\ UNCHANGED <<actVars, worldVars, epoch, snapshots, dossiers, emitVars,
                   cbVars, tier4Vars, pollVars, scanEpoch, found>>

(* Mutation: what the snapshot knows is not used. *)
BuildableAliveOnly(p, know) == p \in alive \/ dossiers[p].seen > 0

(* _build_dossier() returns None for a dead process of which nothing is    *)
(* known                                                                   *)
Buildable(p, know) ==
    p \in alive \/ know = "known" \/ dossiers[p].seen > 0

Consider(p, know) ==
    IF Buildable(p, know)
    THEN RecordDossier(p, scanEpoch, "scan")
    ELSE UNCHANGED <<dossiers, emit>>

AtDossiers == scanPc = "scan" /\ scanAt = "dossiers" /\ emit["scan"].pc = "no"

ScanFdHit(p) ==
    /\ AtDossiers /\ found[p] # "no"
    /\ Consider(p, found[p])
    /\ found' = [found EXCEPT ![p] = "no"]
    /\ UNCHANGED <<actVars, worldVars, epoch, queueVars, counters, cbVars,
                   tier4Vars, pollVars, scanAt, scanEpoch, vmFound>>

ScanVmHit ==
    /\ AtDossiers /\ found = Nothing /\ vmFound # <<>>
    /\ Consider(Head(vmFound), "no")
    /\ vmFound' = Tail(vmFound)
    /\ UNCHANGED <<actVars, worldVars, epoch, queueVars, counters, cbVars,
                   tier4Vars, pollVars, scanAt, scanEpoch, found>>

ScanEnd ==
    /\ AtDossiers /\ found = Nothing /\ vmFound = <<>>
    /\ A!ScanReturn
    /\ scanAt' = "drain" /\ scanEpoch' = 0
    /\ UNCHANGED <<worldVars, epoch, queueVars, dossiers, emitVars, cbVars,
                   tier4Vars, pollVars, found, vmFound>>

ScanStep == ScanLoop \/ ScanBegin \/ ScanDrain \/ ScanLive \/ ScanVm
              \/ ScanVmHit \/ ScanEnd \/ \E p \in Pids : ScanFdHit(p)

-----------------------------------------------------------------------------
WorldStep == Tick \/ \E p \in Pids :
                        \/ OpenMem(p) \/ CloseMem(p) \/ VmReadBegin(p)
                        \/ VmReadEnd(p) \/ Exit(p) \/ RearmElapsed(p)

Next == \/ WorldStep \/ GameStep \/ PollerStep \/ ScanStep
        \/ \E c \in Callers : OnMemOpen(c) \/ CallbackStep(c)
        \/ \E a \in Emitters : EmitStep(a)

(* The scan thread keeps running, whatever becomes of the others and of    *)
(* the outside world.                                                      *)
ScanFairness == WF_vars(ScanStep \/ EmitStep("scan"))

Spec         == Init /\ [][Next]_vars
ScanFairSpec == Spec /\ ScanFairness

-----------------------------------------------------------------------------
(* Correctness properties *)

Recorded == {p \in Pids : dossiers[p].seen > 0}

Log == INSTANCE SuspectLog WITH recorded <- Recorded

(* The abstract promise: whatever the queues, the threads and the exits, a *)
(* dossier is only ever built for a process that opened our mem file or    *)
(* read us with process_vm_readv, and it is never dropped.                 *)
ImplementsLog == Log!Spec

At(pcs) == Cardinality({a \in Emitters : emit[a].pc \in pcs})

(* the sightings behind the seen_counts: the first, the second, ... of each *)
(* dossier, so that their number is the sum of the seen_counts             *)
Seen == {s \in (Pids \cup {Anon}) \X (1..MaxCount) : s[2] <= dossiers[s[1]].seen}

SeenCounts == Cardinality(Seen)

Capped(n) == IF n < MaxCount THEN n ELSE MaxCount

(* Every sighting is counted and every counted sighting sent, once, by     *)
(* whichever threads: the seen_counts add up to suspect_count and          *)
(* suspect_count to the packets, but for those still in the hands of a     *)
(* thread (and as far as the counters go, MaxCount).  A hit that yields no *)
(* dossier and a rate-limited anonymous open leave all three.              *)
SightingsCounted ==
    /\ Capped(suspectCount + At({"count"})) = Capped(SeenCounts)
    /\ Capped(packetId + At({"read", "bump"})) = suspectCount

(* A dossier keeps its first_seen_epoch, and its seen_count and            *)
(* last_seen_epoch never go back, though snapshots are queued in one epoch *)
(* and consumed in another.                                                *)
DossiersAdvance ==
    [][\A p \in Recorded :
          /\ dossiers'[p].first = dossiers[p].first
          /\ dossiers'[p].last >= dossiers[p].last
          /\ dossiers'[p].last >= dossiers'[p].first
          /\ dossiers'[p].seen >= dossiers[p].seen]_vars

(* What is known of a process leaves the snapshot queue only into the      *)
(* hands of the scan and those only into its dossier, as a sighting in the *)
(* epoch of the scan: no IDLE, no exit, no second snapshot and no listing  *)
(* loses it.  Only a look at the process after its exit may replace it, by *)
(* a snapshot that knows less.                                             *)
KnownStays ==
    \A p \in Pids :
       /\ snapshots[p] = "known" =>
             \/ snapshots'[p] = "known" \/ found'[p] = "known"
             \/ snapshots'[p] = "bare" /\ p \notin alive
       /\ found[p] = "known" =>
             found'[p] = "known" \/ dossiers'[p] = Updated(p, scanEpoch)

KnownKept == [][KnownStays]_vars

(* A snapshot that carries the opener's exe or cmdline leads to a dossier  *)
(* even when the opener has closed the file and exited before the scan,    *)
(* unless the hunter goes IDLE first or a later snapshot of the same       *)
(* process, taken after it exited, replaces it.                            *)
SnapshotSurvivesExit ==
    \A p \in Pids :
        snapshots[p] = "known"
            ~> p \in Recorded \/ state = "IDLE" \/ snapshots[p] = "bare"
=============================================================================
