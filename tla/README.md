# TLA+ verification of the AMITF memory-protection prototype

This directory models and verifies the concurrent parts of the repository: the Phase 1 program
(`python_prototype/phase1_prototype.py`, the game side: canary buffers, telemetry, anomaly score, poison mode,
IPC arena; `python_prototype/phase1_tracker.py`, the observer hunter: who reads our memory?) and the threaded
registers of phases 5 to 7 it grew out of. Line numbers below are those of the files in `src/`; a bare
`:NNN` is a line of `phase1_tracker.py` in the parts about the hunter and of `phase1_prototype.py` in the parts about the game.

    tlc -config watcher.cfg MCInotifyWatcher            # model-check one run
    tlapm InotifyWatcherProofs.tla                      # check the proofs of a module

`PROJECT.json` lists every run with its properties, a mutation of the code for every property that holds, the
source lines each definition stands for, the disagreements found between code and documentation, the hazards,
and the theorems. Definitions whose comment begins with "Mutation:" are those mutated forms; the specifications do not use them.

Contents: 1 inventory, 2 modules, 3 runs, 4 proofs, 5 disagreements, 6 not modelled, 7 what could come next.

## 1. Inventory

Six kinds of threads share the Python process of the Phase 1 program:

| thread | code | what it touches |
|---|---|---|
| game thread | `game_loop`, `swap_shared`, `ObserverHunter.notify_score` | buffers, score, poison mode, hunter state, snapshot queue, arena |
| telemetry thread | `telemetry_worker` | published canary buffer (read), `TelemetryRing` |
| scrub threads, one per epoch | `scrub_worker` | the canary buffer of its epoch, `state.lock` |
| inotify thread | `_InotifyMemWatcher._run` | debounce gate, starts Timer threads |
| Timer threads | `_fire_open` -> `_on_mem_open` -> `_force_active` | gate, guard, hunter state, snapshots, anonymous dossier, log, arena |
| vm_readv poller | `_VmReadvPoller._run` -> `_on_vmreadv_hit` | vm_readv queue, wake event |
| scan thread | `_scan_loop`, `_scan`, `_emit` | both queues, dossiers, counters, log, arena |

### Components

**Tier 1 inotify watcher** (`phase1_tracker.py:722-875`).
State: `_debounce_active`, `_debounce_timer`, `_scanning`, `_stop`, the event buffer.
Operations: `start`, `stop`, `_run` (one branch for IN_OPEN, one for IN_CLOSE), `_fire_open`.
Hard: a timer may be cancelled too late; `_scanning` is tested and set in separate steps; a close by
one process concerns the open by another; the scan itself causes events.
Correct when: the gate never stays shut and the guard never stays set; an open that is admitted leads to a callback.

**IDLE/ACTIVE state machine** (`:1063-1094`, `:1127-1157`, `:1258-1271`).
State: `_state`, `_low_streak`, `trigger_count`, the poller's `_active`, `_wake_event`.
Operations: `notify_score` (game thread), `_force_active` (Timer threads), the scan loop.
Hard: `_state_lock` covers each read and each write of the state, not the decision between them,
and neither the poller flag nor the counter.
Correct when: a HIGH score keeps the hunter ACTIVE for `idle_after_epochs`; wakes are not lost; every
activation is counted; quiet scores lead back to IDLE.

**The hunter as a whole** (`class ObserverHunter`, `:941-1061`). The Timer thread that runs the callback is
the thread that activates; an ACTIVE hunter walks `/proc/*/fd`, which can post IN_OPEN events that come back through
the watcher; `stop()` joins no thread.
Correct when: an undisturbed open activates the hunter; nothing but a foreign access or a score does; after `stop()` the callbacks die out.

**Detection pipeline and dossiers** (`:474-652`, `:1096-1109`, `:1163-1357`).
State: `_snapshot_q`, `_vmreadv_q`, `_dossiers`, `suspect_count`, `_packet_id`, `_last_anon_log`,
and the locals of the threads that carry a hit from one to the next.
Hard: a process can close, exit or be listed again between open, snapshot, scan and dossier;
several threads emit; the cooldown is check-then-act.
Correct when: only processes that opened or read us are recorded; what was captured of a process
survives its exit; counters agree; dossiers do not go back.

**Tier 2 poller** (`:882-934`). State: `_active`, `_last_report`. Sweeps while armed, reports a reader at
most once per second into the pipeline.

**Game loop and swap** (`phase1_prototype.py:446-580`, `:636-679`). State: `SharedState`.
Each epoch: measure telemetry, score, notify the hunter, poison mode, decoys, new keys and layout, publish
a canary buffer, start its scrub thread, write an IPC telemetry frame and read it back.
Hard: telemetry hits arrive while the epoch is being computed; poison activations feed back into the score.
Correct when: every hit belongs to one epoch; poison mode ends on time, until it locks in; without hits the score is LOW (it is not, see section 3).

**Scrub and telemetry threads** (`:412-440`). Hard: the scrub wakes 50 ms after publication and may be
late; the canary is sampled after `state.lock` was released.
Correct when: a superseded buffer is never written, the published one is scrubbed, hits stay bounded.

**IPC arena and telemetry frames** (`:130-210`, `:531-555`), **hunter log** (`phase1_tracker.py:659-703`), **emit**
(`phase1_tracker.py:614-640`), **shutdown** (`phase1_prototype.py:672-679`). State: one mmap with one file position and a lock; `_fh`.
The arena is 64 x 512 bytes; telemetry frames of 20 bytes go to offsets `(id % 63) * 20`, the hunter's masked JSON to `63 * 512`.
Hard: `seek` and `write` are two calls on a position all threads share; `close()` of log and arena takes no lock while other
threads are in the middle of an emit; exceptions are swallowed.
Correct when: frames do not overlap and the readback finds them; the dossier slot holds one whole dossier; no thread
is left hanging. (That what is emitted was logged is not promised: see section 5.)

**Registers of phases 5 to 7** (`phase5_prototype.py:143-300`, `phase6_prototype.py:132-320`, `phase7_prototype.py:136-335`).
State: the active buffer and its canary, `_scrub_event`, `_stop_event`, the ring of decoys with its index, the poison episode.
Threads: game, scrub (unlocked in phase 5), telemetry, simulated observer, all started inside `__init__`.
Hard: a scrub signal set between the wait and the clear; a ring that shrinks under its index; episodes extended by later suspicion.
Correct when: every buffer is scrubbed or replaced; the index stays in range; an episode is counted once, so that two activations are more than its hold apart.

Not modelled, see section 6: decoy buffers, field layout and encryption; key derivation; `/proc` text parsing; the
integration check; phases 0-4 and 8-12; external readers; archive copies; documents.

### How they interact

    kernel --events--> _run --Timer--> _fire_open --> _on_mem_open --+--> _force_active --> state, poller, wake
       ^                                                             +--> _snapshot_q --+
       +---- own /proc walks (callback, Tier 4, Phase B) ----------------------+        |
                                                                               |        |
    swap_shared --score--> notify_score --> state, poller, wake                |        |
                               +--Tier 4--> _snapshot_q -----------------------+--------+--> _scan --> dossiers --> log, arena slot 63
    poller --> _on_vmreadv_hit --> _vmreadv_q, wake -------------------------------------+
    swap_shared --publish--> canary buffer <--overwrite-- scrub_worker
              |                   +--sample--> telemetry_worker --total_hits--> swap_shared
              +--frame, readback--> arena slots 0-62

## 2. Modules

| module | models | proofs |
|---|---|---|
| `InotifyWatcher` | `_InotifyMemWatcher`, with kernel and readers as environment | `InotifyWatcherProofs` |
| `HunterActivation` | `notify_score`, `_force_active`, `_scan_loop` | `HunterActivationProofs` |
| `HunterSystem` | the two composed as `ObserverHunter` composes them, with `stop()` | `HunterSystemProofs` |
| `SuspectLog` | abstract: who may get a dossier | |
| `ObserverHunter` | the pipeline from listing to dossier, around an instance of `HunterActivation` | `ObserverHunterProofs` |
| `SwapShared` | game, scrub and telemetry threads of Phase 1 | `SwapSharedProofs`, `SwapHitsProofs` |
| `IpcChannel` | arena, telemetry frames, dossier slot, log, shutdown | `IpcChannelProofs` |
| `SlotStore` | abstract: what a consumer of the arena sees, slots that change in one step | |
| `EpochRegister` | the registers of phases 5, 6 and 7 with their threads | `EpochRegisterProofs` |
| `MC*` | model values for TLC | |

A step is what a thread does between two points where another thread can get in: a block under a
lock, one operation on a `threading.Event`, one read or write of a shared attribute, one listing of `/proc`.
Program counters (`runPc`, `timerPc`, `gamePc`, `callerPc`, `scanPc`, `emit[..].pc`, ...) give the place inside the handler.

**InotifyWatcher.** `queue` is what the kernel has not delivered, `batch` what `_run` is parsing. `ReaderOpen`, `ReaderClose`,
`ReaderRead` and `SelfOpen` (a walk of our own, at any time) post events; equal adjacent unread events are coalesced, as inotify does. `_run` is
`ReadBatch`, `DropOpen` (Layer 1), `AdmitOpen`, `ArmGate`/`SwallowOpen`, `HandleClose`, `RunExit`; `_fire_open` is `Expire`, `TestGuard`
(Layer 2), `ResetGate`, `SetGuard`, `Callback`, `ClearGuard`. Between `AdmitOpen` and `ArmGate` other threads can run, as between the
`is_set` at :855 and the lock at :859. The watcher also ends when a read raises: `os.readinto` exists from Python 3.14 on.

**HunterActivation.** `notify_score` is `NotifyHigh` or `NotifyLow` (which read the state), then `Raise`, `Arm`, `Announce` or `Lower`,
`Disarm`, then `Tier4`. `_force_active` is `ForceActive` (the block under the lock), then `ForceArm`, `ForceAnnounce` or `ForceWake`.
`_low_streak` is only compared with `idle_after_epochs` and is counted up to it. `trigger_count` saturates at `MaxTriggers`: nothing
in the code depends on it, so no activation is cut off by the bound.

**HunterSystem.** Every step is a step of one component with the other's variables unchanged, except that the two meet in the
Timer threads: `todo[t]` says what `_on_mem_open()` has still to do in thread `t`: `List` is the watcher's `Callback`, `Activate` the
activation's `ForceActive`, `Post` the queueing of hits (only its wake is seen here), `Return` the watcher's `ClearGuard`.
`OwnWalk` is the watcher's `SelfOpen` while a thread is inside `_find_foreign_mem_handles()`. That the composition refines its two components holds by
this construction; it is stated as two lemmas, for the proofs to use, and not as a property. Readers of higher privilege and the queues are `ObserverHunter`'s.

**ObserverHunter.** `_on_mem_open` is `OnMemOpen` (listing, choice of branch, `now` and `cur_epoch`), `Activate`/`Activating`
(steps of `HunterActivation`), then `QueueSnapshot`* and `SnapshotsQueued`, or `FastOpen`, or `AnonLimited`, or `AnonAccepted`, `AnonStamp`, `AnonRecord`.
A snapshot is "known" (exe and cmdline read) or "bare" (the process was gone when they were read); `Buildable` is the
condition under which `_build_dossier` returns a dossier. Dossiers keep seen count, first and last epoch; uid, environment
and session type are left out, no property depends on them. `_scan` is `ScanBegin`, `ScanDrain`, `ScanLive`, `ScanVm`, then `ScanFdHit`/`ScanVmHit` per hit, `ScanEnd`.
`EmitCount`, `EmitRead`, `EmitBump` are `suspect_count += 1` and the two halves of `_emit`, in whichever thread.
`AnonLimited` is an open within the cooldown: it changes no counter. As in `HunterSystem`, the instance of
`HunterActivation` moves by construction as it does alone (`DrivesActivation`, a lemma).
The epoch write at the start of `notify_score` is merged with its first read of the state. `OnMemOpen` may happen at any
time: when it does is `HunterSystem`'s business.

**SwapShared.** `swap_shared` is `Measure` (reads `total_hits` and closes the window of the epoch), `Score` (score, poison, decoys), `Publish`.
`mean_delta()` is called twice in an epoch: before `total_hits` is read, for the log and the frame only (left out), and inside `compute_anomaly_score()`, after it:
that is `MeanDeltaNow` in `Score`, so that a hit recorded in between reaches the divisor and not the numerator. The score test
`hits/max(mean,1) + activations*0.01 >= p` is multiplied out over integers. `hits_window` is kept as its prefix sums.
A canary cell holds the epoch's value, noise, or zero. The telemetry thread takes the buffer (`TelemetryGrab`)
and reads it later (`TelemetryRead`). Two samples within one scrub are taken to see the same noise (the sampling period
is 10 ms, the overwrite takes microseconds). `mean_delta` with at least two hits is any member of `MeanDeltas`.

**IpcChannel.** A byte of `arena` holds the mark (writer, number, length) of the frame it belongs to, so that an overlap or a torn frame
is visible; the mask's bytes are left out. A `with self._lock:` block is `Seek`, then `Put` or the read, then `Release`; a thread may be
interrupted between the two. The game thread is `EncodeFrame`, `WriteFrame`, `SeekBack`, `ReadBack` per epoch and then `StopHunter`, `CloseLog`, `CloseArena`.
Of the log only whether its file is open is kept (`logFile`): `log()` swallows every failure to write a line, whether the disk is full or the
file has been closed since `LogTest`, and `_emit` goes on either way, so `LogLine` is the same step in all cases. An emitting thread is `Suspect`, `LogTest` (the look at `_fh` before the lock), `LogLine`,
`SeekDossier`, `WriteDossier`; `WriteClosed` is the exception of a closed mmap that `_emit_dossier` swallows.
`SlotStore` says what this adds up to for a consumer: a message is put into its slot whole, in one step. The refinement mapping reads a slot's message off its
bytes, and a slot whose bytes belong to more than one frame maps to no message at all, so a torn or displaced write would be a step `SlotStore` does not have.

**EpochRegister.** `version` selects the phase, so that one module has the code the three classes inherit from each other. The game thread
is `Construct` (threads started), `Attributes` (the assignments that follow), then `Update` (`_update_poison_state`), `Publish`, `Signal` per buffer, `StopGame`, `StopScrub`.
The scrub thread is `ScrubLoop`, `ScrubWait`, `ScrubClear`, `ScrubAwake` and `ScrubGrabbed` (phase 5: the buffer picked before, no lock) or
`ScrubActive` (under `_buf_lock`). The telemetry thread is `TelemetryLoop`, `TelemetryRead`, `TelemetryCompare`, or `TelemetryDie` when it meets an attribute
that `__init__` has yet to assign. Whether the mean period of the hits is suspicious is left open as soon as there are enough of them. `activatedAt` remembers the
epoch of the last activation; no action reads it.

CPython's `+=` on an attribute is taken as one step: the runs look for what goes wrong even so.

## 3. Runs

Passing runs:

| run | distinct states | bounds | shows |
|---|---|---|---|
| `watcher` | 92,609 | 2 readers, 2 Timer threads, 2 unread events | gate and guard are consistent and open again; an undisturbed open is detected |
| `activation` | 46,508 | 2 Timer threads, counting to 4 triggers, `idle_after_epochs` 3 | a score keeps the hunter ACTIVE, no activation is uncounted, wakes are not lost, quiet leads to IDLE |
| `system` | 343,608 | 1 reader, 1 Timer thread, 1 unread event | an open ends in ACTIVE; no alarm without a cause; callbacks die out after `stop()` |
| `hunter_open` | 636,409 | 1 opener, 1 Timer thread, 2 epochs | dossiers advance; refines `SuspectLog`; what is known of a process is not lost on the way, and it gets its dossier although it exits |
| `hunter_vmreadv` | 1,237,061 | 1 vm reader, 1 opaque opener, Tier 4 and poller, 1 Timer thread, 1 tick of the cooldown clock | counters agree with the scan and a Timer thread both emitting; refines `SuspectLog` |
| `swap` | 2,221,909 | 5 epochs, window 1, hold 1, poison threshold 2 % | hits attributed once and bounded, poison mode active for its hold and not longer, lock-in, only the published buffer is scrubbed, and it is unless replaced first |
| `ipc` | 30,383 | scan and 1 Timer thread, 4 packets in 2 slots, 2 dossiers each | readback, refines `SlotStore` (whole messages in order), the scan thread ends |
| `register` | 1,108,479 | phases 5 and 7, 3 buffers, threshold 2, hold 1, 2 to 3 decoys | decoy index in range, two activations more than a hold apart, every buffer scrubbed or replaced |

Why these bounds are enough to be interesting.
*watcher*: two Timer threads allow a stale timer that fired before it was cancelled together with its successor, and a callback together
with a timer that meets the guard; the proofs cover any number. Two unread events hold an open behind a close and a close behind an open.
*activation*: two threads in `_force_active` next to the game thread give every pair and the triple of competing activations. `trigger_count`
goes on beyond `MaxTriggers` uncounted, and `ActivationsCounted` says so; all other properties are checked with any number of activations.
*system*: what two Timer threads can do to the gate is in `watcher`, what two can do to the state in `activation`;
the run is about the loop from a walk to an event to a walk, for which one of each is enough. `MaxTriggers` is 0: the hunter is activated any number of times, and
none of them is counted, since no property of this run is about the counter. The same holds of the two runs that follow.
*hunter_...*: one opener with one exit is enough for a hit to be in the queue, the Tier 4 listing, the live listing and the scan at once; in
`hunter_vmreadv` a second process has both queues filled at the same time. A behaviour of that run is bounded to one of two scenes (`OneScene`): opens that
inotify does not see, with both queues and Tier 4 in use; or anonymous opens, where a Timer thread emits while the scan thread does. In the second, the
clock ticks only while no vm reader has come, so that opens inside and outside the cooldown are there and so are two emitting threads. Both at once, and
two Timer threads, are left to the proof of `SightingsAlwaysCounted`. Counters saturate at `MaxCount`, and a property about a counter says so.
*swap*: `PoisonPercent` is 2 (0.15, that is 15, in the code) and `POISON_HOLD` 1 (10): the poison mode starts at epoch 1, ends, starts again and so locks in, and epoch 4
is the first whose score relies on the activations alone. Five epochs and a window of 1 are the least with that run in them; the proofs
cover the real values. `swap_no_reader` and `swap_quiet` use the real threshold.
*ipc*: sizes are 3 slots of 3 cells and frames of 2, so that a telemetry slot is smaller than a dossier slot, frames wrap around once, and a
short dossier can follow a long one from another thread. The proofs cover the real sizes.
*register*: three buffers are two swaps, with a signal during the scrub of the one before; phase 6 is phase 7 without suspicion. With three buffers the ring
grows in one epoch and shrinks in the next. Without the observer the run was also checked with five buffers.

`CHECK_DEADLOCK FALSE` is set for the runs of `SwapShared`, `IpcChannel` and `EpochRegister`: those programs end.

Runs that refute a statement of the repository (quotations in `PROJECT.json`, "findings"):

| run | statement | what happens |
|---|---|---|
| `watcher_held_missed` | Tier 1 fires for any open | another reader's close cancels the pending timer |
| `swap_no_reader` | no reader, no trigger | the own scrub is a hit, scored 0.5 at epoch 1 |
| `swap_quiet` | the reader exits, the score drops to LOW, the hunter returns to IDLE | after one poison activation every later score is at least 0.01, which is `trigger_score`: no epoch is LOW again, with hits in its window or without |
| `system_self_open` | an IN_OPEN posted by our own walk is silent | with no handle found, `_on_mem_open()` takes it for a fast open and activates the hunter |

### Fairness

Liveness is checked under weak fairness of threads of the program: Python's threads are preemptive and none of
the loops modelled can block for ever (`select`, `wait` and `sleep` have timeouts, locks are held for bounded work).
A wait with a timeout can always go on, whether or not its event is set. Where the property is that an event is not lost, this would
hide the loss, so `HunterActivation` does not use it: its scan thread need only leave `wait()` when the event is set (`ScanAwake`), as if `hunter_interval`
were endless. Nothing is assumed of readers, of the kernel's
events, of own walks, of the clock, or of `stop()`. In detail:

| specification | fair |
|---|---|
| `InotifyWatcher`, `HunterSystem` | the watcher thread; each Timer thread |
| `HunterActivation` | game thread (the loop keeps calling `notify_score`), scan thread (no timeout of its wait), each thread in `_force_active` (its start, the arrival of an IN_OPEN, is not) |
| `ObserverHunter` (`ScanFairSpec`) | the scan thread alone, its wait ending by the event or the timeout: nothing else is needed for a queued snapshot to become a dossier |
| `IpcChannel` | game thread, scan thread, each emitting thread (that there is a suspect is not) |
| `EpochRegister` | the scrub thread alone |

## 4. Proofs

All theorems hold for every value of the constants under the named assumptions of the modules (finite sets of threads and processes, positive sizes
and bounds). Every invariant, every action property and every refinement that a passing run checks is proved. Of the liveness properties, which
need fairness and so stay with TLC, the safety half is proved where there is one worth stating: that no step, in any interleaving, can take
the system off the path that fairness then makes it follow.

* `InotifyWatcherProofs`: `TypeCorrect`; `GateAlwaysHasTimer`: `GateHasTimer` is inductive relative to the types, the
  interesting step being a stale timer's reset, which clears both halves of the gate; `GuardAlwaysHasCallback`: the
  thread that set the guard last is still between `SetGuard` and `ClearGuard`. `ListingAlwaysComing` and, for a reader that holds the file,
  `HolderAlwaysInSight`: `Coming` (a thread is past Layer 2, or the way is clear and an IN_OPEN or a timer waits) goes over only into a
  listing, unless an IN_CLOSE is under way or the watcher ends; the step that swallows an IN_OPEN needs `GateHasTimer`.
  `StopAlwaysWorksOff`: after `stop()` the descriptor is empty and a thread starts only for an event of the batch, which does not grow.
* `HunterActivationProofs`: `TypeCorrect`; `ScoreAlwaysKeepsActive`, through an invariant on the states
  in the middle of a `notify_score` call; `ActivationsAlwaysCounted`, by the cardinality of the set of threads
  that have an activation in hand; `WakeNeverLost`, because the scan thread clears the event before it looks at the state; `IdleAlwaysEarned`:
  the hunter leaves ACTIVE only at the end of a full streak of LOW scores, in a call that had found it ACTIVE.
* `HunterSystemProofs`: `ComponentsKeep`, which carries the invariants of both components to the whole, over the lemmas `SystemImplementsWatcher` and `SystemImplementsActivation`.
  `ActivationAlwaysInCallback`: `todo` and `callerPc` are idle outside the callback. `NeverAlarmWithoutCause`, from `Calm`: as long as
  there is no cause, the hunter is IDLE, so no thread walks, so the queue, the batch and the gate stay empty, so no Timer starts.
  `NoCauseNoAlarm` alone is not inductive, since an event in the queue would lead out of it. `OpenAlwaysOnItsWay`: the watcher's
  `ListingAlwaysComing`, carried over, and the debt `todo` that the listing leaves behind, which only `_force_active()` pays. `StopAlwaysWorksOff`,
  carried over: the walks of a hunter that is still ACTIVE bring no event in after `stop()`. `TypeCorrect`.
* `ObserverHunterProofs`: `PipelineKeepsActivation`, the theorems of `HunterActivation` for the pipeline, over the lemma `DrivesActivation`; `RefinesLog`, from the inductive invariant `PipelineInv`: a process in any queue, listing or local variable
  has touched us. It is needed because `SuspectLog` only allows a record of a touched process, and a record
  is made from `found` and `vmFound`, which are filled from the queues, which are filled from the listings.
  `DossiersAlwaysAdvance`, from `DateInv`: no process's dossier is dated after the epoch the scan thread works with, nor that after the current one.
  `SightingsAlwaysCounted`, from `CountInv`: the sum of the `seen_count`s is the cardinality of
  the set `Seen` of sightings, to which a record adds exactly one element, and a thread in hand is one element of another set; so both equations are
  about cardinalities, and need no sum over a function. `KnownAlwaysKept`, with `EmptyHanded`: a scan begins with nothing in hand, so that what it takes out of
  the queue overwrites nothing. `TypeCorrect`.
* `SwapSharedProofs`: `PoisonAlwaysTimed`, `PoisonAlwaysLocksIn`, `HitsAlwaysAttributedOnce`, from the invariant
  `ScoreInv` (prefix sums rise and never exceed `totalHits`, no activation in epoch 0). Lock-in holds because
  `activations * scale >= percent * scale` whatever the hits. For the same reason, `PoisonAlwaysKeepsTrigger`: after the first activation every score
  reaches `trigger_score`. That is no property the program should have, it is why `swap_quiet` fails, and it says that this is so for every window, hold and mean. `AlwaysScrubbedUnlessReplaced` and `SupersededStaysFrozen` rest on `BufInv`:
  a scrub thread that writes holds the lock and its buffer is the published one, so no publication comes between its two writes.
* `SwapHitsProofs`: `HitsAlwaysBounded`. A canary only goes from its own value (stage 0) through noise (1) to zero (2); `HitInv` says that
  the hits are at most three for each buffer before the one the telemetry thread holds, plus the stage it has last seen. `TypeCorrect`.
* `IpcChannelProofs`: `SlotsDisjoint`, for every packet id; `ReadbackAlwaysOk`, from `LockInv` (whoever is in a critical section holds
  the lock, and the position is its own) and `FrameInv`; `DossierAlwaysWhole`. `LockAlwaysExact` is the converse of `LockInv` as well: a lock that is
  held has its holder inside a critical section, also when the arena was closed under it, so no thread waits for a lock nobody will release.
  `RefinesStore`: the arena implements `SlotStore`, the writes being its puts and every other step a stutter; it takes `LockInv`, so that a
  write goes where its thread's `seek` pointed, the disjointness of slots, so that it leaves the other messages alone, and `DossierInv`, so that a short dossier over
  a long one still reads as one message. From it alone, without a look at the bytes, `RecentAlwaysKept`: the last packets, as many as there are
  telemetry slots, can be read. `TypeCorrect`. For any number of emitting threads, packets and slots.
* `EpochRegisterProofs`: `DecoyIndexAlwaysInRange`; `ActivationsAlwaysSpaced`, an action property: the count rises only in an epoch more than `Hold` after `activatedAt`, from `EpisodeInv`: an episode lasts at least `Hold` epochs from its activation;
  `NoScrubEverLost`, in each of the three phases: until the active buffer is scrubbed, the event is set or the scrub thread is between its wait
  and its write with that buffer to be met; `TypeCorrect`.

Left to TLC: liveness (fairness and ENABLED are outside the prover's reach). For each property the theorem that is its safety half:

| model-checked | proved |
|---|---|
| `GateReopens`, `GuardReleased` | `GateAlwaysHasTimer`, `GuardAlwaysHasCallback`: there is a thread that will |
| `OpenDetectedUnlessClosed` | `HolderAlwaysInSight` |
| `OpenActivates` | `OpenAlwaysOnItsWay` |
| `StopQuiesces` | `StopAlwaysWorksOff` |
| `WakeServed` | `WakeNeverLost` |
| `ReturnsToIdle` | `IdleAlwaysEarned` is about the same transition, in the other direction; that it is taken at all is TLC's |
| `SnapshotSurvivesExit` | `KnownAlwaysKept` |
| `ScanEnds` | `LockAlwaysExact`: what it waits for has a holder at work |
| `BufferScrubbed` | `NoScrubEverLost` |

That the three violated statements fail is shown by TLC's counterexamples. The models use no recursive operator of their own.

## 5. Disagreements met while modelling, besides the four runs

The models contain these behaviours; no run is spent on them.

* `_scanning` is tested (:811) and set (:823) in separate steps, so two callbacks can run at once although :745-746 says that this is prevented;
  the anonymous cooldown is then not kept, since both can pass its test (:1218) before either restarts it, and an anonymous dossier's `last_seen_epoch` can go back.
* `log()` swallows a failed write (:687-691) and tests `_fh` before it takes the lock: a dossier can reach the arena without its line in the log,
  although `_emit` is always called after the line (:1327-1331).
* `notify_score` disarms the poller (:1090) after releasing the state lock; a `_force_active` in between leaves the hunter ACTIVE with Tier 2
  disarmed, against the docstring at :1129.
* A snapshot that Tier 4 queues in the call that goes IDLE waits until the hunter is next ACTIVE (:1266; PROGRESS.md:567-569 has it survive the close).
* Two threads can send a dossier under one packet id, and so one mask (:1354). `notify_score` and `_force_active` can count one activation
  twice (`ActivationsCounted` states the direction that holds).
* A bare snapshot can replace a known one (:1288), and a Tier 2 hit of an exited process yields no dossier (:1337).
* The hunter goes IDLE with fd hits although :200 says "no fd hits"; `trigger_score` is 0.01 where the prototype's docstring says MEDIUM (0.20); what follows from it is the run `swap_quiet`.
* When inotify is unavailable, the start message announces a Tier 3 poll that does not exist (:1022).
* Only the canary copy is scrubbed; `active_buf`, published next to it, never is (`phase1_prototype.py:515`).
* Phase 6 (:137) says that the game never touches the canary, yet the scrub overwrites it: the program makes hits of its own, at about the swap
  period, so that poison mode can start without an observer (phase 7's docstring acknowledges it). Phase 6 (:182) says the telemetry results are
  read "by main thread only after stop()"; phase 7 reads them in every swap. In both, the telemetry thread can die before its attributes exist.
* Phase 8 loses a hit counted between the append of `_epoch_hit_count` and its reset (`phase8_prototype.py:425-426`).
* The integration check (`phase1_prototype.py:586-630`) gives a reader that needs 15 s a timeout of 15 s; `process_reader_phase1.py` documents an arena of 1280 bytes
  where the code has 32768.

## 6. Not modelled, and why

* **Key derivation, layout, entity encryption, decoy contents**: one-shot functions on bytes, opaque to control. Only their bookkeeping (number of decoys,
  order of publication) is modelled. The mask and the JSON text of a frame, cut at 504 bytes, are left out of `IpcChannel` for the same reason.
* **`/proc` parsing and session classification**: text parsing; what it tells the pipeline (alive, known, unreadable) is an input of `ObserverHunter`.
  `_VmReadvPoller.stop()` is not modelled either.
* **Integration check**: a sequential loop over a subprocess, after everything has stopped; it shares no state with the rest.
* **Phases 0 to 4**: single-threaded loops. **Phases 8 and 9**: the threads of phase 7, with a printed score and field encryption added.
  **Phases 10 to 12**: predecessors of `phase1_prototype.py` with the same swap, scrub and telemetry code and no hunter.
* **`process_reader*.py`**: other programs; to the models they are the environment.
* **`archive/`**: copies, almost all byte for byte, imported by nothing. More than half of the repository's Python lines are such copies, so that the share of lines
  the models stand for is small although all threads of the current program are in them.
* **The `bytearray` fallback** of the arena for platforms without memfd, and **real time**: timers expire at any moment, the
  clock of the cooldown is counted in units of one cooldown.
* A pid stands for one process: **pid reuse** in the dossier cache, which nothing in the code guards against (`max_dossier_age`, :202, is never read), is left out.

## 7. What could come next

An abstract specification of the swap (a ledger of buffers and hits) for `SwapShared` to implement; `SwapShared` driving `HunterSystem` through its score, to follow a run from the first hit on; pid reuse; the per-epoch hit counter of phases 8
and 9; the reader's report in the integration check. None of them adds a thread that is not modelled already.
