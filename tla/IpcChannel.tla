------------------------------ MODULE IpcChannel ------------------------------
(***************************************************************************)
(* What leaves the game process: the IPC arena (SecureIPCArena, memfd      *)
(* backend) with its telemetry frames and the hunter's dossier slot, the   *)
(* suspect log (_HunterLogger), and the shutdown of game_loop() that       *)
(* closes both under the threads that still use them                       *)
(* (src/python_prototype/phase1_prototype.py and phase1_tracker.py).       *)
(*                                                                         *)
(* All writers share one mmap object and so one file position: seek() and  *)
(* write() are two steps, and only the arena's lock keeps them together.   *)
(* A byte of the arena holds the mark of the frame it belongs to.          *)
(***************************************************************************)
EXTENDS Integers

CONSTANTS
    Emitters,     \* the hunter's threads that call _emit()
    Scan,         \* the scan thread among them; the others are Timer threads
    Game,         \* the game thread
    None,
    MaxPackets,   \* bound on the epochs
    MaxDossiers,  \* bound on the dossiers of an emitter
    FrameSize,    \* IPC_FRAME_SIZE
    SlotSize,     \* HUNTER_SLOT_SIZE
    Slots         \* HUNTER_IPC_SLOTS

ASSUME ThreadsAssumption == Scan \in Emitters /\ Game \notin Emitters
                              /\ None \notin Emitters \cup {Game}
ASSUME SizesAssumption ==
    /\ MaxPackets \in Nat /\ MaxDossiers \in Nat /\ Slots \in Nat \ {0, 1}
    /\ FrameSize \in Nat \ {0} /\ SlotSize \in Nat /\ FrameSize <= SlotSize

VARIABLES
    gamePc,
    packetId,   \* ipc_packet_id
    readOk,     \* every readback so far printed [OK]
    stopEvent,  \* the hunter's _stop_event
    scanPc,
    emitPc,     \* where a thread is between the log line and arena.write()
    dossier,    \* the number of its current dossier
    logFile,    \* the logger's _fh is not None
    lock, pos, arena, closed   \* SecureIPCArena

gameVars  == <<gamePc, packetId, readOk>>
emitVars  == <<emitPc, dossier>>
arenaVars == <<lock, pos, arena, closed>>
vars == <<gameVars, stopEvent, scanPc, emitVars, logFile, arenaVars>>

ArenaSize == Slots * SlotSize

(* Mutation: the slot number does not wrap around. *)
TelemetryOffsetNoWrap(id) == id * FrameSize

(* The last slot is the hunter's, although in its own, larger stride.      *)
TelemetryOffset(id) == (id % (Slots - 1)) * FrameSize

DossierOffset == (Slots - 1) * SlotSize

Mark(of, n, len) == [of |-> of, n |-> n, len |-> len]
Blank == Mark(None, 0, 0)

TypeOK ==
    /\ gamePc \in {"encode", "write", "seekBack", "read", "closeLog",
                   "closeArena", "done"}
    /\ packetId \in 0..MaxPackets
    /\ readOk \in BOOLEAN /\ stopEvent \in BOOLEAN /\ closed \in BOOLEAN
    /\ scanPc \in {"top", "scan", "gone"}
    /\ emitPc \in [Emitters -> {"free", "log", "line", "seek", "write"}]
    /\ dossier \in [Emitters -> 0..MaxDossiers]
    /\ logFile \in BOOLEAN
    /\ lock \in Emitters \cup {Game, None}
    /\ pos \in Nat

Init ==
    /\ gamePc = "encode" /\ packetId = 0 /\ readOk = TRUE
    /\ stopEvent = FALSE /\ scanPc = "top"
    /\ emitPc = [e \in Emitters |-> "free"]
    /\ dossier = [e \in Emitters |-> 0]
    /\ logFile = TRUE
    /\ lock = None /\ pos = 0 /\ closed = FALSE
    /\ arena = [i \in 0..(ArenaSize - 1) |-> Blank]

-----------------------------------------------------------------------------
(* SecureIPCArena: a with-block is Seek, then Put or the read, then Release *)
Seek(t, offset) ==
    /\ lock = None /\ lock' = t
    /\ pos' = offset
    /\ UNCHANGED <<arena, closed>>

Release == lock' = None

(* mmap.write() of a frame, at the position that seek() has left *)
Put(mark) ==
    /\ arena' = [i \in DOMAIN arena |->
                    IF i >= pos /\ i < pos + mark.len THEN mark ELSE arena[i]]
    /\ pos' = pos + mark.len

-----------------------------------------------------------------------------
(* The game thread: one frame per epoch, read back at once *)
GameMoves(from, to) == gamePc = from /\ gamePc' = to

Frame == Mark(Game, packetId, FrameSize)

EncodeFrame ==
    /\ GameMoves("encode", "write")
    /\ packetId < MaxPackets
    /\ Seek(Game, TelemetryOffset(packetId))
    /\ UNCHANGED <<packetId, readOk, stopEvent, scanPc, emitVars, logFile>>

WriteFrame ==
    /\ GameMoves("write", "seekBack")
    /\ Put(Frame) /\ Release
    /\ UNCHANGED <<packetId, readOk, stopEvent, scanPc, emitVars, logFile, closed>>

SeekBack ==
    /\ GameMoves("seekBack", "read")
    /\ Seek(Game, TelemetryOffset(packetId))
    /\ UNCHANGED <<packetId, readOk, stopEvent, scanPc, emitVars, logFile>>

(* recovered == plaintext, then ipc_packet_id += 1 *)
ReadBack ==
    /\ GameMoves("read", "encode")
    /\ readOk' = (readOk /\ \A i \in pos..(pos + FrameSize - 1) : arena[i] = Frame)
    /\ pos' = pos + FrameSize /\ Release
    /\ packetId' = packetId + 1
    /\ UNCHANGED <<stopEvent, scanPc, emitVars, logFile, arena, closed>>

(* The end of game_loop(): hunter.stop() with _log.close(), which takes no *)
(* lock, then ipc_arena.close(), which takes none either                   *)
StopHunter ==
    /\ GameMoves("encode", "closeLog")
    /\ packetId = MaxPackets
    /\ stopEvent' = TRUE
    /\ UNCHANGED <<packetId, readOk, scanPc, emitVars, logFile, arenaVars>>

(* the last line and the close may fail, which is swallowed: either way    *)
(* _fh is None afterwards                                                  *)
CloseLog ==
    /\ GameMoves("closeLog", "closeArena")
    /\ logFile' = FALSE
    /\ UNCHANGED <<packetId, readOk, stopEvent, scanPc, emitVars, arenaVars>>

CloseArena ==
    /\ GameMoves("closeArena", "done")
    /\ closed' = TRUE
    /\ UNCHANGED <<packetId, readOk, stopEvent, scanPc, emitVars, logFile,
                   lock, pos, arena>>

GameStep == EncodeFrame \/ WriteFrame \/ SeekBack \/ ReadBack \/ StopHunter
              \/ CloseLog \/ CloseArena

-----------------------------------------------------------------------------
(* The scan thread's loop; nothing joins it *)
ScanMoves(from, to) ==
    /\ scanPc = from /\ scanPc' = to
    /\ UNCHANGED <<gameVars, stopEvent, emitVars, logFile, arenaVars>>

ScanLoop == ScanMoves("top", IF stopEvent THEN "gone" ELSE "scan")
ScanEnd  == emitPc[Scan] = "free" /\ ScanMoves("scan", "top")

-----------------------------------------------------------------------------
(* A suspect, in the scan thread or in a Timer thread: the log line, then  *)
(* the frame.  _emit_dossier() swallows every exception.                   *)
EmitMoves(e, from, to) == emitPc[e] = from /\ emitPc' = [emitPc EXCEPT ![e] = to]

Suspect(e) ==
    /\ EmitMoves(e, "free", "log")
    /\ e = Scan => scanPc = "scan"
    /\ dossier[e] < MaxDossiers
    /\ dossier' = [dossier EXCEPT ![e] = @ + 1]
    /\ UNCHANGED <<gameVars, stopEvent, scanPc, logFile, arenaVars>>

(* log() looks at _fh before it takes the logger's lock *)
LogTest(e) ==
    /\ EmitMoves(e, "log", IF logFile THEN "line" ELSE "seek")
    /\ UNCHANGED <<gameVars, stopEvent, scanPc, dossier, logFile, arenaVars>>

(* A line in the file, or none: when the write or the flush fails, as it   *)
(* does on a file that stop() has closed since the test, log() swallows    *)
(* the exception, and the dossier is emitted all the same.                 *)
LogLine(e) ==
    /\ EmitMoves(e, "line", "seek")
    /\ UNCHANGED <<gameVars, stopEvent, scanPc, dossier, logFile, arenaVars>>

(* Mutation: the arena's lock is not taken. *)
SeekDossierUnlocked(e) ==
    /\ ~closed
    /\ EmitMoves(e, "seek", "write")
    /\ pos' = DossierOffset
    /\ UNCHANGED <<gameVars, stopEvent, scanPc, dossier, logFile, lock, arena, closed>>

SeekDossier(e) ==
    /\ ~closed
    /\ EmitMoves(e, "seek", "write")
    /\ Seek(e, DossierOffset)
    /\ UNCHANGED <<gameVars, stopEvent, scanPc, dossier, logFile>>

(* a payload of any length, cut to the slot *)
WriteDossier(e) ==
    /\ ~closed
    /\ EmitMoves(e, "write", "free")
    /\ \E len \in 1..SlotSize : Put(Mark(e, dossier[e], len))
    /\ Release
    /\ UNCHANGED <<gameVars, stopEvent, scanPc, dossier, logFile, closed>>

(* Mutation: an exception leaves the lock taken (acquire() and release()   *)
(* in place of the with-block).                                            *)
WriteClosedKeepsLock(e) ==
    /\ closed
    /\ \/ EmitMoves(e, "seek", "free") /\ lock = None
       \/ EmitMoves(e, "write", "free")
    /\ UNCHANGED <<gameVars, stopEvent, scanPc, dossier, logFile, arenaVars>>

(* the mmap has been closed: seek() or write() raises ValueError *)
WriteClosed(e) ==
    /\ closed
    /\ \/ EmitMoves(e, "seek", "free") /\ lock = None /\ UNCHANGED lock
       \/ EmitMoves(e, "write", "free") /\ Release
    /\ UNCHANGED <<gameVars, stopEvent, scanPc, dossier, logFile, pos, arena, closed>>

EmitStep(e) == LogTest(e) \/ LogLine(e) \/ SeekDossier(e) \/ WriteDossier(e)
                 \/ WriteClosed(e)

ScanStep == ScanLoop \/ ScanEnd \/ EmitStep(Scan)

Next == GameStep \/ ScanStep \/ \E e \in Emitters : Suspect(e) \/ EmitStep(e)

Spec == Init /\ [][Next]_vars

(* Every thread keeps running; nothing has to be suspected, and a scan     *)
(* ends when it has run out of suspects.                                   *)
FairSpec == /\ Spec
            /\ WF_vars(GameStep)
            /\ WF_vars(ScanStep)
            /\ \A e \in Emitters : WF_vars(EmitStep(e))

-----------------------------------------------------------------------------
(* Correctness properties *)

(* The readback of swap_shared() prints [OK] in every epoch: no thread of  *)
(* the hunter touches the frame between arena.write() and arena.read(),    *)
(* which are two critical sections, and none moves the file position       *)
(* inside them, however often the slots wrap around.                       *)
ReadbackOk == readOk

(* What a consumer finds from offset on: the message there, or bytes of    *)
(* more than one.                                                          *)
MessageAt(offset, len) ==
    IF \A i \in offset..(offset + len - 1) : arena[i] = arena[offset]
    THEN <<arena[offset].of, arena[offset].n>>
    ELSE <<None, -1>>

StoredFrames == [k \in 0..(Slots - 2) |-> MessageAt(k * FrameSize, FrameSize)]

Store == INSTANCE SlotStore WITH
    Frames <- Slots - 1,
    sent   <- IF gamePc \in {"seekBack", "read"} THEN packetId + 1 ELSE packetId,
    frames <- StoredFrames,
    given  <- [e \in Emitters |-> IF emitPc[e] = "free" THEN dossier[e]
                                  ELSE dossier[e] - 1],
    slot   <- MessageAt(DossierOffset, arena[DossierOffset].len),
    ended  <- closed

(* The abstract promise: though every seek() and every write() is a step   *)
(* of its own on one file position, a consumer sees each slot change from  *)
(* one whole message to the next, the packets in their order, the dossiers *)
(* of each thread in theirs, and none missing until the arena is closed.   *)
ImplementsStore == Store!Spec

(* The scan thread ends once it is told to, although log and arena are     *)
(* closed in the middle of its scan, and though its last dossier may have  *)
(* to wait for a Timer thread that is writing one.                         *)
ScanEnds == stopEvent ~> scanPc = "gone"
=============================================================================
