-------------------------- MODULE IpcChannelProofs --------------------------
(***************************************************************************)
(* What holds of IpcChannel for every number of threads, packets and       *)
(* dossiers and every geometry of the arena with frames no larger than the *)
(* hunter's slots: slots do not overlap, the lock is held exactly inside   *)
(* the critical sections, and so the two-call writes into one shared byte  *)
(* array implement the atomic slots of SlotStore.                          *)
(***************************************************************************)
EXTENDS IpcChannel, TLAPS

(* The parts of TypeOK the proofs need *)
Types ==
    /\ packetId \in Nat
    /\ logFile \in BOOLEAN
    /\ DOMAIN arena = 0..(ArenaSize - 1)
    /\ DOMAIN emitPc = Emitters /\ DOMAIN dossier = Emitters

(* Whoever is in a critical section holds the lock, and the file position  *)
(* is where its own seek() has left it.                                    *)
LockInv ==
    /\ gamePc \in {"write", "read"} =>
          lock = Game /\ pos = TelemetryOffset(packetId)
    /\ \A e \in Emitters : emitPc[e] = "write" => lock = e /\ pos = DossierOffset

(* From arena.write() to arena.read() the frame stays where it is.         *)
FrameInv ==
    /\ readOk
    /\ gamePc \in {"seekBack", "read"} =>
          \A i \in TelemetryOffset(packetId)..(TelemetryOffset(packetId) + FrameSize - 1) :
             arena[i] = Frame

-----------------------------------------------------------------------------
(* The geometry of the arena *)
LEMMA ProductMonotone ==
    ASSUME NEW a \in Nat, NEW b \in Nat, NEW c \in Nat, a <= b
    PROVE  a * c <= b * c /\ c * a <= c * b
OBVIOUS

LEMMA ModBelow ==
    ASSUME NEW x \in Nat, NEW n \in Nat \ {0}
    PROVE  x % n \in Nat /\ (x % n) + 1 <= n
OBVIOUS

(* Telemetry frames stay below the dossier slot, whatever the packet id,   *)
(* and the dossier slot ends with the arena: in the source, 63 frames of   *)
(* 20 bytes below 63 * 512, in 64 * 512 bytes.                             *)
THEOREM SlotsDisjoint ==
    ASSUME NEW id \in Nat
    PROVE  /\ TelemetryOffset(id) \in Nat
           /\ TelemetryOffset(id) + FrameSize <= DossierOffset
           /\ DossierOffset + SlotSize = ArenaSize
           /\ DossierOffset \in Nat
<1> DEFINE k == id % (Slots - 1)
<1>1. /\ Slots - 1 \in Nat \ {0}
      /\ FrameSize \in Nat /\ SlotSize \in Nat /\ FrameSize <= SlotSize
  BY SizesAssumption
<1>2. k \in Nat /\ k + 1 <= Slots - 1
  BY <1>1, ModBelow
<1> HIDE DEF k
<1>3. k * FrameSize \in Nat /\ k * FrameSize + FrameSize = (k + 1) * FrameSize
  BY <1>1, <1>2
<1>4. (k + 1) * FrameSize <= (k + 1) * SlotSize
  BY <1>1, <1>2, ProductMonotone
<1>5. (k + 1) * SlotSize <= (Slots - 1) * SlotSize
  BY <1>1, <1>2, ProductMonotone
<1>6. (Slots - 1) * SlotSize \in Nat /\ (k + 1) * SlotSize \in Nat
      /\ (k + 1) * FrameSize \in Nat
  BY <1>1, <1>2
<1>7. k * FrameSize + FrameSize <= (Slots - 1) * SlotSize
  BY <1>3, <1>4, <1>5, <1>6, <1>1
<1>8. (Slots - 1) * SlotSize + SlotSize = Slots * SlotSize
  BY SizesAssumption
<1> QED BY <1>3, <1>6, <1>7, <1>8 DEF TelemetryOffset, DossierOffset, ArenaSize, k

-----------------------------------------------------------------------------
(* The actions by what they touch *)
ArenaSame == UNCHANGED <<packetId, readOk, arena>>

LEMMA QuietSteps ==
    ASSUME [Next]_vars
    PROVE  \/ ArenaSame /\ (gamePc' \in {"seekBack", "read"} => gamePc \in {"seekBack", "read"})
           \/ WriteFrame \/ ReadBack \/ \E e \in Emitters : WriteDossier(e)
<1>1. CASE EncodeFrame \/ SeekBack \/ StopHunter \/ CloseLog \/ CloseArena
  BY <1>1 DEF EncodeFrame, SeekBack, StopHunter, CloseLog, CloseArena, GameMoves,
              Seek, arenaVars, ArenaSame
<1>2. CASE ScanLoop \/ ScanEnd \/ UNCHANGED vars
  BY <1>2 DEF ScanLoop, ScanEnd, ScanMoves, vars, gameVars, arenaVars, ArenaSame
<1>3. ASSUME NEW e \in Emitters,
             Suspect(e) \/ LogTest(e) \/ LogLine(e) \/ SeekDossier(e) \/ WriteClosed(e)
      PROVE  ArenaSame /\ gamePc' = gamePc
  BY <1>3 DEF Suspect, LogTest, LogLine, SeekDossier, WriteClosed, Seek, gameVars,
              arenaVars, ArenaSame
<1> QED
  BY <1>1, <1>2, <1>3, ThreadsAssumption DEF Next, GameStep, ScanStep, EmitStep

LEMMA TypesKept == Types /\ [Next]_vars => Types'
<1> SUFFICES ASSUME Types, [Next]_vars PROVE Types'
  OBVIOUS
<1>1. packetId' \in Nat /\ DOMAIN arena' = DOMAIN arena
  <2>1. CASE ArenaSame
    BY <2>1 DEF ArenaSame, Types
  <2>2. CASE WriteFrame
    BY <2>2 DEF WriteFrame, Put, Types
  <2>3. CASE ReadBack
    BY <2>3 DEF ReadBack, Types
  <2>4. CASE \E e \in Emitters : WriteDossier(e)
    BY <2>4 DEF WriteDossier, Put, gameVars, Types
  <2> QED BY <2>1, <2>2, <2>3, <2>4, QuietSteps
<1>2. DOMAIN emitPc' = Emitters /\ DOMAIN dossier' = Emitters
  <2>1. CASE GameStep
    BY <2>1 DEF GameStep, EncodeFrame, WriteFrame, SeekBack, ReadBack, StopHunter,
                CloseLog, CloseArena, emitVars, Types
  <2>2. CASE ScanLoop \/ ScanEnd \/ UNCHANGED vars
    BY <2>2 DEF ScanLoop, ScanEnd, ScanMoves, emitVars, vars, Types
  <2>3. ASSUME NEW e \in Emitters, Suspect(e) \/ EmitStep(e)
        PROVE  DOMAIN emitPc' = Emitters /\ DOMAIN dossier' = Emitters
    BY <2>3 DEF Suspect, EmitStep, LogTest, LogLine, SeekDossier, WriteDossier,
                WriteClosed, EmitMoves, Types
  <2> QED
    BY <2>1, <2>2, <2>3, ThreadsAssumption DEF Next, ScanStep
<1>3. logFile' \in BOOLEAN
  <2>1. CASE GameStep
    BY <2>1 DEF GameStep, EncodeFrame, WriteFrame, SeekBack, ReadBack, StopHunter,
                CloseLog, CloseArena, Types
  <2>2. CASE ScanLoop \/ ScanEnd \/ UNCHANGED vars
    BY <2>2 DEF ScanLoop, ScanEnd, ScanMoves, vars, Types
  <2>3. ASSUME NEW e \in Emitters, Suspect(e) \/ EmitStep(e)
        PROVE  logFile' = logFile
    BY <2>3 DEF Suspect, EmitStep, LogTest, LogLine, SeekDossier, WriteDossier,
                WriteClosed
  <2> QED
    BY <2>1, <2>2, <2>3, ThreadsAssumption DEF Next, ScanStep, Types
<1> QED BY <1>1, <1>2, <1>3 DEF Types

-----------------------------------------------------------------------------
(* The lock keeps a seek() and what follows it together. *)
LEMMA LockKept == Types /\ LockInv /\ [Next]_vars => LockInv'
<1> SUFFICES ASSUME Types, LockInv, [Next]_vars PROVE LockInv'
  OBVIOUS
<1> USE ThreadsAssumption
<1>1. CASE EncodeFrame
  BY <1>1 DEF EncodeFrame, GameMoves, Seek, emitVars, LockInv, TelemetryOffset, DossierOffset
<1>2. CASE WriteFrame
  BY <1>2 DEF WriteFrame, GameMoves, Put, Release, emitVars, LockInv, TelemetryOffset, DossierOffset
<1>3. CASE SeekBack
  BY <1>3 DEF SeekBack, GameMoves, Seek, emitVars, LockInv, TelemetryOffset, DossierOffset
<1>4. CASE ReadBack
  BY <1>4 DEF ReadBack, GameMoves, Release, emitVars, LockInv, TelemetryOffset, DossierOffset
<1>5. CASE StopHunter \/ CloseLog \/ CloseArena
  BY <1>5 DEF StopHunter, CloseLog, CloseArena, GameMoves, emitVars, arenaVars, LockInv, TelemetryOffset, DossierOffset
<1>6. CASE ScanLoop \/ ScanEnd \/ UNCHANGED vars
  BY <1>6 DEF ScanLoop, ScanEnd, ScanMoves, vars, gameVars, emitVars, arenaVars, LockInv,
              TelemetryOffset, DossierOffset
<1>7. ASSUME NEW e \in Emitters, Suspect(e) \/ LogTest(e) \/ LogLine(e)
      PROVE  LockInv'
  <2>1. \A f \in Emitters : emitPc'[f] = "write" => emitPc[f] = "write"
    BY <1>7 DEF Suspect, LogTest, LogLine, EmitMoves, Types
  <2> QED
    BY <1>7, <2>1 DEF Suspect, LogTest, LogLine, gameVars, arenaVars, LockInv,
                      TelemetryOffset, DossierOffset
<1>8. ASSUME NEW e \in Emitters, SeekDossier(e)
      PROVE  LockInv'
  <2>1. lock = None /\ lock' = e /\ pos' = DossierOffset /\ UNCHANGED gameVars
    BY <1>8 DEF SeekDossier, Seek
  <2>2. \A f \in Emitters : emitPc'[f] = "write" => f = e \/ emitPc[f] = "write"
    BY <1>8 DEF SeekDossier, EmitMoves, Types
  <2> QED
    BY <2>1, <2>2 DEF gameVars, LockInv, DossierOffset
<1>9. ASSUME NEW e \in Emitters, WriteDossier(e) \/ WriteClosed(e)
      PROVE  LockInv'
  <2>1. CASE WriteClosed(e) /\ UNCHANGED lock
    <3>1. \A f \in Emitters : emitPc'[f] = "write" => emitPc[f] = "write"
      BY <2>1 DEF WriteClosed, EmitMoves, Types
    <3> QED
      BY <2>1, <3>1 DEF WriteClosed, gameVars, LockInv, TelemetryOffset, DossierOffset
  <2>2. CASE emitPc[e] = "write"
    <3>1. lock = e
      BY <2>2 DEF LockInv
    <3>2. emitPc' = [emitPc EXCEPT ![e] = "free"] /\ UNCHANGED gameVars
      BY <1>9, <2>2 DEF WriteDossier, WriteClosed, EmitMoves
    <3>3. \A f \in Emitters : emitPc'[f] # "write"
      BY <3>1, <3>2 DEF LockInv, Types
    <3>4. gamePc' \notin {"write", "read"}
      BY <3>1, <3>2 DEF LockInv, gameVars
    <3> QED BY <3>3, <3>4 DEF LockInv
  <2> QED
    BY <1>9, <2>1, <2>2 DEF WriteDossier, WriteClosed, EmitMoves
<1> QED
  BY <1>1, <1>2, <1>3, <1>4, <1>5, <1>6, <1>7, <1>8, <1>9
     DEF Next, GameStep, ScanStep, EmitStep

-----------------------------------------------------------------------------
(* What a locked write changes and what it leaves alone *)
LEMMA WrittenFrame ==
    ASSUME Types, LockInv, WriteFrame
    PROVE  /\ \A i \in TelemetryOffset(packetId)..(TelemetryOffset(packetId) + FrameSize - 1) :
                 arena'[i] = Frame
           /\ \A i \in DOMAIN arena : arena'[i] = arena[i] \/ arena'[i] = Frame
           /\ \A i \in DossierOffset..(ArenaSize - 1) : arena'[i] = arena[i]
<1> DEFINE at == TelemetryOffset(packetId)
<1>1. pos = at
  BY DEF WriteFrame, GameMoves, LockInv
<1>2. /\ at \in Nat /\ DossierOffset \in Nat /\ at + FrameSize <= DossierOffset
      /\ DossierOffset + SlotSize = ArenaSize
  BY SlotsDisjoint DEF Types
<1> HIDE DEF at
<1>3. arena' = [i \in 0..(ArenaSize - 1) |->
                   IF i >= at /\ i < at + FrameSize THEN Frame ELSE arena[i]]
  BY <1>1 DEF WriteFrame, Put, Types, Frame, Mark
<1>4. FrameSize \in Nat /\ SlotSize \in Nat
  BY SizesAssumption
<1>5. \A i \in at..(at + FrameSize - 1) : arena'[i] = Frame
  BY <1>2, <1>3, <1>4
<1>6. \A i \in DOMAIN arena : arena'[i] = arena[i] \/ arena'[i] = Frame
  BY <1>3 DEF Types
<1>7. \A i \in DossierOffset..(ArenaSize - 1) : arena'[i] = arena[i]
  BY <1>2, <1>3, <1>4
<1> QED BY <1>5, <1>6, <1>7 DEF at

LEMMA WrittenDossier ==
    ASSUME Types, LockInv, NEW e \in Emitters, WriteDossier(e)
    PROVE  \E len \in 1..SlotSize :
              LET mark == Mark(e, dossier[e], len)
              IN  /\ \A i \in DossierOffset..(DossierOffset + len - 1) : arena'[i] = mark
                  /\ \A i \in DOMAIN arena : arena'[i] = arena[i] \/ arena'[i] = mark
                  /\ \A i \in 0..(DossierOffset - 1) : arena'[i] = arena[i]
<1>1. pos = DossierOffset
  BY DEF WriteDossier, EmitMoves, LockInv
<1>2. PICK len \in 1..SlotSize : Put(Mark(e, dossier[e], len))
  BY DEF WriteDossier
<1> DEFINE mark == Mark(e, dossier[e], len)
<1>3. mark.len = len
  BY DEF Mark
<1> HIDE DEF mark
<1>4. arena' = [i \in 0..(ArenaSize - 1) |->
                   IF i >= DossierOffset /\ i < DossierOffset + len THEN mark ELSE arena[i]]
  BY <1>1, <1>2, <1>3 DEF Put, Types, mark
<1>5. DossierOffset \in Nat /\ DossierOffset + SlotSize = ArenaSize /\ SlotSize \in Nat
  BY SlotsDisjoint, SizesAssumption DEF Types
<1>6. \A i \in DossierOffset..(DossierOffset + len - 1) : arena'[i] = mark
  BY <1>4, <1>5
<1>7. \A i \in DOMAIN arena : arena'[i] = arena[i] \/ arena'[i] = mark
  BY <1>4 DEF Types
<1>8. \A i \in 0..(DossierOffset - 1) : arena'[i] = arena[i]
  BY <1>4, <1>5
<1> QED BY <1>6, <1>7, <1>8 DEF mark

-----------------------------------------------------------------------------
(* The game's frame is still there when the game reads it back. *)
LEMMA FrameKept == Types /\ LockInv /\ FrameInv /\ [Next]_vars => FrameInv'
<1> SUFFICES ASSUME Types, LockInv, FrameInv, [Next]_vars PROVE FrameInv'
  OBVIOUS
<1>1. CASE /\ ArenaSame
           /\ gamePc' \in {"seekBack", "read"} => gamePc \in {"seekBack", "read"}
  BY <1>1 DEF ArenaSame, FrameInv, Frame
<1>2. CASE WriteFrame
  <2>1. readOk' /\ packetId' = packetId
    BY <1>2 DEF WriteFrame, FrameInv
  <2>2. \A i \in TelemetryOffset(packetId)..(TelemetryOffset(packetId) + FrameSize - 1) :
           arena'[i] = Frame
    BY <1>2, WrittenFrame
  <2> QED BY <2>1, <2>2 DEF FrameInv, Frame, TelemetryOffset
<1>3. CASE ReadBack
  <2>1. gamePc' = "encode"
    BY <1>3 DEF ReadBack, GameMoves
  <2>2. gamePc = "read" /\ pos = TelemetryOffset(packetId)
    BY <1>3 DEF ReadBack, GameMoves, LockInv
  <2>3. readOk'
    BY <1>3, <2>2 DEF ReadBack, FrameInv
  <2> QED BY <2>1, <2>3 DEF FrameInv
<1>4. ASSUME NEW e \in Emitters, WriteDossier(e) PROVE FrameInv'
  <2>1. UNCHANGED gameVars
    BY <1>4 DEF WriteDossier
  <2>2. \A i \in 0..(DossierOffset - 1) : arena'[i] = arena[i]
    BY <1>4, WrittenDossier
  <2>3. \A i \in TelemetryOffset(packetId)..(TelemetryOffset(packetId) + FrameSize - 1) :
           i \in 0..(DossierOffset - 1)
    <3>1. /\ TelemetryOffset(packetId) \in Nat /\ DossierOffset \in Nat
          /\ TelemetryOffset(packetId) + FrameSize <= DossierOffset
      BY SlotsDisjoint DEF Types
    <3>2. FrameSize \in Nat
      BY SizesAssumption
    <3> QED BY <3>1, <3>2
  <2> QED BY <2>1, <2>2, <2>3 DEF gameVars, FrameInv, Frame, TelemetryOffset
<1> QED BY <1>1, <1>2, <1>3, <1>4, QuietSteps

(* ReadbackOk: the readback of every epoch finds the frame it has written, *)
(* for any number of hunter threads writing dossiers in between.           *)
THEOREM ReadbackAlwaysOk == Spec => []ReadbackOk
<1>1. Init => Types /\ LockInv /\ FrameInv
  BY DEF Init, Types, LockInv, FrameInv
<1>2. Types /\ LockInv /\ FrameInv /\ [Next]_vars => (Types /\ LockInv /\ FrameInv)'
  BY TypesKept, LockKept, FrameKept
<1>3. FrameInv => ReadbackOk
  BY DEF FrameInv, ReadbackOk
<1> QED BY <1>1, <1>2, <1>3, PTL DEF Spec

-----------------------------------------------------------------------------
(* The dossier slot holds one whole dossier, as far as its own length      *)
(* field says, or nothing: also when a short one follows a long one, from  *)
(* another thread, in the middle of a telemetry write, or when the arena   *)
(* is closed under the writer.                                             *)
DossierWhole ==
    LET head == arena[DossierOffset]
    IN  /\ head.of \in Emitters \cup {None}
        /\ \A i \in DossierOffset..(DossierOffset + head.len - 1) : arena[i] = head

(* What the dossier slot holds is as long as its length field says. *)
DossierInv == DossierWhole /\ arena[DossierOffset].len \in 0..SlotSize

LEMMA DossierKept == Types /\ LockInv /\ DossierInv /\ [Next]_vars => DossierInv'
<1> SUFFICES ASSUME Types, LockInv, DossierInv, [Next]_vars PROVE DossierInv'
  OBVIOUS
<1>1. /\ DossierOffset \in Nat /\ DossierOffset + SlotSize = ArenaSize
      /\ SlotSize \in Nat \ {0}
  BY SlotsDisjoint, SizesAssumption DEF Types
<1>2. CASE \A i \in DossierOffset..(ArenaSize - 1) : arena'[i] = arena[i]
  <2> DEFINE len == arena[DossierOffset].len
  <2>1. arena'[DossierOffset] = arena[DossierOffset]
    BY <1>1, <1>2
  <2>2. len \in 0..SlotSize
    BY DEF DossierInv
  <2>3. \A i \in DossierOffset..(DossierOffset + len - 1) : arena'[i] = arena[i]
    <3> HIDE DEF len
    <3> QED BY <1>1, <1>2, <2>2
  <2> QED BY <2>1, <2>3 DEF DossierInv, DossierWhole, DossierOffset
<1>3. CASE ArenaSame \/ ReadBack
  BY <1>2, <1>3 DEF ArenaSame, ReadBack
<1>4. CASE WriteFrame
  BY <1>2, <1>4, WrittenFrame
<1>5. ASSUME NEW e \in Emitters, WriteDossier(e) PROVE DossierInv'
  <2>1. PICK len \in 1..SlotSize :
           \A i \in DossierOffset..(DossierOffset + len - 1) :
              arena'[i] = Mark(e, dossier[e], len)
    BY <1>5, WrittenDossier
  <2>2. arena'[DossierOffset] = Mark(e, dossier[e], len)
    BY <1>1, <2>1
  <2>3. /\ arena'[DossierOffset].of = e /\ arena'[DossierOffset].len = len
    BY <2>2 DEF Mark
  <2>4. len \in 0..SlotSize
    BY <1>1
  <2> QED BY <2>1, <2>2, <2>3, <2>4 DEF DossierInv, DossierWhole, DossierOffset
<1> QED BY <1>3, <1>4, <1>5, QuietSteps

(* DossierWhole: the slot never holds half a dossier, nor a dossier with a *)
(* telemetry frame in it.                                                  *)
THEOREM DossierAlwaysWhole == Spec => []DossierWhole
<1>1. Init => Types /\ LockInv /\ DossierInv
  <2>1. Init => Types /\ LockInv
    BY DEF Init, Types, LockInv
  <2>2. ASSUME Init PROVE arena[DossierOffset] = Blank
    <3>1. DossierOffset \in 0..(ArenaSize - 1)
      BY SlotsDisjoint, SizesAssumption DEF Types, Init
    <3> QED BY <2>2, <3>1 DEF Init
  <2>3. DossierOffset \in Nat /\ SlotSize \in Nat
    BY SlotsDisjoint, SizesAssumption
  <2>4. Init => DossierInv
    BY <2>2, <2>3 DEF DossierInv, DossierWhole, Blank, Mark
  <2> QED BY <2>1, <2>4
<1>2. Types /\ LockInv /\ DossierInv /\ [Next]_vars => (Types /\ LockInv /\ DossierInv)'
  BY TypesKept, LockKept, DossierKept
<1>3. DossierInv => DossierWhole
  BY DEF DossierInv
<1> QED BY <1>1, <1>2, <1>3, PTL DEF Spec

---------------------------------------------------------------
(* The lock is held exactly inside the critical sections: the game thread  *)
(* between a seek() and its write() or read(), an emitter between its      *)
(* seek() and its write().                                                 *)
Holds(t) == \/ t = Game /\ gamePc \in {"write", "read"}
            \/ t \in Emitters /\ emitPc[t] = "write"

LockExact == /\ lock \in Emitters \cup {Game, None}
             /\ \A t \in Emitters \cup {Game} : lock = t <=> Holds(t)

(* A step of one thread leaves the sections of the others as they are.     *)
LEMMA SectionsOf ==
    ASSUME Types, [Next]_vars
    PROVE  \/ \E t \in Emitters \cup {Game} :
                 /\ lock = None /\ lock' = t /\ Holds(t)'
                 /\ \A u \in (Emitters \cup {Game}) \ {t} : Holds(u)' <=> Holds(u)
           \/ \E t \in Emitters \cup {Game} :
                 /\ Holds(t) /\ lock' = None /\ ~Holds(t)'
                 /\ \A u \in (Emitters \cup {Game}) \ {t} : Holds(u)' <=> Holds(u)
           \/ /\ lock' = lock
              /\ \A u \in Emitters \cup {Game} : Holds(u)' <=> Holds(u)
<1> USE ThreadsAssumption DEF Holds, Types
<1>1. CASE EncodeFrame \/ SeekBack
  <2>1. /\ lock = None /\ lock' = Game /\ gamePc' \in {"write", "read"}
        /\ emitPc' = emitPc
    BY <1>1 DEF EncodeFrame, SeekBack, GameMoves, Seek, emitVars
  <2> QED
    BY <2>1
<1>2. CASE WriteFrame \/ ReadBack
  <2>1. /\ gamePc \in {"write", "read"} /\ gamePc' \notin {"write", "read"}
        /\ lock' = None /\ emitPc' = emitPc
    BY <1>2 DEF WriteFrame, ReadBack, GameMoves, Release, emitVars
  <2> QED
    BY <2>1
<1>3. CASE StopHunter \/ CloseLog \/ CloseArena \/ ScanLoop \/ ScanEnd \/ UNCHANGED vars
  <2>1. /\ gamePc' \in {"write", "read"} <=> gamePc \in {"write", "read"}
        /\ lock' = lock /\ emitPc' = emitPc
    BY <1>3 DEF StopHunter, CloseLog, CloseArena, ScanLoop, ScanEnd, GameMoves,
       ScanMoves, vars, gameVars, emitVars, arenaVars
  <2> QED
    BY <2>1
<1>4. ASSUME NEW e \in Emitters, Suspect(e) \/ LogTest(e) \/ LogLine(e)
      PROVE  lock' = lock /\ \A u \in Emitters \cup {Game} : Holds(u)' <=> Holds(u)
  <2>1. /\ emitPc[e] # "write" /\ emitPc'[e] # "write" /\ UNCHANGED <<gamePc, lock>>
        /\ \A f \in Emitters \ {e} : emitPc'[f] = emitPc[f]
    BY <1>4 DEF Suspect, LogTest, LogLine, EmitMoves, gameVars, arenaVars
  <2> QED
    BY <2>1
<1>5. ASSUME NEW e \in Emitters, SeekDossier(e)
      PROVE  /\ lock = None /\ lock' = e /\ Holds(e)'
             /\ \A u \in (Emitters \cup {Game}) \ {e} : Holds(u)' <=> Holds(u)
  <2>1. /\ lock = None /\ lock' = e /\ emitPc'[e] = "write" /\ gamePc' = gamePc
        /\ \A f \in Emitters \ {e} : emitPc'[f] = emitPc[f]
    BY <1>5 DEF SeekDossier, Seek, EmitMoves, gameVars
  <2> QED
    BY <2>1
<1>6. ASSUME NEW e \in Emitters, WriteDossier(e) \/ WriteClosed(e)
      PROVE  \/ /\ Holds(e) /\ lock' = None /\ ~Holds(e)'
                /\ \A u \in (Emitters \cup {Game}) \ {e} : Holds(u)' <=> Holds(u)
             \/ lock' = lock /\ \A u \in Emitters \cup {Game} : Holds(u)' <=> Holds(u)
  <2>1. /\ emitPc'[e] = "free" /\ gamePc' = gamePc
        /\ \A f \in Emitters \ {e} : emitPc'[f] = emitPc[f]
        /\ \/ emitPc[e] = "write" /\ lock' = None
           \/ emitPc[e] = "seek" /\ lock' = lock
    BY <1>6 DEF WriteDossier, WriteClosed, EmitMoves, Release, gameVars
  <2> QED
    BY <2>1
<1> HIDE DEF Holds
<1> QED
  BY <1>1, <1>2, <1>3, <1>4, <1>5, <1>6 DEF Next, GameStep, ScanStep, EmitStep

LEMMA LockExactKept == Types /\ LockExact /\ [Next]_vars => LockExact'
<1> SUFFICES ASSUME Types, LockExact, [Next]_vars PROVE LockExact'
  OBVIOUS
<1> QED
  BY SectionsOf, ThreadsAssumption DEF LockExact

(* No thread ever leaves the arena's lock taken: not even one whose write  *)
(* meets the closed arena and raises.  And no two threads are inside it.   *)
THEOREM LockAlwaysExact == Spec => []LockExact
<1>1. Init => Types /\ LockExact
  BY ThreadsAssumption DEF Init, Types, LockExact, Holds
<1>2. Types /\ LockExact /\ [Next]_vars => LockExact'
  BY LockExactKept
<1>3. Types /\ [Next]_vars => Types'
  BY TypesKept
<1> QED BY <1>1, <1>2, <1>3, PTL DEF Spec

-----------------------------------------------------------------------------
(* The type invariant; an epoch begins only below the bound.               *)
GamePcs == {"encode", "write", "seekBack", "read", "closeLog",
            "closeArena", "done"}

GameTypes == /\ gamePc \in GamePcs
             /\ packetId \in 0..MaxPackets
             /\ gamePc \in {"write", "seekBack", "read"} => packetId < MaxPackets

FlagTypes == /\ readOk \in BOOLEAN /\ stopEvent \in BOOLEAN /\ closed \in BOOLEAN
             /\ scanPc \in {"top", "scan", "gone"}

EmitterTypes == /\ emitPc \in [Emitters -> {"free", "log", "line", "seek", "write"}]
                /\ dossier \in [Emitters -> 0..MaxDossiers]
                /\ \A e \in Emitters : emitPc[e] # "free" => dossier[e] > 0

LEMMA GameTypesKept == GameTypes /\ [Next]_vars => GameTypes'
<1> SUFFICES ASSUME GameTypes, [Next]_vars PROVE GameTypes'
  OBVIOUS
<1> USE SizesAssumption DEF GameTypes, GamePcs
<1>1. CASE GameStep
  BY <1>1 DEF GameStep, EncodeFrame, WriteFrame, SeekBack, ReadBack, StopHunter,
              CloseLog, CloseArena, GameMoves
<1>2. CASE ~GameStep
  <2>1. UNCHANGED <<gamePc, packetId>>
    BY <1>2, ThreadsAssumption DEF Next, ScanStep, ScanLoop, ScanEnd, ScanMoves,
       Suspect, EmitStep, LogTest, LogLine, SeekDossier, WriteDossier, WriteClosed,
       gameVars, vars
  <2> QED BY <2>1
<1> QED BY <1>1, <1>2

LEMMA FlagTypesKept == FlagTypes /\ [Next]_vars => FlagTypes'
<1> SUFFICES ASSUME FlagTypes, [Next]_vars PROVE FlagTypes'
  OBVIOUS
<1> USE DEF FlagTypes
<1>1. CASE EncodeFrame \/ WriteFrame \/ SeekBack \/ StopHunter \/ CloseLog \/ CloseArena
  BY <1>1 DEF EncodeFrame, WriteFrame, SeekBack, StopHunter, CloseLog, CloseArena,
              Seek, arenaVars
<1>2. CASE ReadBack
  <2>1. readOk' \in BOOLEAN
    BY <1>2 DEF ReadBack
  <2> QED BY <1>2, <2>1 DEF ReadBack
<1>3. CASE ScanLoop \/ ScanEnd \/ UNCHANGED vars
  BY <1>3 DEF ScanLoop, ScanEnd, ScanMoves, vars, gameVars, arenaVars
<1>4. ASSUME NEW e \in Emitters, Suspect(e) \/ EmitStep(e)
      PROVE  UNCHANGED <<readOk, stopEvent, closed, scanPc>>
  BY <1>4 DEF Suspect, EmitStep, LogTest, LogLine, SeekDossier, Seek, WriteDossier,
              WriteClosed, gameVars, arenaVars
<1> QED
  BY <1>1, <1>2, <1>3, <1>4, ThreadsAssumption DEF Next, GameStep, ScanStep

LEMMA EmitterTypesKept == EmitterTypes /\ [Next]_vars => EmitterTypes'
<1> SUFFICES ASSUME EmitterTypes, [Next]_vars PROVE EmitterTypes'
  OBVIOUS
<1> USE SizesAssumption DEF EmitterTypes
<1>1. CASE GameStep
  BY <1>1 DEF GameStep, EncodeFrame, WriteFrame, SeekBack, ReadBack, StopHunter,
              CloseLog, CloseArena, emitVars
<1>2. CASE ScanLoop \/ ScanEnd \/ UNCHANGED vars
  BY <1>2 DEF ScanLoop, ScanEnd, ScanMoves, vars, emitVars
<1>3. ASSUME NEW e \in Emitters, Suspect(e)
      PROVE  EmitterTypes'
  <2>1. dossier[e] + 1 \in 0..MaxDossiers /\ dossier[e] + 1 > 0
    BY <1>3 DEF Suspect
  <2> QED BY <1>3, <2>1 DEF Suspect, EmitMoves
<1>4. ASSUME NEW e \in Emitters,
             LogTest(e) \/ LogLine(e) \/ SeekDossier(e) \/ WriteDossier(e) \/ WriteClosed(e)
      PROVE  EmitterTypes'
  <2>1. /\ UNCHANGED dossier /\ emitPc[e] # "free"
        /\ \E pc \in {"free", "log", "line", "seek", "write"} :
              emitPc' = [emitPc EXCEPT ![e] = pc]
    BY <1>4 DEF LogTest, LogLine, SeekDossier, WriteDossier, WriteClosed, EmitMoves
  <2> QED BY <2>1
<1> QED
  BY <1>1, <1>2, <1>3, <1>4, ThreadsAssumption DEF Next, ScanStep, EmitStep

LEMMA PosKept ==
    ASSUME pos \in Nat, packetId \in Nat, [Next]_vars
    PROVE  pos' \in Nat
<1> USE SizesAssumption
<1>1. TelemetryOffset(packetId) \in Nat /\ DossierOffset \in Nat
  BY SlotsDisjoint
<1>2. CASE GameStep
  BY <1>1, <1>2 DEF GameStep, EncodeFrame, WriteFrame, SeekBack, ReadBack, StopHunter,
     CloseLog, CloseArena, Seek, Put, Frame, Mark, arenaVars
<1>3. CASE ScanLoop \/ ScanEnd \/ UNCHANGED vars
  BY <1>3 DEF ScanLoop, ScanEnd, ScanMoves, vars, arenaVars
<1>4. ASSUME NEW e \in Emitters, Suspect(e) \/ EmitStep(e)
      PROVE  pos' \in Nat
  BY <1>1, <1>4 DEF Suspect, EmitStep, LogTest, LogLine, SeekDossier, WriteDossier,
     WriteClosed, Seek, Put, Mark, arenaVars
<1> QED BY <1>2, <1>3, <1>4, ThreadsAssumption DEF Next, ScanStep

(* The channel keeps its types, for any number of threads and any geometry.*)
THEOREM TypeCorrect == Spec => []TypeOK
<1> DEFINE Inv == GameTypes /\ FlagTypes /\ EmitterTypes /\ Types /\ LockExact /\ pos \in Nat
<1>1. Init => Inv
  <2> SUFFICES ASSUME Init PROVE Inv
    OBVIOUS
  <2>1. GameTypes /\ FlagTypes /\ EmitterTypes
    <3>1. GameTypes
      BY SizesAssumption DEF Init, GameTypes, GamePcs
    <3>2. FlagTypes
      BY DEF Init, FlagTypes
    <3>3. EmitterTypes
      BY SizesAssumption DEF Init, EmitterTypes
    <3> QED BY <3>1, <3>2, <3>3
  <2>2. Types /\ LockExact /\ pos \in Nat
    BY ThreadsAssumption DEF Init, Types, LockExact, Holds
  <2> QED BY <2>1, <2>2
<1>2. Inv /\ [Next]_vars => Inv'
  <2>1. Types /\ [Next]_vars => Types'
    BY TypesKept
  <2>2. pos \in Nat /\ Types /\ [Next]_vars => pos' \in Nat
    BY PosKept DEF Types
  <2>3. Types /\ LockExact /\ [Next]_vars => LockExact'
    BY LockExactKept
  <2> QED BY <2>1, <2>2, <2>3, GameTypesKept, FlagTypesKept, EmitterTypesKept
<1>3. Inv => TypeOK
  BY DEF GameTypes, GamePcs, FlagTypes, EmitterTypes, Types, LockExact, TypeOK
<1> QED BY <1>1, <1>2, <1>3, PTL DEF Spec

---------------------------------------------------------------
(* The refinement of SlotStore: its state as a function of ours.           *)
LEMMA DossierStarts == Init => DossierInv /\ arena[DossierOffset] = Blank
<1> SUFFICES ASSUME Init PROVE DossierInv /\ arena[DossierOffset] = Blank
  OBVIOUS
<1>1. DossierOffset \in Nat /\ SlotSize \in Nat
  BY SlotsDisjoint, SizesAssumption
<1>2. DossierOffset \in 0..(ArenaSize - 1)
  BY SlotsDisjoint, SizesAssumption
<1>3. arena[DossierOffset] = Blank
  BY <1>2 DEF Init
<1> QED
  BY <1>1, <1>3 DEF DossierInv, DossierWhole, Blank, Mark

Sent  == IF gamePc \in {"seekBack", "read"} THEN packetId + 1 ELSE packetId
Given == [e \in Emitters |-> IF emitPc[e] = "free" THEN dossier[e] ELSE dossier[e] - 1]
Stored == MessageAt(DossierOffset, arena[DossierOffset].len)

ClosedInv == closed => gamePc = "done"

StoreInv == Types /\ LockInv /\ DossierInv /\ EmitterTypes /\ ClosedInv

LEMMA ClosedKept == ClosedInv /\ [Next]_vars => ClosedInv'
<1> SUFFICES ASSUME ClosedInv, [Next]_vars PROVE ClosedInv'
  OBVIOUS
<1>1. CASE GameStep
  BY <1>1 DEF GameStep, EncodeFrame, WriteFrame, SeekBack, ReadBack, StopHunter, CloseLog,
              CloseArena, GameMoves, Seek, arenaVars, ClosedInv
<1>2. CASE ScanLoop \/ ScanEnd \/ UNCHANGED vars
  BY <1>2 DEF ScanLoop, ScanEnd, ScanMoves, vars, gameVars, arenaVars, ClosedInv
<1>3. ASSUME NEW e \in Emitters, Suspect(e) \/ EmitStep(e)
      PROVE  UNCHANGED <<gamePc, closed>>
  BY <1>3 DEF Suspect, EmitStep, LogTest, LogLine, SeekDossier, WriteDossier, Seek,
              WriteClosed, gameVars, arenaVars
<1> QED BY <1>1, <1>2, <1>3, ThreadsAssumption DEF Next, ScanStep, ClosedInv

LEMMA StoreInvKept == StoreInv /\ [Next]_vars => StoreInv'
BY TypesKept, LockKept, DossierKept, EmitterTypesKept, ClosedKept DEF StoreInv

(* A consumer sees the dossier that the first byte of the slot belongs to. *)
LEMMA StoredDossier == DossierInv => Stored = <<arena[DossierOffset].of, arena[DossierOffset].n>>
BY DEF DossierInv, DossierWhole, Stored, MessageAt

LEMMA StoredDossierAfter ==
    DossierInv' => Stored' = <<arena'[DossierOffset].of, arena'[DossierOffset].n>>
BY DEF DossierInv, DossierWhole, Stored, MessageAt, DossierOffset

(* Two telemetry slots have no byte in common, and none with the dossier.  *)
LEMMA FramesDisjoint ==
    ASSUME NEW k \in 0..(Slots - 2), NEW j \in 0..(Slots - 2)
    PROVE  /\ k * FrameSize \in Nat
           /\ k * FrameSize + FrameSize <= DossierOffset
           /\ k < j => k * FrameSize + FrameSize <= j * FrameSize
<1>1. Slots \in Nat \ {0, 1} /\ FrameSize \in Nat /\ SlotSize \in Nat /\ FrameSize <= SlotSize
  BY SizesAssumption
<1>2. k \in Nat /\ j \in Nat /\ k + 1 \in Nat /\ Slots - 1 \in Nat /\ k + 1 <= Slots - 1
  BY <1>1
<1>3. k * FrameSize \in Nat /\ (k + 1) * FrameSize = k * FrameSize + FrameSize
  BY <1>1, <1>2
<1>4. (k + 1) * FrameSize <= (k + 1) * SlotSize /\ (k + 1) * SlotSize <= (Slots - 1) * SlotSize
  BY <1>1, <1>2, ProductMonotone
<1>5. /\ (k + 1) * FrameSize \in Nat /\ (k + 1) * SlotSize \in Nat
      /\ (Slots - 1) * SlotSize \in Nat
  BY <1>1, <1>2
<1>6. k < j => (k + 1) * FrameSize <= j * FrameSize
  BY <1>1, <1>2, ProductMonotone
<1> QED
  BY <1>3, <1>4, <1>5, <1>6 DEF DossierOffset

(* Bytes that stay leave the message there as it is.                       *)
LEMMA FrameStays ==
    ASSUME NEW k \in 0..(Slots - 2),
           \A i \in (k * FrameSize)..(k * FrameSize + FrameSize - 1) : arena'[i] = arena[i]
    PROVE  MessageAt(k * FrameSize, FrameSize)' = MessageAt(k * FrameSize, FrameSize)
<1> DEFINE at == k * FrameSize
<1>1. at \in Nat /\ FrameSize \in Nat \ {0}
  BY FramesDisjoint, SizesAssumption
<1> HIDE DEF at
<1>2. at \in at..(at + FrameSize - 1)
  BY <1>1
<1>3. \A i \in at..(at + FrameSize - 1) : arena'[i] = arena[i]
  BY DEF at
<1>4. arena'[at] = arena[at]
  BY <1>2, <1>3
<1>5. (\A i \in at..(at + FrameSize - 1) : arena'[i] = arena'[at])
         <=> (\A i \in at..(at + FrameSize - 1) : arena[i] = arena[at])
  BY <1>3, <1>4
<1>6. MessageAt(at, FrameSize) = IF \A i \in at..(at + FrameSize - 1) : arena[i] = arena[at]
                                 THEN <<arena[at].of, arena[at].n>> ELSE <<None, -1>>
  BY DEF MessageAt
<1>7. MessageAt(k * FrameSize, FrameSize)' =
         IF \A i \in at..(at + FrameSize - 1) : arena'[i] = arena'[at]
         THEN <<arena'[at].of, arena'[at].n>> ELSE <<None, -1>>
  BY DEF MessageAt, at
<1> QED
  BY <1>4, <1>5, <1>6, <1>7 DEF at

(* arena.write() of a frame changes the message in its slot and no other.  *)
LEMMA FramePut ==
    ASSUME Types, LockInv, WriteFrame
    PROVE  StoredFrames' = [StoredFrames EXCEPT ![packetId % (Slots - 1)] = <<Game, packetId>>]
<1>1. PICK j \in 0..(Slots - 2) : j = packetId % (Slots - 1)
  <2>1. Slots - 1 \in Nat \ {0} /\ packetId \in Nat
    BY SizesAssumption DEF Types
  <2> DEFINE r == packetId % (Slots - 1)
  <2>2. r \in Nat /\ r + 1 <= Slots - 1
    BY <2>1, ModBelow
  <2> HIDE DEF r
  <2>3. r \in 0..(Slots - 2)
    BY <2>2, SizesAssumption
  <2> QED
    BY <2>3 DEF r
<1> DEFINE at == j * FrameSize
<1>0. at = TelemetryOffset(packetId)
  BY <1>1 DEF TelemetryOffset
<1>2. \A i \in DOMAIN arena : ~(i >= at /\ i < at + FrameSize) => arena'[i] = arena[i]
  BY <1>0 DEF WriteFrame, GameMoves, LockInv, Put, Frame, Mark
<1>3. \A i \in at..(at + FrameSize - 1) : arena'[i] = Frame
  BY <1>0, WrittenFrame
<1>4. FrameSize \in Nat \ {0} /\ at \in Nat /\ Slots \in Nat /\ SlotSize \in Nat
  BY <1>1, FramesDisjoint, SizesAssumption
<1>5. MessageAt(j * FrameSize, FrameSize)' = <<Game, packetId>>
  <2>1. arena'[at] = Frame
    BY <1>3, <1>4
  <2>2. \A i \in at..(at + FrameSize - 1) : arena'[i] = arena'[at]
    BY <1>3, <2>1
  <2>3. MessageAt(j * FrameSize, FrameSize)' = <<arena'[at].of, arena'[at].n>>
    BY <2>2 DEF MessageAt
  <2> QED
    BY <2>1, <2>3 DEF Frame, Mark
<1>6. ASSUME NEW k \in 0..(Slots - 2), k # j
      PROVE  MessageAt(k * FrameSize, FrameSize)' = MessageAt(k * FrameSize, FrameSize)
  <2>1. ASSUME NEW i \in (k * FrameSize)..(k * FrameSize + FrameSize - 1)
        PROVE  arena'[i] = arena[i]
    <3> DEFINE kat == k * FrameSize
    <3>1. /\ kat \in Nat /\ kat + FrameSize <= DossierOffset
          /\ kat + FrameSize <= at \/ at + FrameSize <= kat
      BY <1>1, <1>4, <1>6, FramesDisjoint
    <3>2. DossierOffset \in Nat /\ DossierOffset + SlotSize = ArenaSize
      BY SlotsDisjoint DEF Types
    <3>3. i \in kat..(kat + FrameSize - 1)
      OBVIOUS
    <3> HIDE DEF kat, at
    <3>4. i \in 0..(ArenaSize - 1) /\ ~(i >= at /\ i < at + FrameSize)
      BY <1>4, <3>1, <3>2, <3>3
    <3> QED
      BY <1>2, <3>4 DEF Types
  <2> QED
    BY <2>1, FrameStays
<1> QED
  BY <1>1, <1>5, <1>6 DEF StoredFrames

(* A dossier's bytes are all above the telemetry slots.                    *)
LEMMA FramesStay ==
    ASSUME Types, \A i \in 0..(DossierOffset - 1) : arena'[i] = arena[i]
    PROVE  StoredFrames' = StoredFrames
<1>1. ASSUME NEW k \in 0..(Slots - 2)
      PROVE  MessageAt(k * FrameSize, FrameSize)' = MessageAt(k * FrameSize, FrameSize)
  <2> DEFINE kat == k * FrameSize
  <2>1. kat \in Nat /\ kat + FrameSize <= DossierOffset /\ FrameSize \in Nat
    BY FramesDisjoint, SizesAssumption
  <2>2. DossierOffset \in Nat
    BY SlotsDisjoint DEF Types
  <2> HIDE DEF kat
  <2>3. \A i \in kat..(kat + FrameSize - 1) : i \in 0..(DossierOffset - 1)
    BY <2>1, <2>2
  <2>4. \A i \in kat..(kat + FrameSize - 1) : arena'[i] = arena[i]
    BY <2>3
  <2> QED
    BY <2>4, FrameStays DEF kat
<1> QED
  BY <1>1 DEF StoredFrames

StoreStep == [Store!Next]_(Store!vars)

(* Where the messages stay as they are. *)
LEMMA StoreStutters ==
    ASSUME StoreInv, StoreInv', UNCHANGED arena
    PROVE  StoredFrames' = StoredFrames /\ Stored' = Stored
<1>1. StoredFrames' = StoredFrames
  BY DEF StoredFrames, MessageAt
<1>2. Stored' = Stored
  BY StoredDossier, StoredDossierAfter DEF StoreInv
<1> QED BY <1>1, <1>2

LEMMA GivenStays ==
    ASSUME UNCHANGED emitVars
    PROVE  Given' = Given
BY DEF Given, emitVars

LEMMA StoreVars ==
    ASSUME UNCHANGED <<Sent, Given, StoredFrames, Stored, closed>>
    PROVE  StoreStep
BY DEF StoreStep, Store!vars, Sent, Given, Stored

LEMMA GameStoreSteps ==
    ASSUME StoreInv, StoreInv', GameStep
    PROVE  StoreStep
<1> USE DEF StoreInv
<1>1. CASE EncodeFrame \/ SeekBack \/ StopHunter \/ CloseLog \/ ReadBack
  <2>1. UNCHANGED arena /\ UNCHANGED emitVars /\ closed' = closed
    BY <1>1 DEF EncodeFrame, SeekBack, StopHunter, CloseLog, ReadBack, Seek, arenaVars
  <2>2. Sent' = Sent
    BY <1>1 DEF EncodeFrame, SeekBack, StopHunter, CloseLog, ReadBack, GameMoves, Sent
  <2> QED
    BY <2>1, <2>2, StoreStutters, GivenStays, StoreVars
<1>2. CASE WriteFrame
  <2>1. ~closed /\ closed' = closed
    BY <1>2 DEF WriteFrame, GameMoves, ClosedInv
  <2>2. Sent = packetId /\ Sent' = packetId + 1
    BY <1>2 DEF WriteFrame, GameMoves, Sent
  <2>3. StoredFrames' = [StoredFrames EXCEPT ![packetId % (Slots - 1)] = <<Game, packetId>>]
    BY <1>2, FramePut
  <2>4. Given' = Given
    BY <1>2, GivenStays DEF WriteFrame
  <2>5. Stored' = Stored
    <3>1. arena'[DossierOffset] = arena[DossierOffset]
      <4>1. /\ DossierOffset \in Nat /\ DossierOffset + SlotSize = ArenaSize
            /\ SlotSize \in Nat \ {0}
        BY SlotsDisjoint, SizesAssumption DEF Types
      <4>2. DossierOffset \in DossierOffset..(ArenaSize - 1)
        BY <4>1
      <4> QED BY <1>2, <4>2, WrittenFrame
    <3> QED
      BY <3>1, StoredDossier, StoredDossierAfter
  <2>6. Store!PutFrame
    BY <2>1, <2>2, <2>3, <2>4, <2>5 DEF Store!PutFrame, Sent, Given, Stored
  <2> QED
    BY <2>6 DEF StoreStep, Store!Next
<1>3. CASE CloseArena
  <2>1. UNCHANGED <<arena, emitVars>> /\ ~closed /\ closed' = TRUE
    BY <1>3 DEF CloseArena, GameMoves, ClosedInv
  <2>2. Sent' = Sent
    BY <1>3 DEF CloseArena, GameMoves, Sent
  <2>3. Store!End
    BY <2>1, <2>2, StoreStutters, GivenStays DEF Store!End, Sent, Given, Stored
  <2> QED
    BY <2>3 DEF StoreStep, Store!Next
<1> QED
  BY <1>1, <1>2, <1>3 DEF GameStep

(* A dossier is given when its emitter is done with it.                    *)
LEMMA DossierGiven ==
    ASSUME EmitterTypes, NEW e \in Emitters, UNCHANGED dossier,
           emitPc[e] # "free", emitPc' = [emitPc EXCEPT ![e] = "free"]
    PROVE  Given' = [Given EXCEPT ![e] = @ + 1] /\ Given[e] + 1 = dossier[e]
<1>1. dossier[e] \in Nat
  BY DEF EmitterTypes
<1>2. Given[e] + 1 = dossier[e] /\ Given'[e] = dossier[e]
  BY <1>1 DEF Given, EmitterTypes
<1>3. \A f \in Emitters \ {e} : Given'[f] = Given[f]
  BY DEF Given, EmitterTypes
<1> QED
  BY <1>2, <1>3 DEF Given

LEMMA EmitStoreSteps ==
    ASSUME StoreInv, StoreInv', NEW e \in Emitters, Suspect(e) \/ EmitStep(e)
    PROVE  StoreStep
<1> USE DEF StoreInv
<1>0. Sent' = Sent
  BY DEF Suspect, EmitStep, LogTest, LogLine, SeekDossier, WriteDossier, WriteClosed,
     gameVars, Sent
<1>1. CASE Suspect(e)
  <2>1. UNCHANGED <<arena, closed>>
    BY <1>1 DEF Suspect, arenaVars
  <2>2. dossier[e] \in Nat /\ emitPc[e] = "free"
    BY <1>1 DEF Suspect, EmitMoves, EmitterTypes
  <2>3. Given' = Given
    <3>1. Given'[e] = Given[e]
      BY <1>1, <2>2 DEF Suspect, EmitMoves, EmitterTypes, Given
    <3>2. \A f \in Emitters \ {e} : Given'[f] = Given[f]
      BY <1>1 DEF Suspect, EmitMoves, EmitterTypes, Given
    <3> QED BY <3>1, <3>2 DEF Given
  <2> QED
    BY <1>0, <2>1, <2>3, StoreStutters, StoreVars
<1>2. CASE LogTest(e) \/ LogLine(e) \/ SeekDossier(e)
  <2>1. UNCHANGED <<arena, closed, dossier>>
    BY <1>2 DEF LogTest, LogLine, SeekDossier, Seek, arenaVars
  <2>2. \A f \in Emitters : emitPc'[f] = "free" <=> emitPc[f] = "free"
    BY <1>2 DEF LogTest, LogLine, SeekDossier, EmitMoves, EmitterTypes
  <2>3. Given' = Given
    BY <2>1, <2>2 DEF Given
  <2> QED
    BY <1>0, <2>1, <2>3, StoreStutters, StoreVars
<1>3. CASE WriteDossier(e)
  <2>1. /\ ~closed /\ closed' = closed
        /\ Given' = [Given EXCEPT ![e] = @ + 1] /\ Given[e] + 1 = dossier[e]
    BY <1>3, DossierGiven DEF WriteDossier, EmitMoves
  <2>2. PICK len \in 1..SlotSize :
           /\ \A i \in DossierOffset..(DossierOffset + len - 1) :
                 arena'[i] = Mark(e, dossier[e], len)
           /\ \A i \in 0..(DossierOffset - 1) : arena'[i] = arena[i]
    BY <1>3, WrittenDossier
  <2>3. StoredFrames' = StoredFrames
    BY <2>2, FramesStay
  <2>4. Stored' = <<e, dossier[e]>>
    <3>0. packetId \in Nat /\ DossierOffset \in Nat /\ len \in Nat /\ len > 0
      BY SizesAssumption, SlotsDisjoint DEF Types
    <3>1. DossierOffset \in DossierOffset..(DossierOffset + len - 1)
      BY <3>0
    <3>2. arena'[DossierOffset] = Mark(e, dossier[e], len)
      BY <2>2, <3>1
    <3>3. Stored' = <<arena'[DossierOffset].of, arena'[DossierOffset].n>>
      BY StoredDossierAfter
    <3> QED
      BY <3>2, <3>3 DEF Mark
  <2>5. Store!PutDossier(e)
    BY <1>0, <2>1, <2>3, <2>4 DEF Store!PutDossier, Store!Give, Sent, Given, Stored
  <2> QED
    BY <2>5 DEF StoreStep, Store!Next
<1>4. CASE WriteClosed(e)
  <2>1. /\ closed /\ closed' = closed /\ UNCHANGED arena
        /\ Given' = [Given EXCEPT ![e] = @ + 1]
    BY <1>4, DossierGiven DEF WriteClosed, EmitMoves
  <2>2. Store!DropDossier(e)
    BY <1>0, <2>1, StoreStutters DEF Store!DropDossier, Store!Give, Sent, Given, Stored
  <2> QED
    BY <2>2 DEF StoreStep, Store!Next
<1> QED
  BY <1>1, <1>2, <1>3, <1>4 DEF EmitStep

LEMMA StoreStarts == Init => StoreInv /\ Store!Init
<1> SUFFICES ASSUME Init PROVE StoreInv /\ Store!Init
  OBVIOUS
<1>1. StoreInv
  <2>1. Types /\ LockInv /\ ClosedInv
    BY DEF Init, Types, LockInv, ClosedInv
  <2>2. DossierInv
    BY DossierStarts
  <2>3. EmitterTypes
    BY SizesAssumption DEF Init, EmitterTypes
  <2> QED BY <2>1, <2>2, <2>3 DEF StoreInv
<1>2. Sent = 0 /\ Given = [e \in Emitters |-> 0] /\ closed = FALSE
  BY DEF Init, Sent, Given
<1>3. Stored = <<None, 0>>
  <2>1. arena[DossierOffset] = Blank
    BY DossierStarts
  <2> QED BY <1>1, <2>1, StoredDossier DEF StoreInv, Blank, Mark
<1>4. StoredFrames = [k \in 0..(Slots - 2) |-> <<None, 0>>]
  <2>1. ASSUME NEW k \in 0..(Slots - 2)
        PROVE  MessageAt(k * FrameSize, FrameSize) = <<None, 0>>
    <3> DEFINE kat == k * FrameSize
    <3>1. /\ kat \in Nat /\ kat + FrameSize <= DossierOffset
          /\ FrameSize \in Nat \ {0} /\ SlotSize \in Nat
          /\ DossierOffset \in Nat /\ DossierOffset + SlotSize = ArenaSize
      BY FramesDisjoint, SizesAssumption, SlotsDisjoint
    <3> HIDE DEF kat
    <3>2. \A i \in kat..(kat + FrameSize - 1) : i \in 0..(ArenaSize - 1)
      BY <3>1
    <3>3. kat \in kat..(kat + FrameSize - 1)
      BY <3>1
    <3>4. arena[kat] = Blank /\ \A i \in kat..(kat + FrameSize - 1) : arena[i] = Blank
      BY <3>2, <3>3 DEF Init
    <3>5. MessageAt(kat, FrameSize) = <<arena[kat].of, arena[kat].n>>
      BY <3>4 DEF MessageAt
    <3> QED
      BY <3>4, <3>5 DEF Blank, Mark, kat
  <2> QED
    BY <2>1 DEF StoredFrames
<1>5. 0..(Slots - 1 - 1) = 0..(Slots - 2)
  BY SizesAssumption
<1> QED
  BY <1>1, <1>2, <1>3, <1>4, <1>5 DEF Store!Init, Store!NoMessage, Sent, Given, Stored

LEMMA StoreSteps == StoreInv /\ [Next]_vars => StoreInv' /\ StoreStep
<1> SUFFICES ASSUME StoreInv, StoreInv', [Next]_vars PROVE StoreStep
  BY StoreInvKept
<1>1. CASE ScanLoop \/ ScanEnd \/ UNCHANGED vars
  <2>1. UNCHANGED <<gameVars, emitVars, arenaVars>>
    BY <1>1 DEF ScanLoop, ScanEnd, ScanMoves, vars
  <2>2. Sent' = Sent /\ UNCHANGED <<arena, closed>>
    BY <2>1 DEF Sent, gameVars, arenaVars
  <2> QED
    BY <2>1, <2>2, StoreStutters, GivenStays, StoreVars
<1> QED
  BY <1>1, GameStoreSteps, EmitStoreSteps, ThreadsAssumption DEF Next, ScanStep

(* The channel implements SlotStore: each critical section is one atomic   *)
(* put, and nothing else a thread does can be seen in the arena.           *)
THEOREM RefinesStore == Spec => ImplementsStore
<1>1. StoreInv /\ [Next]_vars => [Store!Next]_(Store!vars)
  BY StoreSteps DEF StoreStep
<1>2. StoreInv /\ [Next]_vars => StoreInv'
  BY StoreSteps
<1> QED
  BY <1>1, <1>2, StoreStarts, PTL DEF Spec, ImplementsStore, Store!Spec

-----------------------------------------------------------------------------
(* Going round the slots *)
LEMMA ModDistinct ==
    ASSUME NEW k \in Nat \ {0}, NEW n \in Nat, NEW m \in Nat, m < n, n < m + k
    PROVE  m % k # n % k
<1>1. n \div k \in Int /\ m \div k \in Int
  OBVIOUS
<1>2. n % k = n - k * (n \div k)
  OBVIOUS
<1>3. m % k = m - k * (m \div k)
  OBVIOUS
<1> SUFFICES ASSUME m % k = n % k PROVE FALSE
  OBVIOUS
<1> DEFINE d == (n \div k) - (m \div k)
<1>4. d \in Int /\ k * d = k * (n \div k) - k * (m \div k)
  BY <1>1
<1>5. k * d = n - m
  <2> HIDE DEF d
  <2> DEFINE a == k * (n \div k)
             b == k * (m \div k)
  <2>1. a \in Int /\ b \in Int /\ k * d = a - b
    BY <1>1, <1>4
  <2>2. n - a = m - b
    BY <1>2, <1>3
  <2> HIDE DEF a, b
  <2> QED BY <2>1, <2>2
<1> HIDE DEF d
<1>6. CASE d <= 0
  <2>1. k * d <= 0
    BY <1>4, <1>6
  <2> QED BY <1>5, <2>1
<1>7. CASE d >= 1
  <2>1. k * d >= k
    BY <1>4, <1>7
  <2> QED BY <1>5, <2>1
<1> QED BY <1>4, <1>6, <1>7

(* The last Slots - 1 packets are in the arena, each whole and in the slot *)
(* its number points to.                                                   *)
RecentKept ==
    \A n \in Nat : n < Sent /\ Sent <= n + (Slots - 1)
                      => StoredFrames[n % (Slots - 1)] = <<Game, n>>

(* A consumer that falls behind by less than a round of the telemetry      *)
(* slots loses no packet, whatever the dossier writers do.                 *)
THEOREM RecentAlwaysKept == Spec => []RecentKept
<1> DEFINE K == Slots - 1
<1>1. Init => RecentKept
  BY DEF Init, RecentKept, Sent
<1>2. ASSUME StoreInv, StoreStep, RecentKept
      PROVE  RecentKept'
  <2>1. K \in Nat \ {0} /\ Sent \in Nat
    BY <1>2, SizesAssumption DEF StoreInv, Types, Sent
  <2>2. CASE Sent' = Sent /\ StoredFrames' = StoredFrames
    BY <1>2, <2>2 DEF RecentKept
  <2>3. CASE Store!PutFrame
    <3>1. /\ Sent' = Sent + 1
          /\ StoredFrames' = [StoredFrames EXCEPT ![Sent % K] = <<Game, Sent>>]
      BY <2>3 DEF Store!PutFrame, Sent
    <3>2. ASSUME NEW n \in Nat, n < Sent + 1, Sent + 1 <= n + K
          PROVE  StoredFrames'[n % K] = <<Game, n>>
      <4>1. CASE n = Sent
        <5>1. Sent % K \in 0..(Slots - 2)
          <6>1. Sent % K \in Nat /\ (Sent % K) + 1 <= K
            BY <2>1, ModBelow
          <6> QED BY <6>1, SizesAssumption
        <5>2. DOMAIN StoredFrames = 0..(Slots - 2)
          BY DEF StoredFrames
        <5> QED BY <3>1, <4>1, <5>1, <5>2
      <4>2. CASE n < Sent
        <5>1. n % K # Sent % K
          <6>1. Sent < n + K
            BY <2>1, <3>2
          <6> HIDE DEF K
          <6> QED BY <2>1, <4>2, <6>1, ModDistinct
        <5>2. StoredFrames[n % K] = <<Game, n>>
          <6>1. Sent <= n + K
            BY <2>1, <3>2
          <6> QED BY <1>2, <4>2, <6>1 DEF RecentKept
        <5>3. StoredFrames'[n % K] = StoredFrames[n % K]
          <6>1. n % K \in 0..(Slots - 2)
            <7>1. n % K \in Nat /\ (n % K) + 1 <= K
              BY <2>1, ModBelow
            <7> QED BY <7>1, SizesAssumption
          <6> QED BY <3>1, <5>1, <6>1 DEF StoredFrames
        <5> QED BY <5>2, <5>3
      <4> QED BY <2>1, <3>2, <4>1, <4>2
    <3>3. (Slots - 1)' = Slots - 1
      OBVIOUS
    <3> QED BY <3>1, <3>2 DEF RecentKept
  <2> QED
    BY <1>2, <2>2, <2>3 DEF StoreStep, Store!Next, Store!vars, Store!PutDossier,
       Store!DropDossier, Store!End, Sent
<1>3. StoreInv /\ RecentKept /\ [Next]_vars => RecentKept'
  BY <1>2, StoreSteps
<1>4. StoreInv /\ [Next]_vars => StoreInv'
  BY StoreSteps
<1> QED
  BY <1>1, <1>3, <1>4, StoreStarts, PTL DEF Spec
=============================================================================
