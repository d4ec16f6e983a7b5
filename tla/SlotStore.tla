------------------------------ MODULE SlotStore ------------------------------
(***************************************************************************)
(* What the IPC arena promises between two writes, to a reader in the same *)
(* process or to one that maps it while nobody writes: every slot holds    *)
(* one whole message or nothing, telemetry packets come in the order of    *)
(* their numbers and go round the slots, the dossiers of an emitter come   *)
(* in order and none is left out before the arena is closed.  Nothing is   *)
(* said of bytes, of the file position or of a lock, nor of what another   *)
(* process sees while a write is under way.                                *)
(***************************************************************************)
EXTENDS Integers

CONSTANTS
    Game, Emitters, None,
    Frames               \* the number of telemetry slots

VARIABLES
    sent,    \* the number of telemetry packets put so far
    frames,  \* the message in each telemetry slot
    given,   \* per emitter, how many of its dossiers have been put or dropped
    slot,    \* the message in the hunter's slot
    ended    \* the arena has been closed

vars == <<sent, frames, given, slot, ended>>

(* A message is its writer and its number. *)
NoMessage == <<None, 0>>

Init == /\ sent = 0
        /\ frames = [k \in 0..(Frames - 1) |-> NoMessage]
        /\ given = [e \in Emitters |-> 0]
        /\ slot = NoMessage
        /\ ended = FALSE

PutFrame == /\ ~ended
            /\ frames' = [frames EXCEPT ![sent % Frames] = <<Game, sent>>]
            /\ sent' = sent + 1
            /\ UNCHANGED <<given, slot, ended>>

Give(e) == given' = [given EXCEPT ![e] = @ + 1]

PutDossier(e) == /\ ~ended /\ Give(e)
                 /\ slot' = <<e, given[e] + 1>>
                 /\ UNCHANGED <<sent, frames, ended>>

DropDossier(e) == /\ ended /\ Give(e)
                  /\ UNCHANGED <<sent, frames, slot, ended>>

End == ~ended /\ ended' = TRUE /\ UNCHANGED <<sent, frames, given, slot>>

Next == PutFrame \/ End \/ \E e \in Emitters : PutDossier(e) \/ DropDossier(e)

Spec == Init /\ [][Next]_vars
=============================================================================
