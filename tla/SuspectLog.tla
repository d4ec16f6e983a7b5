------------------------------ MODULE SuspectLog ------------------------------
(***************************************************************************)
(* What the observer hunter promises about its dossiers, and nothing of    *)
(* how it works: a process gets a dossier only after it has opened our     *)
(* /proc/<pid>/mem or read us with process_vm_readv, and a dossier is      *)
(* never taken back.                                                       *)
(***************************************************************************)
CONSTANT Pids       \* the foreign processes

VARIABLES
    touched,        \* processes that have opened or read our memory
    recorded        \* processes that have a dossier

vars == <<touched, recorded>>

Init == touched = {} /\ recorded = {}

Touch(p) ==
    /\ touched' = touched \cup {p}
    /\ UNCHANGED recorded

Record(p) ==
    /\ p \in touched
    /\ recorded' = recorded \cup {p}
    /\ UNCHANGED touched

Next == \E p \in Pids : Touch(p) \/ Record(p)

Spec == Init /\ [][Next]_vars
=============================================================================
