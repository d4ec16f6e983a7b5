----------------------------- MODULE MCHunterSystem -----------------------------
(* Instance of HunterSystem for TLC: one foreign reader, one Timer thread, *)
(* at most one unread event.                                               *)
EXTENDS HunterSystem

CONSTANTS t1, r1
=============================================================================
