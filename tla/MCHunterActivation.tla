-------------------------- MODULE MCHunterActivation --------------------------
(* Instance of HunterActivation for TLC: two Timer threads inside          *)
(* _force_active() at once.                                                *)
EXTENDS HunterActivation

CONSTANTS c1, c2
=============================================================================
