---------------------------- MODULE MCSwapShared ----------------------------
(* Instances of SwapShared for TLC. *)
EXTENDS SwapShared
=============================================================================
