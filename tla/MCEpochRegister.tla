---- MODULE MCEpochRegister ----
EXTENDS EpochRegister

(* The phases are small numbers of the source; nothing to add but bounds,  *)
(* which register.cfg names.                                               *)
====
