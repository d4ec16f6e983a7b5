--------------------------- MODULE MCInotifyWatcher ---------------------------
(* Instance of InotifyWatcher for TLC: two readers, two Timer threads, at  *)
(* most two unread events.                                                 *)
EXTENDS InotifyWatcher

CONSTANTS t1, t2, r1, r2
=============================================================================
