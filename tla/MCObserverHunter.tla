--------------------------- MODULE MCObserverHunter ---------------------------
(* Instances of ObserverHunter for TLC: at most one opener, one vm reader, *)
(* and one Timer thread in _on_mem_open().                                 *)
EXTENDS ObserverHunter

CONSTANTS p1, p2, c1

(* Bounds of hunter_vmreadv, where more than one source of sightings is at *)
(* work: opens that inotify does not see, so that both queues and Tier 4   *)
(* are in use; or anonymous opens, so that a Timer thread and the scan     *)
(* thread emit at the same time, with time passing only as long as there   *)
(* are these alone.                                                        *)
OpensUnseen == clock = 0 /\ lastAnon = -1 /\ \A c \in Callers : cb[c] = NoCall

AnonymousOnly ==
    /\ Openers \subseteq alive \ touched
    /\ \A c \in Callers : cb[c].branch # "fast"
    /\ clock > 0 => touched = {}

OneScene == OpensUnseen \/ AnonymousOnly
=============================================================================
