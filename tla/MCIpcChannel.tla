---- MODULE MCIpcChannel ----
EXTENDS IpcChannel

(* The scan thread and one Timer thread *)
CONSTANTS scan, t1, game
====
