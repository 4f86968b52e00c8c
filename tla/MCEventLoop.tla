---------------------------- MODULE MCEventLoop ----------------------------
(* Two line graphs and every key.  Four presses of d allow every sequence  *)
(* of kills up to two by dd.                                                 *)
EXTENDS EventLoop
=============================================================================
