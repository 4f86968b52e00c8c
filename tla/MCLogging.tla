----------------------------- MODULE MCLogging -----------------------------
(* Short and long writes against a limit of two, and enough files for two  *)
(* of them to be lost.                                                     *)
EXTENDS Logging
=============================================================================
