------------------------------ MODULE MCDevices ------------------------------
(***************************************************************************)
(* Devices for TLC.  NVidia alone, and two remotes with and without URLs,  *)
(* each with the one goroutine of a widget that keeps its map or with two  *)
(* goroutines of the CPU's widget at a time; NVidia with a remote and one  *)
(* goroutine of that widget.  The domains meet nowhere but in the rows and *)
(* lines that write them, and one is enough.                               *)
(***************************************************************************)
EXTENDS Devices, TLC

CONSTANTS r1, r2, d, keeper, c1, c2

OneDomain == [u \in {keeper, c1, c2} |-> d]

Setups ==
    [nvidia : {TRUE}, widgets : {{keeper}, {c1, c2}}, remotes : {[r \in {r1, r2} |-> "none"]}] \cup
    [nvidia : {FALSE}, widgets : {{keeper}, {c1, c2}},
     remotes : {r1 :> "url" @@ r2 :> o : o \in {"refresh", "url"}}] \cup
    [nvidia : {TRUE}, widgets : {{c1}}, remotes : {r1 :> "url" @@ r2 :> "none"}]
=============================================================================
