------------------------------ MODULE MCLayout ------------------------------
(* Every definition of up to three rows of up to three widgets that span   *)
(* up to three rows.                                                       *)
EXTENDS Layout
=============================================================================
