---------------------------- MODULE LogHistory ----------------------------
(***************************************************************************)
(* What the log files promise, however they are renamed: the files kept    *)
(* are a history that loses files at its old end only, and never the       *)
(* newest.  Files are numbered in the order in which they were begun.      *)
(***************************************************************************)
EXTENDS Naturals

VARIABLES
    kept,       \* the files that exist
    begun       \* how many files were ever begun

Init == kept = {} /\ begun = 0

(* A new, empty file. *)
Begin ==
    /\ begun' = begun + 1
    /\ kept' = kept \cup {begun + 1}

(* The oldest file goes, if there is a newer one. *)
Forget ==
    \E old \in kept, newer \in kept :
        /\ newer > old
        /\ \A f \in kept : f >= old
        /\ kept' = kept \ {old}
        /\ UNCHANGED begun

Spec == Init /\ [][Begin \/ Forget]_<<kept, begun>>
=============================================================================
