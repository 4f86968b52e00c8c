------------------------------ MODULE MCTable ------------------------------
(* A table of up to six rows over five items; column 1 is not unique, as   *)
(* when rows of the wrong kind are shown.  The lists differ in length and  *)
(* in order, so a refresh can move, drop or duplicate the selected item.   *)
EXTENDS Table

Items == {"a", "b", "c", "d", "e", "f"}
MCCell == Items \cup {"x", "y"}

R(k) == [c \in Cols |-> IF c = 0 THEN k ELSE IF k \in {"a", "b"} THEN "x" ELSE "y"]

MCRowLists ==
    { << >>, <<R("b")>>, <<R("b"), R("a"), R("c")>>,
      <<R("a"), R("b"), R("c"), R("d")>>, <<R("d"), R("c"), R("b"), NilRow>>,
      <<R("f"), R("a"), R("e"), R("c"), R("b"), R("d")>> }

MCHeights == {0, 1, 2, 3, 4, 6}
=============================================================================
