--------------------------- MODULE MCMultiOutport ---------------------------
(***************************************************************************)
(* Three targets, two labels that share one of them.                       *)
(***************************************************************************)
EXTENDS MultiOutport

TwoLabels == [t \in 0 .. 2 |-> CASE t = 0 -> {"x"}
                                 [] t = 1 -> {}
                                 [] t = 2 -> {"x", "y"}]

=============================================================================
