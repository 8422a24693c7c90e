------------------------------ MODULE MCLetters ------------------------------
(***************************************************************************)
(* An instance of Letters for TLC: a letter with which anything but        *)
(* signing on paper may be done, and another, signed on paper, that only   *)
(* goes the straight way to its number.                                    *)
(***************************************************************************)
EXTENDS Letters, TLC

CONSTANTS l1, l2, m1

MCAsks == (l1 :> Ops \ {"paper"}) @@ (l2 :> {"send", "paper", "issue"})
MCPanels == (l1 :> {{m1}, Members}) @@ (l2 :> {{m1}})
Symmetry == Permutations(Workers)
=============================================================================
