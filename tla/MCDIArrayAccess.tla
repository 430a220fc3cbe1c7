-------------------------- MODULE MCDIArrayAccess --------------------------
(* Two functions; in one of them a nest of two loops.                      *)
EXTENDS DIArrayAccess, TLC

CONSTANTS arr1, arr2, arr3, f1, f2, outer, inner

OuterOf == [s \in Scopes |-> CASE s = inner -> outer
                               [] s = outer -> f1
                               [] OTHER -> None]
Symmetry == Permutations(Arrays)
=============================================================================
