---------------------------- MODULE MCAliasTree ----------------------------
(* Small functions for AliasTree. *)
EXTENDS AliasTree

Pointer(b, o, operand, elem, src, root, from) ==
  [base |-> b, off |-> o, operand |-> operand, elem |-> elem, src |-> src,
   root |-> root, from |-> from]
\* Two arrays x and y of two bytes, x[i] for some i, and two loads, p and q, of
\* a pointer to such an array.
SmallShape == [w \in {"x", "x0", "x1", "xi", "y", "y0", "p", "p0", "p1", "q"} |->
  CASE w = "x"  -> Pointer("x", 0, "x", 2, 0, "x", "none")
    [] w = "x0" -> Pointer("x", 0, "x", 1, 2, "x", "none")
    [] w = "x1" -> Pointer("x", 1, "x", 1, 2, "x", "none")
    [] w = "xi" -> Pointer("xi", 0, "x", 1, 0, "x", "none")
    [] w = "y"  -> Pointer("y", 0, "y", 2, 0, "y", "none")
    [] w = "y0" -> Pointer("y", 0, "y", 1, 2, "y", "none")
    [] w = "p"  -> Pointer("p", 0, "p", 2, 0, "s", "s")
    [] w = "p0" -> Pointer("p", 0, "p", 1, 2, "s", "s")
    [] w = "p1" -> Pointer("p", 1, "p", 1, 2, "s", "s")
    [] w = "q"  -> Pointer("q", 0, "q", 2, 0, "s", "s")]
SmallSizes == [o \in {"x", "y"} |-> 2]
SmallPointsTo ==
  {[l \in {"xi", "p", "q"} |->
      CASE l = "xi" -> {<<"x", 0>>, <<"x", 1>>} [] l = "p" -> A [] l = "q" -> B] :
   A, B \in (SUBSET {<<"x", 0>>, <<"y", 0>>}) \ {{}}}
\* Without p1: see FieldLocations.
SmallLocations ==
  {<<"x", 2>>, <<"x0", 1>>, <<"x1", 1>>, <<"xi", 1>>, <<"y0", 1>>,
   <<"p", 2>>, <<"p0", 1>>, <<"q", 2>>, <<"q", AfterPointer>>}
FieldLocations == {<<"y0", 1>>, <<"p0", 1>>, <<"p1", 1>>, <<"q", 2>>}

\* A call that may access all memory, and calls that access an object each.
NoCalls == [c \in {} |-> {}]
SmallCalls == [c \in {"f", "g", "h"} |->
  CASE c = "f" -> {"x", "y"} [] c = "g" -> {"x"} [] c = "h" -> {"y"}]
=============================================================================
