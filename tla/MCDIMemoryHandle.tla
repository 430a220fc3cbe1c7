-------------------------- MODULE MCDIMemoryHandle --------------------------
(* Small sets of locations and handles.                                    *)
EXTENDS DIMemoryHandle, TLC

CONSTANTS m1, m2, m3, w1, w2, c1, c2, a1

MCKind ==
  (w1 :> "weak") @@ (w2 :> "weak") @@ (c1 :> "callback") @@
  (c2 :> "callback") @@ (a1 :> "assert")
KindOf == [h \in Handles |-> MCKind[h]]
=============================================================================
