SPECIFICATION Spec
CONSTANTS
  arr1 = arr1
  arr2 = arr2
  arr3 = arr3
  f1 = f1
  f2 = f2
  outer = outer
  inner = inner
  None = None
  Arrays = {arr1, arr2, arr3}
  Scopes = {f1, f2, outer, inner}
  Outer <- OuterOf
  MaxAccesses = 4
SYMMETRY Symmetry
\* The bound on accesses ends the model, and so does an erase that fails.
CHECK_DEADLOCK FALSE
INVARIANTS ScopeRanges ArrayRanges
PROPERTY ImplementsPromise
