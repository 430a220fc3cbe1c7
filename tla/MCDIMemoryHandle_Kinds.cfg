SPECIFICATION Spec
CONSTANTS
  m1 = m1
  m2 = m2
  m3 = m3
  w1 = w1
  w2 = w2
  c1 = c1
  c2 = c2
  a1 = a1
  Itr = Itr
  Null = Null
  Memories = {m1, m2}
  Handles = {w1, w2, c1, c2, a1}
  Kind <- KindOf
\* The program stops when it reaches llvm_unreachable().
CHECK_DEADLOCK FALSE
INVARIANTS TypeOK WellLinked ListsComplete NothingDangles StopsForAssert
PROPERTY ImplementsPromise
