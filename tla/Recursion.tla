----------------------------- MODULE Recursion -----------------------------
(* Functions defined by recursion exist: what the proofs about data-flow    *)
(* problems, sums and walks over the loops of a nest have in common.  The   *)
(* argument is always a least counterexample.                               *)
EXTENDS Integers, FiniteSetTheorems, WellFoundedInduction, TLAPS

(* Every nonempty set of natural numbers has a least element.              *)
LEMMA LeastNat ==
  ASSUME NEW S \in SUBSET Nat, S # {}
  PROVE  \E x \in S : \A y \in S : x <= y
<1>1. PICK x \in S : \A y \in S : ~(<<y, x>> \in OpToRel(<, Nat))
  BY NatLessThanWellFounded, WFMin
<1>2. \A y \in S : ~(y < x)
  BY <1>1 DEF OpToRel
<1> QED
  BY <1>2

(* Of some subsets of a finite set one has none of the others in it.       *)
LEMMA LeastSet ==
  ASSUME NEW I, IsFiniteSet(I), NEW C \in SUBSET (SUBSET I), C # {}
  PROVE  \E S \in C : \A T \in C : T \subseteq S => T = S
<1> DEFINE N == {Cardinality(S) : S \in C}
<1>1. \A S \in C : IsFiniteSet(S) /\ Cardinality(S) \in Nat
  BY FS_Subset, FS_CardinalityType
<1>2. N \in SUBSET Nat /\ N # {}
  BY <1>1
<1>3. PICK x \in N : \A y \in N : x <= y
  BY <1>2, LeastNat
<1>4. PICK S \in C : Cardinality(S) = x
  OBVIOUS
<1>5. ASSUME NEW T \in C, T \subseteq S PROVE T = S
  <2>1. Cardinality(T) <= Cardinality(S) /\ (Cardinality(T) = Cardinality(S) => S = T)
    BY <1>1, <1>5, FS_Subset
  <2>2. x <= Cardinality(T)
    BY <1>3
  <2> QED
    BY <1>1, <1>4, <2>1, <2>2
<1> QED
  BY <1>5

-----------------------------------------------------------------------------
(* Recursion over a graph without a cycle.  An attempt is a function that   *)
(* satisfies the equations on some nodes and on all that lead to them.     *)
Attempt(step, before, S, f) ==
  \A n \in S : before[n] \subseteq S /\ f[n] = step[<<n, f>>]

\* What leads to a node is known, and no node leads to itself.
NoCycle(N, before) ==
  /\ before \in [N -> SUBSET N]
  /\ \A S \in SUBSET N : S # {} => \E n \in S : before[n] \cap S = {}
\* The value of a node depends on those of the nodes that lead to it.
Equations(N, V, before, step) ==
  /\ V # {}
  /\ \A n \in N : \A f \in [N -> V] : step[<<n, f>>] \in V
  /\ \A n \in N : \A f, h \in [N -> V] :
       (\A p \in before[n] : f[p] = h[p]) => step[<<n, f>>] = step[<<n, h>>]

(* A function with a recursion along a relation without cycles exists: the *)
(* set of nodes on which no attempt is defined has no least element.       *)
LEMMA Recursion ==
  ASSUME NEW N, NEW V, NEW before, NEW step,
         NoCycle(N, before), Equations(N, V, before, step)
  PROVE  \E f \in [N -> V] : \A n \in N : f[n] = step[<<n, f>>]
<1>h. /\ before \in [N -> SUBSET N]
      /\ \A S \in SUBSET N : S # {} => \E n \in S : before[n] \cap S = {}
      /\ \A n \in N : \A f \in [N -> V] : step[<<n, f>>] \in V
      /\ \A n \in N : \A f, h \in [N -> V] :
           (\A p \in before[n] : f[p] = h[p]) => step[<<n, f>>] = step[<<n, h>>]
  BY DEF NoCycle, Equations
<1>e. PICK any \in V : TRUE
  BY DEF Equations
<1> USE <1>h
<1> DEFINE Tries(n) == {f \in [N -> V] :
                          \E S \in SUBSET N : n \in S /\ Attempt(step, before, S, f)}
           U == {n \in N : Tries(n) # {}}
           F == [n \in N |-> IF n \in U THEN (CHOOSE f \in Tries(n) : TRUE)[n] ELSE any]
<1>0. ASSUME NEW S \in SUBSET N, NEW f \in [N -> V], Attempt(step, before, S, f),
             NEW T \in SUBSET N, NEW h \in [N -> V], Attempt(step, before, T, h)
      PROVE  \A n \in S \cap T : f[n] = h[n]
  <2> DEFINE D == {n \in S \cap T : f[n] # h[n]}
  <2>1. SUFFICES ASSUME D # {} PROVE FALSE
    OBVIOUS
  <2>2. D \in SUBSET N
    OBVIOUS
  <2>3. PICK n \in D : before[n] \cap D = {}
    BY <2>1, <2>2
  <2>4. /\ n \in N /\ before[n] \subseteq S \cap T
        /\ f[n] = step[<<n, f>>] /\ h[n] = step[<<n, h>>]
    BY <1>0 DEF Attempt
  <2>5. \A p \in before[n] : f[p] = h[p]
    BY <2>3, <2>4
  <2>6. step[<<n, f>>] = step[<<n, h>>]
    BY <2>4, <2>5
  <2> QED
    BY <2>4, <2>6
<1>1. F \in [N -> V]
  <2>1. \A n \in U : (CHOOSE f \in Tries(n) : TRUE) \in Tries(n)
    OBVIOUS
  <2>2. \A n \in U : (CHOOSE f \in Tries(n) : TRUE)[n] \in V
    BY <2>1
  <2> HIDE DEF Tries, U
  <2> QED
    BY <2>2
<1>2. ASSUME NEW S \in SUBSET N, NEW f \in [N -> V], Attempt(step, before, S, f)
      PROVE  S \subseteq U /\ \A n \in S : F[n] = f[n]
  <2>1. S \subseteq U
    BY <1>2
  <2>2. ASSUME NEW n \in S PROVE F[n] = f[n]
    <3> DEFINE h == CHOOSE t \in Tries(n) : TRUE
    <3>1. h \in Tries(n) /\ F[n] = h[n]
      BY <2>1
    <3> HIDE DEF h
    <3>2. h \in [N -> V]
      BY <3>1
    <3>3. PICK T \in SUBSET N : n \in T /\ Attempt(step, before, T, h)
      BY <3>1
    <3> HIDE DEF F, Tries, U
    <3>4. \A m \in S \cap T : f[m] = h[m]
      BY <1>0, <1>2, <3>2, <3>3
    <3>5. h[n] = f[n]
      BY <3>3, <3>4
    <3> QED
      BY <3>1, <3>5
  <2> QED
    BY <2>1, <2>2
<1> HIDE DEF F
<1>3. \A n \in U : before[n] \subseteq U /\ F[n] = step[<<n, F>>]
  <2>1. SUFFICES ASSUME NEW n \in U PROVE before[n] \subseteq U /\ F[n] = step[<<n, F>>]
    OBVIOUS
  <2>2. PICK f \in [N -> V] : \E S \in SUBSET N : n \in S /\ Attempt(step, before, S, f)
    OBVIOUS
  <2>3. PICK S \in SUBSET N : n \in S /\ Attempt(step, before, S, f)
    BY <2>2
  <2>4. S \subseteq U /\ \A m \in S : F[m] = f[m]
    BY <1>2, <2>3
  <2>5. before[n] \subseteq S /\ f[n] = step[<<n, f>>]
    BY <2>3 DEF Attempt
  <2>6. step[<<n, f>>] = step[<<n, F>>]
    BY <1>1, <2>4, <2>5
  <2> QED
    BY <2>3, <2>4, <2>5, <2>6
<1>4. ASSUME N \ U # {} PROVE FALSE
  <2>1. PICK n \in N \ U : before[n] \cap (N \ U) = {}
    BY <1>4
  <2>2. before[n] \subseteq U
    BY <2>1
  <2> DEFINE f == [F EXCEPT ![n] = step[<<n, F>>]]
             S == U \cup {n}
  <2>3. f \in [N -> V]
    BY <1>1
  <2>4. f[n] = step[<<n, F>>] /\ \A m \in U : f[m] = F[m]
    BY <1>1, <2>1
  <2> HIDE DEF f, U
  <2>5. n \in N /\ U \subseteq N
    BY DEF U
  <2>6. \A m \in S : before[m] \subseteq U
    BY <1>3, <2>2
  <2>7. \A m \in S : step[<<m, f>>] = step[<<m, F>>]
    BY <1>1, <2>3, <2>4, <2>5, <2>6
  <2>8. \A m \in S : f[m] = step[<<m, f>>]
    BY <1>3, <2>4, <2>7
  <2>9. Attempt(step, before, S, f)
    BY <2>6, <2>8 DEF Attempt
  <2>10. S \subseteq U
    BY <1>2, <2>3, <2>5, <2>9
  <2> QED
    BY <2>1, <2>10
<1> QED
  BY <1>1, <1>3, <1>4

-----------------------------------------------------------------------------
(* Natural numbers are reached from 0.                                     *)
LEMMA Counting ==
  ASSUME NEW S \in SUBSET Nat, 0 \in S, \A k \in S : k + 1 \in S
  PROVE  S = Nat
<1>1. SUFFICES ASSUME Nat \ S # {} PROVE FALSE
  OBVIOUS
<1>2. PICK x \in Nat \ S : \A y \in Nat \ S : x <= y
  BY <1>1, LeastNat
<1>3. x - 1 \in Nat /\ x - 1 \in S
  BY <1>2
<1> QED
  BY <1>2, <1>3

(* A function on natural numbers, each value from the one before.          *)
Continues(V, next) == \A k \in Nat : \A v \in V : next[<<k, v>>] \in V
IsSequence(f, V, init, next) ==
  /\ f \in [Nat -> V] /\ f[0] = init
  /\ \A k \in Nat \ {0} : f[k] = next[<<k, f[k - 1]>>]
(* Such a function exists.                                                 *)
LEMMA NatRecursion ==
  ASSUME NEW V, NEW init \in V, NEW next, Continues(V, next)
  PROVE  \E f : IsSequence(f, V, init, next)
<1> DEFINE before == [k \in Nat |-> {j \in Nat : j < k}]
           Term(k, f) == IF k = 0 THEN init ELSE next[<<k, f[k - 1]>>]
           step == [a \in Nat \X [Nat -> V] |-> Term(a[1], a[2])]
<1>1. \A k \in Nat : \A f \in [Nat -> V] : Term(k, f) \in V
  <2>1. SUFFICES ASSUME NEW k \in Nat, NEW f \in [Nat -> V], k # 0
                 PROVE  next[<<k, f[k - 1]>>] \in V
    OBVIOUS
  <2>2. k - 1 \in Nat
    BY <2>1
  <2>3. f[k - 1] \in V
    BY <2>2
  <2> QED
    BY <2>3 DEF Continues
<1>2. \A k \in Nat : \A f \in [Nat -> V] : step[<<k, f>>] = Term(k, f)
  <2> HIDE DEF Term
  <2> QED
    OBVIOUS
<1>3. \A k \in Nat : \A f, h \in [Nat -> V] :
        (\A j \in before[k] : f[j] = h[j]) => Term(k, f) = Term(k, h)
  <2>1. SUFFICES ASSUME NEW k \in Nat, NEW f \in [Nat -> V], NEW h \in [Nat -> V],
                        \A j \in before[k] : f[j] = h[j], k # 0
                 PROVE  Term(k, f) = Term(k, h)
    OBVIOUS
  <2>2. k - 1 \in before[k]
    BY <2>1
  <2>3. f[k - 1] = h[k - 1]
    BY <2>1, <2>2
  <2> QED
    BY <2>3
<1>4. NoCycle(Nat, before)
  <2>1. ASSUME NEW C \in SUBSET Nat, C # {} PROVE \E k \in C : before[k] \cap C = {}
    <3>1. PICK k \in C : \A j \in C : k <= j
      BY <2>1, LeastNat
    <3>2. k \in Nat /\ \A j \in C : j \in Nat /\ ~(j < k)
      BY <3>1
    <3> QED
      BY <3>2
  <2>2. before \in [Nat -> SUBSET Nat]
    OBVIOUS
  <2> HIDE DEF before
  <2> QED
    BY <2>1, <2>2 DEF NoCycle
<1> HIDE DEF before, step, Term
<1>5. Equations(Nat, V, before, step)
  <2>1. \A k \in Nat : \A f \in [Nat -> V] : step[<<k, f>>] \in V
    BY <1>1, <1>2
  <2>2. \A k \in Nat : \A f, h \in [Nat -> V] :
          (\A j \in before[k] : f[j] = h[j]) => step[<<k, f>>] = step[<<k, h>>]
    BY <1>2, <1>3
  <2> QED
    BY <2>1, <2>2 DEF Equations
<1>6. PICK f \in [Nat -> V] : \A k \in Nat : f[k] = step[<<k, f>>]
  BY <1>4, <1>5, Recursion
<1>7. \A k \in Nat : f[k] = Term(k, f)
  BY <1>2, <1>6
<1> QED
  BY <1>7 DEF Term, IsSequence
=============================================================================
