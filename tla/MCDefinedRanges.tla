-------------------------- MODULE MCDefinedRanges --------------------------
(* Parts of an array of six elements, and of one of two rows of two. *)
EXTENDS DefinedRanges

Region(succ, loops, loop, busy, trips) ==
  [graph |-> [blocks |-> DOMAIN succ, entry |-> 1, succ |-> succ, loops |-> loops],
   loop |-> loop, busy |-> busy, trips |-> trips]
\* if (1) 2 else 3;  4
If == Region(<<{2, 3}, {4}, {4}, {}>>, <<>>, Fn, {2, 3, 4}, Unknown)
\* while (2) { 3; if (...) 4 }
While(trips) == Region(<<{2}, {3, 5}, {4, 2}, {2}, {}>>, 2 :> {2, 3, 4}, 2, {3, 4}, trips)
\* do { 2; if (...) break; 3 } while (...)
Break == Region(<<{2}, {3, 4}, {2, 4}, {}>>, 2 :> {2, 3}, 2, {2, 3}, Unknown)
SmallRegions == {If, While(Unknown), While(1), Break}

\* A subscript i of for (i = start; ...; i += step), and one that is constant.
For(start, step, runs) == [start |-> start, step |-> step, runs |-> runs, tested |-> "before"]
Const(i) == For(i, 0, 1)
Elements(subs) == [kind |-> "elements", subs |-> subs]
InBytes(kind, lower, upper) == [kind |-> kind, lower |-> lower, upper |-> upper]

Doing(defs, mayDefs, uses) ==
  {[defs |-> d, mayDefs |-> m, uses |-> u] : d \in defs, m \in mayDefs, u \in uses}
One(places) == {{p} : p \in places}
Use(sizes, places, more) ==
  LET able == {p \in places : p.kind = "elements" => Aggregated(p, sizes)}
  IN Doing({{}}, {{}}, {{}})
       \cup Doing(One(able), {{}}, {{}})
       \cup Doing({{}}, {{}}, One(able \cup more))
       \cup Doing({{}}, One({p \in able : p.kind = "elements" /\ p.subs[1].step = 1}), {{}})

Vector == <<6>>
VectorPlaces ==
  {Elements(<<For(0, 1, 6)>>), Elements(<<For(0, 1, 4)>>), Elements(<<For(2, 1, 4)>>),
   Elements(<<For(0, 2, 3)>>), Elements(<<For(1, 2, 3)>>), Elements(<<For(0, 3, 2)>>),
   Elements(<<Const(1)>>), InBytes("default", 2, 6)}
VectorUses == {InBytes("default", 0, 12), InBytes("default", 1, Unknown),
               InBytes("noncollapsable", 2, 4)}
Matrix == <<2, 2>>
MatrixPlaces ==
  {Elements(<<For(0, 1, 2), For(0, 1, 2)>>), Elements(<<Const(1), For(0, 1, 2)>>),
   Elements(<<For(0, 1, 2), Const(0)>>), Elements(<<Const(0), Const(0)>>),
   Elements(<<Const(1), Const(1)>>), InBytes("default", 0, 4), InBytes("default", 4, 6)}
MatrixUses == {InBytes("default", 0, 8), InBytes("default", 1, 4)}
SmallArrays ==
  {[sizes |-> Vector, accesses |-> Use(Vector, VectorPlaces, VectorUses)],
   [sizes |-> Matrix, accesses |-> Use(Matrix, MatrixPlaces, MatrixUses)]}

\* Loops that count down.
Down == {Elements(<<For(2, -1, 2)>>), Elements(<<For(0, 1, 2)>>)}
DownArrays == {[sizes |-> <<4>>, accesses |-> Use(<<4>>, Down, {})]}
\* The parts A[0, 6) and A[4, 10) of an array.
Overlapping == {Elements(<<For(0, 1, 6)>>), Elements(<<For(4, 1, 6)>>)}
OverlappingArrays == {[sizes |-> <<10>>, accesses |-> Use(<<10>>, Overlapping, {})]}
Ifs == {If}
=============================================================================
