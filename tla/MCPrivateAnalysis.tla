------------------------- MODULE MCPrivateAnalysis -------------------------
(* Small functions: one loop or a nest, left at one place or at several. *)
EXTENDS PrivateAnalysis, TLC

Op(op) == [op |-> op, loc |-> "x"]
OneAccess == {<<>>, <<Op("read")>>, <<Op("write")>>, <<Op("maywrite")>>}

Graph(succ, loops) ==
  [blocks |-> DOMAIN succ, entry |-> 1, succ |-> succ, loops |-> loops]
\* while (2) { 3 }
While == Graph(<<{2}, {3, 4}, {2}, {}>>, 2 :> {2, 3})
\* do { 2; if (...) break; 3 } while (...)
Break == Graph(<<{2}, {3, 4}, {2, 4}, {}>>, 2 :> {2, 3})
\* while (2) if (...) 4
Conditional == Graph(<<{2}, {3, 5}, {4, 2}, {2}, {}>>, 2 :> {2, 3, 4})
\* while (2) while (3) 4
Nest == Graph(<<{2}, {3, 5}, {2, 4}, {3}, {}>>, 2 :> {2, 3, 4} @@ 3 :> {3, 4})
\* A nest whose inner loop may leave both.
Goto == Graph(<<{2}, {3}, {2, 4, 5}, {3}, {}>>, 2 :> {2, 3, 4} @@ 3 :> {3, 4})
\* if (1) for (;;) 2
Endless == Graph(<<{2, 3}, {2}, {}>>, 2 :> {2})
\* do 2 while; do 3 while
Sequence == Graph(<<{2}, {2, 3}, {3, 4}, {}>>, 2 :> {2} @@ 3 :> {3})
SmallGraphs == {While, Break, Conditional, Nest, Goto, Endless, Sequence}
=============================================================================
