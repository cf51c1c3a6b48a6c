-------------------------- MODULE MCTnodesExchange3 --------------------------
(***************************************************************************)
(* A 2 x 2 arrangement of level-0 trees whose connectivity numbers the     *)
(* lower-left tree 0, the upper-right tree 1, the lower-right tree 2 and   *)
(* the upper-left tree 3.  Rank 0 holds trees 0 and 1 (local elements 0    *)
(* and 1), rank 1 tree 2, rank 2 tree 3.  Ranks 1 and 2 meet only at the   *)
(* center corner c11, which rank 0 owns: each is a purely passive peer of  *)
(* the other (bufcount 0), and rank 0 answers queries for element 1 too.   *)
(***************************************************************************)
EXTENDS TnodesExchange

MCNodes == {"c00", "c10", "c20", "c01", "c11", "c21", "c02", "c12", "c22",
            "m0", "m1", "m2", "m3"}

\* Corners 0..3 in child order, 4 the center, of local element le.
Elem(le, c0, c1, c2, c3, m) ==
  (<<le, 0>> :> c0) @@ (<<le, 1>> :> c1) @@ (<<le, 2>> :> c2) @@ (<<le, 3>> :> c3) @@ (<<le, 4>> :> m)

MCElemNode ==
  [r \in 0..2 |-> CASE r = 0 -> Elem(0, "c00", "c10", "c01", "c11", "m0") @@
                                Elem(1, "c11", "c21", "c12", "c22", "m3")
                    [] r = 1 -> Elem(0, "c10", "c20", "c11", "c21", "m1")
                    [] r = 2 -> Elem(0, "c01", "c11", "c02", "c12", "m2")]

MCConstruct ==
  [r \in 0..2 |-> CASE r = 0 -> <<"m0", "m3", "c21", "c11", "c12", "c10", "c01", "c00", "c22">>
                    [] r = 1 -> <<"m1", "c21", "c11", "c10", "c20">>
                    [] r = 2 -> <<"m2", "c12", "c11", "c01", "c02">>]

\* The corner callback lists the sides tree by tree; rank 0's trees come
\* first in every contributor array.
MCContrOrder(r, n) == OrderedSeq(Contrib(n), <)
=============================================================================
