-------------------------- MODULE MCTnodesExchange --------------------------
(***************************************************************************)
(* A 2 x 2 brick of level-0 trees, one tree per rank (rank q holds tree q, *)
(* trees in z-order: 0 lower left, 1 lower right, 2 upper left, 3 upper   *)
(* right), with full_style forced by level 0 and without face nodes: each *)
(* element has configuration 32, i.e. the four corners and the center.    *)
(* The corner c11 is shared by all four ranks; ranks 1 and 2 meet only    *)
(* there, so each is a purely passive peer of the other; c10, c01, c21    *)
(* and c12 are shared by two ranks.  The construct orders put the center  *)
(* first (the volume callback runs first) and the corners in an order     *)
(* unlike the owners' sorted order, so the replies must be re-sorted.     *)
(***************************************************************************)
EXTENDS TnodesExchange

MCNodes == {"c00", "c10", "c20", "c01", "c11", "c21", "c02", "c12", "c22",
            "m0", "m1", "m2", "m3"}

\* Corners 0..3 in child order, 4 the center.
Elem(c0, c1, c2, c3, m) ==
  (<<0, 0>> :> c0) @@ (<<0, 1>> :> c1) @@ (<<0, 2>> :> c2) @@ (<<0, 3>> :> c3) @@ (<<0, 4>> :> m)

MCElemNode ==
  [r \in 0..3 |-> CASE r = 0 -> Elem("c00", "c10", "c01", "c11", "m0")
                    [] r = 1 -> Elem("c10", "c20", "c11", "c21", "m1")
                    [] r = 2 -> Elem("c01", "c11", "c02", "c12", "m2")
                    [] r = 3 -> Elem("c11", "c21", "c12", "c22", "m3")]

MCConstruct ==
  [r \in 0..3 |-> CASE r = 0 -> <<"m0", "c11", "c10", "c01", "c00">>
                    [] r = 1 -> <<"m1", "c11", "c21", "c10", "c20">>
                    [] r = 2 -> <<"m2", "c11", "c12", "c01", "c02">>
                    [] r = 3 -> <<"m3", "c22", "c21", "c12", "c11">>]

\* The corner callback lists the sides tree by tree, so every rank's
\* contributor arrays list the ranks in ascending order.
MCContrOrder(r, n) == OrderedSeq(Contrib(n), <)
=============================================================================
