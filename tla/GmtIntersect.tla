----------------------------- MODULE GmtIntersect -----------------------------
(***************************************************************************)
(* The intersect callbacks of the gmt example models (example/gmt/          *)
(* gmt_models.c): lines_intersect, model_sphere_intersect and               *)
(* model_synth_intersect, in exact arithmetic.  Reference coordinates of a  *)
(* tree are scaled to the integer grid 0..G, so quadrant corners are exact  *)
(* and pow (.5, resolution) is G \div 2^resolution.                         *)
(*                                                                          *)
(* The callbacks are pure functions; the state holds one input (a geodesic  *)
(* segment or point, a quadrant, the trees, the resolution), chosen in      *)
(* Init over all small inputs, and Next leaves it unchanged.  The check is  *)
(* that every input gets the answer the header promises.                    *)
(*                                                                          *)
(* The module also follows the synthetic model from p4est_gmt_model_synth_ *)
(* new to p4est_gmt_model_destroy: the heap is the set of live allocations, *)
(* and destroy frees through the model's destroy_data pointer, the default  *)
(* P4EST_FREE of model_data, and the geometry when geom_allocated is set.   *)
(***************************************************************************)
EXTENDS Integers, Sequences, GmtModel

CONSTANTS
  G,            \* side of a tree in grid units (a power of two)
  MaxLevel,     \* quadrant levels 0..MaxLevel
  Trees,        \* tree numbers
  Resolutions,  \* values of sdata->resolution
  SynthNos      \* values of synthno passed to p4est_gmt_model_synth_new

Grid == 0..G
Points == Grid \X Grid

\* The quadrants of a tree up to MaxLevel as
\* { lower left x, lower left y, upper right x, upper right y }, with level.
Quadrants ==
  UNION { { [c |-> <<i * (G \div 2^l), j * (G \div 2^l),
                     (i + 1) * (G \div 2^l), (j + 1) * (G \div 2^l)>>,
             level |-> l] : i, j \in 0..2^l - 1 } : l \in 0..MaxLevel }

VARIABLES
  seg,      \* the geodesic segment <<p1, p2>> (its p1 is the synthetic point)
  segTree,  \* pco->which_tree
  quad,     \* the quadrant: its coord[4] and level
  tree,     \* which_tree of the quadrant
  res,      \* sdata->resolution
  stage,    \* the synthetic model: "none", "ready", "destroyed", "aborted"
  model,    \* its p4est_gmt_model_t
  sdata,    \* its p4est_gmt_model_synth_t
  live,     \* the allocations not yet freed
  freed     \* the sequence of pointers passed to a free, in order

vars == <<seg, segTree, quad, tree, res, stage, model, sdata, live, freed>>

(***************************************************************************)
(* lines_intersect: s and t are quotients with the common denominator      *)
(* -s2_x * s1_y + s1_x * s2_y.  With a zero denominator IEEE division      *)
(* gives an infinity or NaN, and every comparison with [0, 1] fails.       *)
(***************************************************************************)
InUnit(num, den) ==
  /\ den # 0
  /\ IF den > 0 THEN 0 <= num /\ num <= den ELSE den <= num /\ num <= 0

LinesIntersect(p0, p1, p2, p3) ==
  LET s1x == p1[1] - p0[1]  s1y == p1[2] - p0[2]
      s2x == p3[1] - p2[1]  s2y == p3[2] - p2[2]
      den == -s2x * s1y + s1x * s2y
      numS == -s1y * (p0[1] - p2[1]) + s1x * (p0[2] - p2[2])
      numT == s2x * (p0[2] - p2[2]) - s2y * (p0[1] - p2[1])
  IN InUnit(numS, den) /\ InUnit(numT, den)

\* The resolution test: SC_MAX (hx, hy) <= pow (.5, resolution).
ResolutionReached(c, r) ==
  LET hx == c[3] - c[1]  hy == c[4] - c[2]
  IN (IF hx > hy THEN hx ELSE hy) * 2^r <= G

\* Point p lies in the closed rectangle c.
InClosed(p, c) == c[1] <= p[1] /\ p[1] <= c[3] /\ c[2] <= p[2] /\ p[2] <= c[4]

\* Variant of model_sphere_intersect without the final endpoint test.
SphereIntersectNoInterior(wt, c, s, st, r) ==
  /\ st = wt
  /\ ~ResolutionReached(c, r)
  /\ \/ LinesIntersect(s[1], s[2], <<c[1], c[2]>>, <<c[3], c[2]>>)
     \/ LinesIntersect(s[1], s[2], <<c[1], c[4]>>, <<c[3], c[4]>>)
     \/ LinesIntersect(s[1], s[2], <<c[1], c[2]>>, <<c[1], c[4]>>)
     \/ LinesIntersect(s[1], s[2], <<c[3], c[2]>>, <<c[3], c[4]>>)

\* model_sphere_intersect: the tree test, the resolution test, the four
\* edges (bottom, top, left, right), then p1 in the closed rectangle.
SphereIntersect(wt, c, s, st, r) ==
  /\ st = wt
  /\ ~ResolutionReached(c, r)
  /\ \/ LinesIntersect(s[1], s[2], <<c[1], c[2]>>, <<c[3], c[2]>>)
     \/ LinesIntersect(s[1], s[2], <<c[1], c[4]>>, <<c[3], c[4]>>)
     \/ LinesIntersect(s[1], s[2], <<c[1], c[2]>>, <<c[1], c[4]>>)
     \/ LinesIntersect(s[1], s[2], <<c[3], c[2]>>, <<c[3], c[4]>>)
     \/ InClosed(s[1], c)

\* model_synth_intersect: the resolution test, then the point in the closed
\* rectangle (the single unit-square tree).
SynthIntersect(c, p, r) ==
  /\ ~ResolutionReached(c, r)
  /\ InClosed(p, c)

-----------------------------------------------------------------------------
(***************************************************************************)
(* The synthetic model's life, on the model object of GmtModel: "model",  *)
(* "conn", "sdata" and "points" are its allocations.                       *)
(***************************************************************************)
\* The triangle of case 0: (0.2, 0.1), (0.7, 0.4), (0.5, 0.8).
Triangle == <<<<2, 1>>, <<7, 4>>, <<5, 8>>>>

\* p4est_gmt_model_synth_t as case 0 fills it; points names the allocation
\* and coords its contents, in tenths.
SynthData(n, r) ==
  [synthno |-> n, resolution |-> r, num_points |-> 3,
   points |-> "points", coords |-> Triangle]

\* p4est_gmt_model_synth_new, case 0: the zeroed model, the unit square, the
\* model data with its three points, the callbacks and the geometry.
SynthNew(n, r) ==
  /\ stage = "none"
  /\ n = 0
  /\ live' = {"model", "conn", "sdata", "points"}
  /\ model' = SetGeom([ZeroModel EXCEPT !.output_prefix = "triangle",
                                        !.conn = "conn",
                                        !.model_data = "sdata",
                                        !.M = 3,
                                        !.destroy_data = "model_synth_destroy_data",
                                        !.intersect = "model_synth_intersect"],
                      "triangle", "model_synth_geom_X")
  /\ sdata' = SynthData(n, r)
  /\ stage' = "ready"
  /\ UNCHANGED <<seg, segTree, quad, tree, res, freed>>

\* The default case: SC_ABORT_NOT_REACHED ends the program.
SynthNewAbort(n) ==
  /\ stage = "none"
  /\ n # 0
  /\ stage' = "aborted"
  /\ UNCHANGED <<seg, segTree, quad, tree, res, model, sdata, live, freed>>

Destroy ==
  /\ stage = "ready"
  /\ freed' = DestroyFrees(model)
  /\ live' = live \ {freed'[i] : i \in DOMAIN freed'}
  /\ stage' = "destroyed"
  /\ UNCHANGED <<seg, segTree, quad, tree, res, model, sdata>>

Init ==
  /\ seg \in Points \X Points
  /\ segTree \in Trees
  /\ quad \in Quadrants
  /\ tree \in Trees
  /\ res \in Resolutions
  /\ stage = "none"
  /\ model = ZeroModel
  /\ sdata = [synthno |-> 0, resolution |-> 0, num_points |-> 0,
              points |-> Null, coords |-> <<>>]
  /\ live = {}
  /\ freed = <<>>

\* The callbacks queried on the inputs change nothing.
Query == UNCHANGED vars

Next ==
  \/ \E n \in SynthNos, r \in Resolutions : SynthNew(n, r)
  \/ \E n \in SynthNos : SynthNewAbort(n)
  \/ Destroy
  \/ Query

Spec == Init /\ [][Next]_vars

-----------------------------------------------------------------------------
(***************************************************************************)
(* Reference: a segment meets a closed rectangle iff their bounding boxes  *)
(* overlap and the rectangle's corners are not all strictly on one side of *)
(* the segment's line (separating axes).                                   *)
(***************************************************************************)
Cross(a, b, p) == (b[1] - a[1]) * (p[2] - a[2]) - (b[2] - a[2]) * (p[1] - a[1])

MinOf(x, y) == IF x < y THEN x ELSE y
MaxOf(x, y) == IF x < y THEN y ELSE x

SegmentMeetsRect(a, b, c) ==
  LET corners == {<<c[1], c[2]>>, <<c[3], c[2]>>, <<c[1], c[4]>>, <<c[3], c[4]>>}
  IN /\ MinOf(a[1], b[1]) <= c[3] /\ c[1] <= MaxOf(a[1], b[1])
     /\ MinOf(a[2], b[2]) <= c[4] /\ c[2] <= MaxOf(a[2], b[2])
     /\ ~(\A p \in corners : Cross(a, b, p) > 0)
     /\ ~(\A p \in corners : Cross(a, b, p) < 0)

\* What gmt_models.h promises of the sphere model: a quadrant is refined
\* exactly when it lies on the segment's tree, has level below the
\* resolution, and the geodesic segment meets it (boundary included).  The
\* synthetic model is the same rule for a point, a segment of length zero.
IntersectMatchesHeader ==
  /\ SphereIntersect(tree, quad.c, seg, segTree, res)
       <=> /\ segTree = tree /\ quad.level < res
           /\ SegmentMeetsRect(seg[1], seg[2], quad.c)
  /\ SynthIntersect(quad.c, seg[1], res)
       <=> quad.level < res /\ SegmentMeetsRect(seg[1], seg[1], quad.c)

\* What p4est_gmt_model_destroy must do with a model p4est_gmt_model_synth_new
\* made: pass every allocation of the constructor to a free exactly once
\* (nothing leaked, nothing freed twice), and never free a pointer that was
\* not allocated, such as the geometry embedded in the model.
SynthModelReleased ==
  stage = "destroyed" =>
    live = {} /\ BadFrees(freed, {"model", "conn", "sdata", "points"}) = {}
=============================================================================
