------------------------------ MODULE TnodesMesh ------------------------------
(***************************************************************************)
(* The traversal of p4est_tnodes_new (part_000) on every rank of a small   *)
(* forest: the callbacks iter_volume1, iter_face1 and iter_corner1, each   *)
(* running its calls of node_lregister, node_gregister, node_register and   *)
(* node_lfacetocorner to the end, and the construct array, element_nodes,  *)
(* configuration and face_code they build on each rank.                    *)
(*                                                                         *)
(* The forest has two trees, 0 and 1, glued along face FA of tree 0 and    *)
(* face FB of tree 1 with orientation O: face corner k of one face meets   *)
(* face corner k ^ O of the other.  Tree 0 is one level-0 element; tree 1  *)
(* is one level-0 element ("flat"), its four level-1 children ("hang"),    *)
(* which makes the glued face hanging, or those children with child K, one *)
(* off the glued face, refined once more ("deep"), which makes the faces   *)
(* between K and its siblings hanging with a level-1 large side.  Elements *)
(* are numbered in forest order and split  *)
(* among the ranks in that order (some ranks may be empty).  The ghost     *)
(* layer holds every element touching a rank's partition.                  *)
(*                                                                         *)
(* Which callbacks a rank gets, with which sides, is the iterator's        *)
(* (external): every volume of a local element, every face and corner      *)
(* connection with a local side, hanging corners excepted.  A rank makes   *)
(* them in the order volumes, faces, corners.  The ranks do not            *)
(* communicate during the traversal, so their callbacks are independent    *)
(* and are explored one rank after the other.                              *)
(***************************************************************************)
EXTENDS Integers, Sequences, FiniteSets, Bitwise, TnodesSchema

CONSTANTS
  Ranks       \* 0 .. mpisize - 1

\* The positions node_gregister asserts a ghost never refers to (alwaysowned).
AlwaysOwned == {4, 9, 10, 11, 12, 14, 17, 20, 22}

(***************************************************************************)
(* Geometry.  A tree is the square 0..T x 0..T; an element of level l has  *)
(* side T \div 2^l and its positions lie on a grid of a quarter of that    *)
(* side: the corners, the center, the face midpoints, the center-to-corner *)
(* midpoints, and per face the split midpoint and the two half-face        *)
(* midpoints, the j-th next to face corner j (the schema of section 6 of   *)
(* the specification).                                                     *)
(***************************************************************************)
Offset ==
  << <<0, 0>>, <<4, 0>>, <<0, 4>>, <<4, 4>>, <<2, 2>>,
     <<0, 2>>, <<4, 2>>, <<2, 0>>, <<2, 4>>,
     <<1, 1>>, <<3, 1>>, <<1, 3>>, <<3, 3>>,
     <<0, 1>>, <<1, 2>>, <<0, 3>>, <<4, 1>>, <<3, 2>>, <<4, 3>>,
     <<1, 0>>, <<2, 1>>, <<3, 0>>, <<2, 3>>, <<1, 4>>, <<3, 4>> >>

T == 16

OnFace(f, x, y) == CASE f = 0 -> x = 0 [] f = 1 -> x = T [] f = 2 -> y = 0 [] f = 3 -> y = T
FaceParam(f, x, y) == IF f < 2 THEN y ELSE x
FacePoint(f, u) == CASE f = 0 -> <<0, u>> [] f = 1 -> <<T, u>> [] f = 2 -> <<u, 0>> [] f = 3 -> <<u, T>>

VARIABLES
  mesh,        \* the forest: FA, FB, O, shape, K, side0 (order of the sides
               \* of the hanging faces),
               \* withFaces, fullStyle, and part (element -> rank)
  script,      \* script[r]: the callbacks of rank r in the order they run
  pc,          \* pc[r]: the next callback of rank r
  construct,   \* construct[r]: me->construct, [bcon, contr, owner] per node
  elemNodes,   \* elemNodes[r][<<le, nodene>>]: ln->element_nodes, -1 unset
  config,      \* config[r][le]: tm->configuration
  faceCode,    \* faceCode[r][le]: ln->face_code
  faults       \* faults[r]: assertions of the callbacks that failed

vars == <<mesh, script, pc, construct, elemNodes, config, faceCode, faults>>

\* The elements in forest order: tree 0, then the leaves of tree 1.
Sq(t, l, c, x0, y0) ==
  [tree |-> t, level |-> l, cid |-> c, x |-> x0 + (c % 2) * (T \div 2^l),
   y |-> y0 + (c \div 2) * (T \div 2^l), s |-> T \div 2^l]
Kids(t, l, p) == [c \in 1..4 |-> Sq(t, l, c - 1, p.x, p.y)]
ElemTable ==
  LET root == Sq(1, 0, 0, 0, 0)
      kids == Kids(1, 1, root)
  IN [k \in {<<"flat", 0>>, <<"hang", 0>>, <<"deep", 1>>, <<"deep", 3>>} |->
        <<Sq(0, 0, 0, 0, 0)>> \o
        CASE k[1] = "flat" -> <<root>>
          [] k[1] = "hang" -> kids
          [] k[1] = "deep" -> SubSeq(kids, 1, k[2]) \o Kids(1, 2, kids[k[2] + 1])
                              \o SubSeq(kids, k[2] + 2, 4)]
Elems(m) == ElemTable[<<m.shape, m.K>>]
NumElems(m) == Len(Elems(m))
Elem(m, e) == Elems(m)[e]

\* tree_quad_to_le, and the local_num of a ghost: the index on its rank.
Rank(e) == mesh.part[e]
LeOf(e) == Cardinality({d \in 1..e - 1 : Rank(d) = Rank(e)})
ElemOf(q, le) == Cardinality({d \in 1..NumElems(mesh) : Rank(d) < q}) + le + 1
LocalElems(r) == {e \in 1..NumElems(mesh) : Rank(e) = r}

\* The point of position p of element e, with tree 1's glued face mapped
\* onto tree 0's.
Point(e, p) ==
  LET el == Elem(mesh, e)
      x == el.x + Offset[p + 1][1] * (el.s \div 4)
      y == el.y + Offset[p + 1][2] * (el.s \div 4)
      u == FaceParam(mesh.FB, x, y)
  IN IF el.tree = 1 /\ OnFace(mesh.FB, x, y)
       THEN <<0>> \o FacePoint(mesh.FA, IF mesh.O = 0 THEN u ELSE T - u)
       ELSE <<el.tree, x, y>>

(***************************************************************************)
(* The iterator's callbacks.                                               *)
(***************************************************************************)
\* The element of tree 1 of level l and child id c.
Child(m, l, c) == CHOOSE e \in 2..NumElems(m) : Elem(m, e).level = l /\ Elem(m, e).cid = c

\* A hanging side: the small elements of level l at face corners 0, 1 of f.
HangSide(m, l, f) ==
  [hanging |-> TRUE, es |-> <<Child(m, l, FaceCorners(f)[1]), Child(m, l, FaceCorners(f)[2])>>, f |-> f]

\* The two sides of a face in the order side0 gives.
Ordered(m, s0, s1) == IF m.side0 = 0 THEN <<s0, s1>> ELSE <<s1, s0>>

\* The glued face: same size, or tree 0 large and tree 1's children at its
\* face corners 0 and 1 small (p4est_face_corners[FB][j] = childid).
GluedSides(m) ==
  Ordered(m, [hanging |-> FALSE, e |-> 1, f |-> m.FA],
          IF m.shape = "flat" THEN [hanging |-> FALSE, e |-> 2, f |-> m.FB]
          ELSE HangSide(m, 1, m.FB))

Full(e, f) == [hanging |-> FALSE, e |-> e, f |-> f]

\* Face f of element square q lies on the tree boundary.
OnTreeFace(q, f) ==
  CASE f = 0 -> q.x = 0 [] f = 1 -> q.x + q.s = T [] f = 2 -> q.y = 0 [] f = 3 -> q.y + q.s = T

\* Square d lies across face f of square q, touching it along the face.
Across(q, f, d) ==
  CASE f = 0 -> d.x + d.s = q.x /\ d.y >= q.y /\ d.y + d.s <= q.y + q.s
    [] f = 1 -> d.x = q.x + q.s /\ d.y >= q.y /\ d.y + d.s <= q.y + q.s
    [] f = 2 -> d.y + d.s = q.y /\ d.x >= q.x /\ d.x + d.s <= q.x + q.s
    [] f = 3 -> d.y = q.y + q.s /\ d.x >= q.x /\ d.x + d.s <= q.x + q.s

Opposite(f) == IF f % 2 = 0 THEN f + 1 ELSE f - 1

\* Boundary faces, and the faces inside tree 1: same size, or a level-1
\* large side across face f from the refined child K.
BoundaryFaces(m) ==
  {<<Full(1, f)>> : f \in Faces \ {m.FA}} \cup
  {<<Full(x[1], x[2])>> :
     x \in {x \in (2..NumElems(m)) \X (Faces \ {m.FB}) : OnTreeFace(Elem(m, x[1]), x[2])}}
\* The level-1 large sides (element, face) across from the refined child K.
HangLarge(m) ==
  IF m.shape # "deep" THEN {}
  ELSE {x \in (2..NumElems(m)) \X Faces :
          Elem(m, x[1]).level = 1 /\ Across(Elem(m, x[1]), x[2], Kids(1, 1, Sq(1, 0, 0, 0, 0))[m.K + 1])}

InnerFaces(m) ==
  {<<Full(x[1], x[3]), Full(x[2], x[3] - 1)>> :
     x \in {x \in (2..NumElems(m)) \X (2..NumElems(m)) \X {1, 3} :
               Elem(m, x[1]).s = Elem(m, x[2]).s /\ Across(Elem(m, x[1]), x[3], Elem(m, x[2]))}} \cup
  {Ordered(m, Full(x[1], x[2]), HangSide(m, 2, Opposite(x[2]))) : x \in HangLarge(m)}

\* The corner sides at each non-hanging corner point; a corner is hanging
\* where it is the midpoint of the large side of a hanging face.
CornerSides(m) ==
  LET at == {<<s, Point(s[1], s[2])>> : s \in (1..NumElems(m)) \X Corners}
      large == (IF m.shape = "flat" THEN {} ELSE {<<1, m.FA>>}) \cup HangLarge(m)
      hanging == {Point(x[1], MF(x[2])) : x \in large}
      pts == {x[2] : x \in at} \ hanging
  IN {{x[1] : x \in {x \in at : x[2] = p}} : p \in pts}

RECURSIVE SeqOf(_)
\* A set as a sequence, in TLC's order of its elements.
SeqOf(S) == IF S = {} THEN <<>> ELSE LET x == CHOOSE x \in S : TRUE IN <<x>> \o SeqOf(S \ {x})

\* The callbacks rank r gets.
Script(r) ==
  LET Touches(sides) == \E s \in DOMAIN sides :
                          IF sides[s].hanging THEN \E j \in 1..2 : Rank(sides[s].es[j]) = r
                          ELSE Rank(sides[s].e) = r
  IN [i \in 1..Cardinality(LocalElems(r)) |-> [cb |-> "volume", e |-> ElemOf(r, i - 1)]]
     \o SeqOf({[cb |-> "face", sides |-> fs, o |-> IF fs = GluedSides(mesh) THEN mesh.O ELSE 0] :
                 fs \in {fs \in {GluedSides(mesh)} \cup BoundaryFaces(mesh) \cup InnerFaces(mesh) : Touches(fs)}})
     \o SeqOf({[cb |-> "corner", sides |-> SeqOf(cs)] :
                 cs \in {cs \in CornerSides(mesh) : \E s \in cs : Rank(s[1]) = r}})

(***************************************************************************)
(* The node registry of one rank.  A callback's calls are a list of        *)
(* operations applied in order to st = [cons, en, cfg, fc, keys, faults]: *)
(* construct, element_nodes, configuration, face_code, the callback's      *)
(* local variables lni, lnh[0], lnh[1] (a "null" key is a NULL pointer),   *)
(* and the failed assertions.                                              *)
(***************************************************************************)
NoKeys == [k \in {"lni", "lnh0", "lnh1"} |-> -1]
Lnh(j) == IF j = 0 THEN "lnh0" ELSE "lnh1"

\* The assertion named a fails when cond holds.
Fails(cond, a) == IF cond THEN {a} ELSE {}

\* node_register's position order: le first, then nodene.
Smaller(le, p, c) == le < c.le \/ (le = c.le /\ p < c.nodene)

\* The owner after the else branch: contr[0], then the smallest rank among
\* entries 1 .. siz - 2 (the pushed entry is not examined).
RECURSIVE RescanOwner(_, _, _)
RescanOwner(cs, best, i) ==
  IF i > Len(cs) - 1 THEN best
  ELSE RescanOwner(cs, IF cs[i].rank < cs[best].rank THEN i ELSE best, i + 1)

\* Variant that indexes the new owner in the list before the push.
AddContrStaleOwner(nd, q, le, p) ==
  IF \E i \in DOMAIN nd.contr : nd.contr[i].rank = q THEN nd
  ELSE [nd EXCEPT !.contr = Append(nd.contr, [rank |-> q, le |-> le, nodene |-> p]),
                  !.owner = IF nd.owner = 0 \/ q <= nd.contr[nd.owner].rank
                              THEN Len(nd.contr) ELSE nd.owner]

\* Variant that keeps the first contributor as owner.
AddContrKeepOwner(nd, q, le, p) ==
  IF \E i \in DOMAIN nd.contr : nd.contr[i].rank = q THEN nd
  ELSE [nd EXCEPT !.contr = Append(nd.contr, [rank |-> q, le |-> le, nodene |-> p]),
                  !.owner = IF nd.owner = 0 THEN 1 ELSE nd.owner]

\* node_register on the contributor list of a node.
AddContr(nd, q, le, p) ==
  IF \E i \in DOMAIN nd.contr : nd.contr[i].rank = q
  THEN LET i == CHOOSE i \in DOMAIN nd.contr : nd.contr[i].rank = q
       IN IF Smaller(le, p, nd.contr[i])
            THEN [nd EXCEPT !.contr[i] = [rank |-> q, le |-> le, nodene |-> p]]
            ELSE nd
  ELSE LET cs == Append(nd.contr, [rank |-> q, le |-> le, nodene |-> p])
       IN [nd EXCEPT !.contr = cs,
                     !.owner = IF nd.owner = 0 \/ q <= nd.contr[nd.owner].rank
                                 THEN Len(cs) ELSE RescanOwner(cs, 1, 2)]

\* node_register (through node_lregister or node_gregister) on rank r of
\* position p of element e, remote or local, with the node in key.
Register(r, st, key, e, p, bcon) ==
  LET q == Rank(e)
      le == LeOf(e)
      lni == IF key = "null" THEN -1 ELSE st.keys[key]
      idx == IF lni = -1 THEN Len(st.cons) ELSE lni
      cons == IF lni = -1 THEN Append(st.cons, [bcon |-> bcon, contr |-> <<>>, owner |-> 0])
              ELSE st.cons
      bad == Fails(lni # -1 /\ st.cons[lni + 1].bcon # bcon, "bcon") \cup
             Fails(q # r /\ p \in AlwaysOwned, "ghost") \cup
             Fails(q = r /\ st.en[<<le, p>>] # -1, "slot")
  IN [st EXCEPT !.cons = [cons EXCEPT ![idx + 1] = AddContr(cons[idx + 1], q, le, p)],
                !.keys = IF key = "null" THEN st.keys ELSE [st.keys EXCEPT ![key] = idx],
                !.en = IF q = r THEN [st.en EXCEPT ![<<le, p>>] = idx] ELSE st.en,
                !.faults = st.faults \cup bad]

\* node_lfacetocorner: the center of local element e, a face node with a
\* single contributor, becomes a corner node.
FaceToCorner(st, e) ==
  LET lni == st.en[<<LeOf(e), NCenter>>]
  IN IF lni = -1 THEN [st EXCEPT !.faults = @ \cup {"tocorner"}]
     ELSE [st EXCEPT !.cons[lni + 1].bcon = "corner",
                     !.faults = @ \cup Fails(st.cons[lni + 1].bcon # "face" \/ Len(st.cons[lni + 1].contr) # 1,
                                              "tocorner")]

\* The face_code update of a small local side: the axis bit, asserted
\* clear, and the child id.
SetFaceCode(st, e, f) ==
  LET axis == 2^(2 + f \div 2)
  IN [st EXCEPT !.fc[LeOf(e)] = @ | axis | Elem(mesh, e).cid,
                !.faults = @ \cup Fails((st.fc[LeOf(e)] & axis) # 0, "facecode")]

\* The operations, as records, and their application.
Reg(key, e, p, bcon) == [op |-> "reg", key |-> key, e |-> e, p |-> p, bcon |-> bcon]
ToCorner(e) == [op |-> "tocorner", e |-> e]
SetConfig(e, v) == [op |-> "config", e |-> e, v |-> v]
FaceCodeOp(e, f) == [op |-> "facecode", e |-> e, f |-> f]

Apply(r, st, op) ==
  CASE op.op = "reg" -> Register(r, st, op.key, op.e, op.p, op.bcon)
    [] op.op = "tocorner" -> FaceToCorner(st, op.e)
    [] op.op = "config" -> [st EXCEPT !.cfg[LeOf(op.e)] = op.v]
    [] op.op = "facecode" -> SetFaceCode(st, op.e, op.f)

RECURSIVE ApplyAll(_, _, _)
ApplyAll(r, st, ops) == IF ops = <<>> THEN st ELSE ApplyAll(r, Apply(r, st, Head(ops)), Tail(ops))

(***************************************************************************)
(* The callbacks as operation lists, read from rank r's state before the   *)
(* callback (only the large side's own configuration is read, and the      *)
(* callback writes it after reading it).                                   *)
(***************************************************************************)
Local(r, e) == Rank(e) = r
IfFaces(ops) == IF mesh.withFaces THEN ops ELSE <<>>

\* iter_volume1 on local element e.
VolumeOps(e) ==
  IF mesh.fullStyle \/ Elem(mesh, e).level = 0
    THEN <<SetConfig(e, 32), Reg("null", e, NCenter, "corner")>>
         \o IfFaces([j \in 1..4 |-> Reg("null", e, CF(j - 1), "face")])
    ELSE (IF Elem(mesh, e).cid \in {1, 2} THEN <<SetConfig(e, 16)>> ELSE <<>>)
         \o IfFaces(<<Reg("null", e, NCenter, "face")>>)

\* Variant of the promotion test that misses the half style with bit 4.
NeedsPromotionZeroOnly(c) == c = 0

\* The promotion test of a large local side: no bit but maybe bit 4.
NeedsPromotion(c) == (c & 239) = 0

\* iter_face1, large side of face f of element e, side index with swapi sw.
LargeOps(r, e, f, sw) ==
  LET hface == IfFaces([j \in 1..2 |-> Reg(Lnh((j - 1 + sw) % 2), e, HF(f, j - 1), "face")])
      c == config[r][LeOf(e)]
  IN IF Local(r, e)
       THEN (IF ~NeedsPromotion(c) THEN <<>>
             ELSE IF ~mesh.withFaces THEN <<Reg("null", e, NCenter, "corner")>>
             ELSE <<ToCorner(e)>> \o [j \in 1..4 |-> Reg("null", e, CF(j - 1), "face")])
            \o <<SetConfig(e, (c & 207) | 2^f), Reg("lni", e, MF(f), "corner")>>
            \o IfFaces(<<Reg("null", e, SP(f), "face")>>) \o hface
       ELSE <<Reg("lni", e, MF(f), "corner")>> \o hface

\* Variant that takes the small element's corner at face corner j itself.
MidCornerOwn(f, j) == FaceCorners(f)[j + 1]

\* The corner of the small element at face corner j that lies at the large
\* face's midpoint: p4est_face_corners[face][j ^ 1].
MidCorner(f, j) == FaceCorners(f)[2 - j]

\* iter_face1, hanging side: small element es[j + 1] at face corner j.
SmallOps(r, es, f, sw) ==
  LET One(j) == LET e == es[j + 1] IN
                <<Reg("lni", e, MidCorner(f, j), "corner")>>
                \o IfFaces(<<Reg(Lnh((j + sw) % 2), e, MF(f), "face")>>)
                \o (IF Local(r, e) THEN <<FaceCodeOp(e, f)>> ELSE <<>>)
  IN One(0) \o One(1)

\* Variant of swapi that swaps on both sides.
SwapiBothSides(i, o) == o

\* swapi of side i: the orientation on side 1, none on side 0.
Swapi(i, o) == IF i = 0 \/ o = 0 THEN 0 ELSE 1

\* iter_face1: boundary, same size, or hanging.
FaceOps(r, cb) ==
  LET sd == cb.sides
      Sw(i) == Swapi(i, cb.o)
      SideOps(i) == IF sd[i + 1].hanging THEN SmallOps(r, sd[i + 1].es, sd[i + 1].f, Sw(i))
                    ELSE LargeOps(r, sd[i + 1].e, sd[i + 1].f, Sw(i))
  IN IF Len(sd) = 1 THEN IfFaces(<<Reg("null", sd[1].e, MF(sd[1].f), "face")>>)
     ELSE IF ~sd[1].hanging /\ ~sd[2].hanging
       THEN IfFaces([i \in 1..2 |-> Reg("lni", sd[i].e, MF(sd[i].f), "face")])
     ELSE SideOps(0) \o SideOps(1)

\* iter_corner1: every side's corner joins one node.
CornerOps(cb) == [k \in DOMAIN cb.sides |-> Reg("lni", cb.sides[k][1], cb.sides[k][2], "corner")]

Ops(r, cb) ==
  CASE cb.cb = "volume" -> VolumeOps(cb.e)
    [] cb.cb = "face" -> FaceOps(r, cb)
    [] cb.cb = "corner" -> CornerOps(cb)

(***************************************************************************)
(* The specification.                                                      *)
(***************************************************************************)
\* The forests: the elements in forest order split among the ranks.  The
\* ranks that hold elements are taken to be the first ones: renumbering
\* them in order changes no comparison of ranks the code makes.
Partitions(n) == {p \in [1..n -> Ranks] : p[1] = 0 /\ \A e \in 1..n - 1 : p[e + 1] - p[e] \in {0, 1}}
\* The deep forest is glued along faces 1 and 0 only and refines child 1
\* (level-1 siblings of child id 0 and 3) or 3 (child ids 1 and 2).
Meshes ==
  UNION {[FA : Faces, FB : Faces, O : {0, 1}, shape : {b}, K : {0}, side0 : {0, 1},
          withFaces : BOOLEAN, fullStyle : BOOLEAN, part : Partitions(IF b = "hang" THEN 5 ELSE 2)] :
         b \in {"flat", "hang"}} \cup
  [FA : {1}, FB : {0}, O : {0, 1}, shape : {"deep"}, K : {1, 3}, side0 : {0, 1},
   withFaces : BOOLEAN, fullStyle : BOOLEAN, part : Partitions(8)]

Init ==
  /\ mesh \in Meshes
  /\ script = [r \in Ranks |-> Script(r)]
  /\ pc = [r \in Ranks |-> 1]
  /\ construct = [r \in Ranks |-> <<>>]
  /\ elemNodes = [r \in Ranks |-> [x \in (0..Cardinality(LocalElems(r)) - 1) \X Positions |-> -1]]
  /\ config = [r \in Ranks |-> [le \in 0..Cardinality(LocalElems(r)) - 1 |-> 0]]
  /\ faceCode = [r \in Ranks |-> [le \in 0..Cardinality(LocalElems(r)) - 1 |-> 0]]
  /\ faults = [r \in Ranks |-> {}]

Done(r) == pc[r] > Len(script[r])

\* Rank r makes its next callback, to the end.
Callback(r) ==
  /\ \A q \in Ranks : q < r => Done(q)
  /\ ~Done(r)
  /\ LET st == ApplyAll(r, [cons |-> construct[r], en |-> elemNodes[r], cfg |-> config[r],
                            fc |-> faceCode[r], keys |-> NoKeys, faults |-> faults[r]],
                        Ops(r, script[r][pc[r]]))
     IN /\ construct' = [construct EXCEPT ![r] = st.cons]
        /\ elemNodes' = [elemNodes EXCEPT ![r] = st.en]
        /\ config' = [config EXCEPT ![r] = st.cfg]
        /\ faceCode' = [faceCode EXCEPT ![r] = st.fc]
        /\ faults' = [faults EXCEPT ![r] = st.faults]
  /\ pc' = [pc EXCEPT ![r] = @ + 1]
  /\ UNCHANGED <<mesh, script>>

Traversed == \A r \in Ranks : Done(r)

Next ==
  \/ \E r \in Ranks : Callback(r)
  \/ Traversed /\ UNCHANGED vars

Spec == Init /\ [][Next]_vars

-----------------------------------------------------------------------------
(***************************************************************************)
(* Properties                                                              *)
(***************************************************************************)
Contrs(r, n) == {construct[r][n].contr[i] : i \in DOMAIN construct[r][n].contr}
Sharers(r, n) == {c.rank : c \in Contrs(r, n)}
OwnerOf(r, n) == construct[r][n].contr[construct[r][n].owner]

\* The relation between the nodes of rank r (by lni) and the points of the
\* forest: each contribution and each element_nodes slot relates a node to
\* the point of its element position.
NodePoint(r) ==
  {<<n - 1, Point(ElemOf(c.rank, c.le), c.nodene)>> : <<n, c>> \in
     UNION {{n} \X Contrs(r, n) : n \in DOMAIN construct[r]}} \cup
  {<<elemNodes[r][x], Point(ElemOf(r, x[1]), x[2])>> :
     x \in {x \in DOMAIN elemNodes[r] : elemNodes[r][x] # -1}}

\* The point of node lni of rank r.
PointOf(r, lni) == (CHOOSE np \in NodePoint(r) : np[1] = lni)[2]

TypeOK ==
  /\ mesh \in Meshes
  /\ \A r \in Ranks :
       /\ pc[r] \in 1..Len(script[r]) + 1
       /\ \A n \in DOMAIN construct[r] :
            /\ construct[r][n].bcon \in {"corner", "face"}
            /\ construct[r][n].owner \in DOMAIN construct[r][n].contr
            /\ Contrs(r, n) \subseteq [rank : Ranks, le : 0..7, nodene : Positions]
       /\ \A x \in DOMAIN elemNodes[r] : elemNodes[r][x] \in -1..Len(construct[r]) - 1
       /\ faults[r] \subseteq {"bcon", "ghost", "slot", "tocorner", "facecode"}

\* Every node a rank builds is one point of the forest, and no point gets
\* two nodes on one rank: the lni / lnh[] sharing of iter_face1 and
\* iter_corner1, across trees glued with either orientation and either side
\* first, joins exactly the element positions that coincide.
NodesAreGeometric ==
  \A r \in Ranks :
    LET R == NodePoint(r)
    IN Cardinality(R) = Len(construct[r]) /\ Cardinality({np[2] : np \in R}) = Len(construct[r])

\* After the traversal, the ranks agree on every node they keep (the nodes
\* owned_query_reply does not weed out as remote-only): all their copies
\* of a point have the same contributing ranks and the same owner entry,
\* every contributing rank keeps a copy, the owner is the smallest of them,
\* and the owner's entry (le, nodene) names an element_nodes slot of the
\* owner that holds its copy, the slot post_query_reply's query reads.
SharingConsistent ==
  Traversed =>
    LET Kept == UNION {{<<r, n>> : n \in {n \in DOMAIN construct[r] : r \in Sharers(r, n)}} : r \in Ranks}
        View == {<<k[1], PointOf(k[1], k[2] - 1), Sharers(k[1], k[2]), OwnerOf(k[1], k[2])>> : k \in Kept}
        Copies == {<<v[1], v[2]>> : v \in View}
    IN /\ Cardinality({<<v[2], v[3], v[4]>> : v \in View}) = Cardinality({v[2] : v \in View})
       /\ \A v \in View :
            /\ \A q \in v[3] : <<q, v[2]>> \in Copies /\ v[4].rank <= q
            /\ PointOf(v[4].rank, elemNodes[v[4].rank][<<v[4].le, v[4].nodene>>]) = v[2]

\* After the traversal every local element's element_nodes slots are
\* exactly those of its configuration's table row, with corner nodes in
\* the corner entries and face nodes in the face entries, as
\* assign_element_nodes reads and asserts; no assertion of the callbacks
\* failed on any rank.
SlotsMatchTable ==
  Traversed =>
    \A r \in Ranks :
      /\ faults[r] = {}
      /\ \A le \in DOMAIN config[r] :
           LET Held(b) == {p \in Positions : elemNodes[r][<<le, p>>] # -1 /\
                                             construct[r][elemNodes[r][<<le, p>>] + 1].bcon = b}
           IN /\ Held("corner") = ConfigCorners(Cind(config[r][le]))
              /\ Held("face") = IF mesh.withFaces THEN ConfigFaces(Cind(config[r][le])) ELSE {}
=============================================================================
