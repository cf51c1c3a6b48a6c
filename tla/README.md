# TLA+ models of p4est_tnodes

This directory holds TLA+ models of the distributed triangle-node numbering
in `src/unnamed/part_000` (`p4est_tnodes.c`) and of the geometry models of
the gmt example (`src/example/gmt/gmt_models.c`), with TLC configurations
that check them. `PROJECT.json` lists the components, runs, mutants, findings and
hazards, and maps every definition to the C lines it models.

## The system

`p4est_tnodes_new` runs the same sequence of phases on every MPI rank:

1. **Traversal** (`p4est_iterate` with `iter_volume1`, `iter_face1` and
   `iter_corner1`). Each callback calls `node_register` once per (rank,
   element, position) that touches a node. The call builds the construct
   array of candidate nodes. For each node it records the contributor
   array `contr`: one entry per referring rank with its smallest (le,
   nodene). It also records the owner, the contributor of smallest rank.
2. **Election** (`owned_query_reply`). Owned nodes go to `ownsort`. For
   every other node the rank shares, a query is queued to its owner with
   position `le * vnodes + nodene`, and `remosort` and `sharedno` remember
   it. Peers are created for:
   - ranks this rank replies to;
   - ranks it queries;
   - ranks it shares a node with that a third rank owns (passive peers).
3. **Post** (`post_query_reply`). For a higher peer: an `Irecv` of its
   query (`done = 1`). For a lower peer: an `Isend` of our query
   (`done = 3`). A peer with `bufcount = 0` gets `MPI_REQUEST_NULL` and is
   counted in `emptypeers`.
4. **Sort and Allgather** (`sort_allgather`). Owned nodes are sorted by
   their owner slot (`cnode_compare`) and numbered 0..num_owned-1. The
   counts are allgathered and scanned into `goffset`.
5. **Peer order** (`sort_peers`). Peers are sorted by rank. `shacumul` is
   the number of queried nodes of lower peers. The sharer array is laid out.
6. **Drain** (`wait_query_reply`). This is an `MPI_Waitsome` loop over the
   requests:
   - `done` 1→2: a query arrived; answer in place and `Isend` the reply.
   - `done` 2→0: the reply was sent.
   - `done` 3→4: the query was sent; `Irecv` the reply.
   - `done` 4→0: the reply arrived. Store the owner's numbers, sort
     `remosort` by them (`rnode_compare`) and write `nonlocal_nodes`.
7. **Finalisation**. `assign_element_nodes` / `set_element_node` rewrite
   element slots from construct indices to final numbers.
   `populate_sharers` fills the sharer lists.

The ranks interact only through the Allgather and the query/reply messages.

## Modules

| module | models | state | actions |
|---|---|---|---|
| `ContrSet` | what one node's contributor list promises | `refs` (rank ↦ smallest slot), `own` | `Refer` |
| `TnodesContr` | `node_register` on one node | `contr`, `owner` (index, 0 = NULL), `slots`, `called` | `NodeRegister` |
| `TnodesExchange` | phases 2–7 on all ranks | per rank: `pc`, `runid`, `elemNodes`, `numOwned`, `numOwnedShared`, `numShared`, `ownsort`, `peers`, `peer` (the `tnodes_peer_t` fields), `emptypeers`, `nwtotal`, `goffset`, `nonlocal`, `sharers`; global: `gathered` (the Allgather buffer), `net` (messages in flight) | one action per phase, plus `RecvQuery`, `ReplySent`, `QuerySent`, `RecvReply` for the Waitsome completions |
| `TnodesElement` | `iter_volume1`, `iter_face1`, `iter_corner1` on one element | `level0`, `childid`, `fullStyle`, `withFaces`, `kind` (what lies across each face), `done` (callbacks made), `config`, `faceCode`, `slot` (bcon per `element_nodes` position), `faults` (failed asserts) | `Volume`, `Face` (`FaceConforming`, `FaceLarge`, `FaceSmall`), `Corner` |
| `TnodesSchema` | the position schema and configuration tables | constants only | none |
| `TnodesMesh` | the whole traversal on every rank of a two-tree forest | `mesh` (the forest and partition), `script` (each rank's callbacks), per rank: `pc`, `construct` (`bcon`, `contr`, `owner`), `elemNodes`, `config`, `faceCode`, `faults` | `Callback(r)`: rank r makes its next callback to the end |
| `GmtModel` | `p4est_gmt_model_t`, `model_set_geom`, `p4est_gmt_model_destroy` and the two `destroy_data` callbacks | none (operators shared by the two gmt modules below) | `DestroyFrees`: what a destroy frees, in order |
| `GmtSphereLoad` | `p4est_gmt_model_sphere_new` on all ranks | per rank: `pc`, `model` (allocated, freed), `heap` (live allocations), `bytes`, `readErr`, `result`; `bc` (the four broadcasts) | `Open`, `ReadCount`, `Bcast1`, `Bcast2`, `ReadGeodesics`, `Chain`, `Bcast3`, `Close` |
| `GmtIntersect` | `lines_intersect`, `model_sphere_intersect`, `model_synth_intersect`; the synthetic model from `p4est_gmt_model_synth_new` to `p4est_gmt_model_destroy` | one input: segment, quadrant, trees, resolution; `stage`, `model` (the `p4est_gmt_model_t` fields), `sdata`, `live` (allocations), `freed` (pointers freed, in order) | `SynthNew`, `SynthNewAbort`, `Destroy`; the callbacks are operators |
| `GmtLandPolygons` | `read_land_polygons_bin`, `p4est_gmt_model_latlong_new`, the latlong destroy | `file`, `region`, `pos`, `eof`, `used`, `numLineSegments`, `gIndex`, `pc`, `list`, `M`, `live` (allocated blocks), `badFree` | `ReadRecord`, `ReadEnd`, `Finish`, `LatlongNew`, `ModelDestroy` |
| `MCTnodesContr` | three ranks, two elements, two positions | | |
| `MCTnodesExchange` | 2x2 brick of level-0 trees, one tree per rank (4 ranks) | | |
| `MCTnodesExchange3` | the same brick on 3 ranks: rank 0 holds two diagonal trees, ranks 1 and 2 one each | | |
| `MCGmtSphereLoad` | file counts 0, 3, 52, 1639 on 3 ranks, with scaled widths | | |
| `MCGmtLandPolygons` | six GSHHG records, every file of up to three, three regions | | |

### TnodesContr and ContrSet

`TnodesContr` follows `node_register` line by line:
- the search loop for the calling rank;
- the "smaller slot wins" update;
- the push;
- the owner update with the rescan after `sc_array_push` has invalidated
  the owner pointer.

The owner is held as an index into the array. It refines `ContrSet` with
this mapping:
- `refs` is the array read as a function from rank to slot;
- `own` is the owner's rank.

The TLC run checks `Abs!Spec` as a property. So every step of the array
implementation is a step of the abstract set, whatever order the iterator
calls in.

### TnodesExchange

The traversal's result enters as constants:
- `ElemNode`: for each rank, element slot ↦ node;
- `Construct`: for each rank, the construct order;
- `ContrOrder`: the order of a node's contributor array.

Everything `owned_query_reply` derives from the contributor arrays is
computed from these:
- the owner is the smallest contributing rank (what `TnodesContr` shows
  `node_register` produces);
- the queried slot is the owner's smallest slot.

Each rank's program counter `pc` walks through the phases in the order of
`p4est_tnodes_new`. The Allgather is the pair `SortAllgather` (contribute)
and `AllgatherDone` (returns once all ranks have contributed).

Messages live in the set `net`. A send completes eagerly. A message
reaches its receiver only after the receive is posted.

The Waitsome loop is one completion per step, over any active request:
- a message whose length differs from the posted count aborts the job
  (`MPI_ERR_TRUNCATE`, or reading uninitialised buffer entries);
- a Waitsome with no active request aborts at `SC_CHECK_ABORT`.

`AssignElementNodes` and `PopulateSharers` do what the code does, including
its two defects (see Findings).


### TnodesElement

`TnodesElement` follows one local element `le` through the three
callbacks of the traversal. Init chooses the element's situation:
- level 0 or not, and its child id;
- `full_style` and `with_faces`;
- what lies across each face: the domain boundary, one same-size element,
  two smaller elements (`le` is the large side), or one larger element
  (`le` is a small side).

2:1 balance limits the choice. A level-0 element has no larger
neighbour. A face of a child that is not on its parent's boundary meets a
sibling, which is the same size or refined.

The callbacks then run in every order in which the volume callback comes
first. The asserts at the top of `iter_volume1` (configuration, face code
and slots still zero) require the volume callback first. After that the
iterator's face and corner order is not fixed. A corner callback reaches
every corner except the hanging ones. Those are registered by the face
callback of the small side.

A callback writes only the slots and codes of the elements on its sides,
each under that element's own index. So one element's view is complete.
Which ranks share each node is `TnodesContr`'s concern.

The correspondence to the code:
- `Volume` is `iter_volume1`: bit 5 and the centre as a corner node for
  the full style or level 0; otherwise bit 4 for child 1 or 2, and the
  centre as a face node.
- `FaceConforming` is the boundary and same-size branch of `iter_face1`.
- `FaceLarge` is the large side of a hanging face:
  - the promotion of a half refinement (`NeedsPromotion`, then
    `node_lfacetocorner` = `FaceToCorner`);
  - clearing bits 4 and 5 and setting the face bit;
  - the midpoint, split and half-face registrations.
- `FaceSmall` is a small side: the hanging corner, the face midpoint, and
  `face_code |= axis | childid`.
- `Corner` is `iter_corner1`.
- `slot[p]` is the `bcon` of the node that `element_nodes[le * vnodes + p]`
  refers to.
- `faults` collects positions where an assert of `node_register` (slot
  already set) or of `node_lfacetocorner` (centre not a face node) would
  fail.
- `ConfigCorners`, `ConfigFaces` and `Cind` (in `TnodesSchema`) are what
  `assign_element_nodes` reads: the first `config_count` entries of the
  table rows (`ReadRow`), and the index map.

### TnodesMesh

`TnodesMesh` composes the traversal callbacks with the node registry on
every rank of a small forest. Tree 0 is one level-0 element. Tree 1 has
one of three shapes:
- "flat": one level-0 element;
- "hang": its four level-1 children;
- "deep": those children with child `K` (1 or 3, off the glued face)
  refined once more.

The trees are glued along face `FA` of tree 0 and face `FB` of tree 1
with orientation `O`. When tree 1 is refined, that face is hanging, with
tree 0 the large side. In the deep shape the faces between `K`'s
grandchildren and its siblings are hanging too, with a level-1 large side.
Faces, hanging corners and element squares are computed from the
geometry on a 16 x 16 tree grid. Init chooses, besides the forest:
- which side of each hanging face is side 0;
- `full_style` and `with_faces`;
- a split of the elements, in forest order, over the ranks.

The callbacks a rank gets come from the external iterator, as the
specification describes it (§6). They are every local volume, and every
face and corner connection with a local side. A corner callback is not
made at the hanging midpoint. The ghost layer holds every element touching
the partition. A rank makes its volumes, then its faces, then its corners.

`Callback(r)` runs one callback to the end. Each call of the callback is
an operation applied in order to the rank's state:
- `Register` is `node_register`, reached through `node_lregister` for a
  local element or `node_gregister` for a ghost. A ghost is given by its
  owner rank and its remote local number, and the model asserts
  `!alwaysowned`.
- `FaceToCorner` is `node_lfacetocorner`.
- `SetFaceCode` is the `face_code` update.
- The callback's `lni` and `lnh[]` are the `keys` of the fold, reset per
  callback. A NULL pointer is the key "null".

`VolumeOps`, `FaceOps` (`LargeOps`, `SmallOps`, `Swapi`, `MidCorner`) and
`CornerOps` list the calls of `iter_volume1`, `iter_face1` and
`iter_corner1` in code order. The large side reads its configuration
before the callback writes it, as the code does.

The ranks do not communicate during the traversal, so their callbacks
commute. The model lets rank r start only after the lower ranks are done.
This loses no reachable final state, and no per-rank intermediate state
either.

Points give the model its oracle. Every element position has a point of
the forest, with tree 1's glued face mapped onto tree 0's under the
orientation. The points are not in the code: they decide which positions
should share a node.

### GmtSphereLoad

`GmtSphereLoad` runs `p4est_gmt_model_sphere_new` on every rank:
- the collective open;
- rank 0's read of the count, and its broadcast;
- the int-overflow check on `count * sizeof (geoseg)` and the allocation;
- the collective read of the geodesics;
- the Recv/Send chain that passes read errors up the ranks;
- the broadcast from the last rank;
- the collective close.

Every early return is a transition to `done` with its result and its
frees. `heap` holds the model's live allocations on each rank (model,
sphere data, geodesics, cubed connectivity, geometry). `Destroy` frees
what `DestroyFrees` of `GmtModel` lists for the model `sphere_new`
builds (`SphereModel`): the geometry, then `destroy_data`, which is
`model_sphere_destroy_data` and frees the geodesics and the sphere data,
then the connectivity and the model. I/O outcomes are nondeterministic:
- open and close report one outcome to all ranks;
- the geodesic read may fail on any subset of ranks.

`size_t` and `int` are scaled to 16 and 12 bits, so that the 40-byte
record size makes a wrap reachable with small counts. The file counts are:
- 0;
- 3 (a normal file);
- 52 (the int check fails);
- 1639, whose byte count wraps to 24 and passes the check.

### GmtIntersect

`GmtIntersect` evaluates the intersect callbacks in exact arithmetic. A
tree's reference square is the integer grid 0..4, so quadrant corners up
to level 2 are exact and `pow (.5, r)` is `4 / 2^r`. The `lines_intersect`
quotients are compared by cross-multiplying with the sign of the
denominator. A zero denominator fails every comparison, as NaN and
infinity do in IEEE arithmetic.

The reference `SegmentMeetsRect` is the separating-axis test. Init
enumerates every segment, quadrant, tree pair and resolution. That is
every answer the callbacks can give on this grid.

The same module follows the synthetic model through its life.
`SynthNew` is case 0 of `p4est_gmt_model_synth_new`: the zeroed model
(`ZeroModel`, the `P4EST_ALLOC_ZERO` of `p4est_gmt_model_t`), the unit
square, the model data with the triangle's points, the two callbacks and
`model_set_geom`, which points `model_geom` at the geometry embedded in
the model. Any other `synthno` aborts (`SynthNewAbort`). `Destroy` is
`p4est_gmt_model_destroy`. `DestroyFrees` (in `GmtModel`, shared with the sphere model) lists the pointers it frees, in
order: the geometry if `geom_allocated` is set, the model data through
`destroy_data` (here `model_synth_destroy_data`, which frees the points
and then the data), or else by `P4EST_FREE`, then the connectivity and
the model. Pointers are names, and the heap `live` is the set of
allocations not yet freed.

### GmtLandPolygons

`GmtLandPolygons` runs the `read_land_polygons_bin` loop record by record.
Every int goes through what the code does with it:
- the big-endian file bytes are loaded into a little-endian int;
- `to_little_end` reverses the bytes;
- the value is divided by 10^6;
- longitudes above 180 are shifted by -360.

Then it runs the filter and the global segment numbering, `feof`, the
list, `p4est_gmt_model_latlong_new`, and finally `p4est_gmt_model_destroy`
with `p4est_gmt_model_latlong_destroy` (`ModelDestroy`).

`live` holds every block allocated and not yet freed:
- the model, the connectivity, the file handle and the header array;
- the coordinate list of each record kept.

The raw points buffer, and the coordinates of a rejected record, are
allocated and freed within one loop iteration.

## Runs

| run | cfg | checks | result |
|---|---|---|---|
| contr_refinement | `MCTnodesContr.cfg` | `TypeOK`, `ContrSetRefined` | pass, 21,646 states |
| exchange_brick4 | `MCTnodesExchange.cfg` | `TypeOK`, `NoAbort`, `GlobalIdAgreement`, `GlobalNumberingBijective`, `NonlocalOrdered`, `Termination` | pass, 116,924 states, ~45 s |
| element_nodes_bug | `MCTnodesExchange3_ElementNodesFinal.cfg` | `ElementNodesFinal` | violation |
| sharers_bug | `MCTnodesExchange3_SharersExact.cfg` | `SharersExact` | violation |
| element_encoder | `MCTnodesElement.cfg` | `ConfigurationFinal`, `SlotsMatchTable` | pass, 284,996 states |
| mesh_traversal | `MCTnodesMesh.cfg` | `TypeOK`, `NodesAreGeometric`, `SharingConsistent`, `SlotsMatchTable` | pass, 160,672 states, ~1.5 min |
| sphere_load3 | `MCGmtSphereLoad.cfg` | `TypeOK`, `ResultAgreement`, `ResourcesReleased`, `Termination` | pass, 1,992 states |
| sphere_read_error_bug | `MCGmtSphereLoad_ReadErrorReported.cfg` | `ReadErrorReported` | violation |
| sphere_size_overflow_bug | `MCGmtSphereLoad_BytesExact.cfg` | `BytesExact` | violation |
| intersect_grid | `MCGmtIntersect.cfg` | `IntersectMatchesHeader`, `SynthModelReleased` | pass, 630,000 states, ~5 s |
| land_polygons | `MCGmtLandPolygons.cfg` | `SegmentIndexExact`, `HeadersDecoded`, `MemoryReleased` | pass, 6,063 states |
| land_polygons_western_bug | `MCGmtLandPolygons_RegionPolygonsKept.cfg` | `RegionPolygonsKept` | violation |

What the properties say:
- `GlobalIdAgreement`: every two contributors of a node that have finished
  the exchange give it the same global number.
- `GlobalNumberingBijective`: the owned ranges tile 0..N-1.
- `NonlocalOrdered`: the `nonlocal_nodes` debug checks at the end of
  `wait_query_reply` hold. The entries are increasing, in range, and
  outside the rank's own range.
- `NoAbort`: no count mismatch and no empty Waitsome.
- `Termination` (exchange): every rank returns.
- `ConfigurationFinal`: once all callbacks of an element have run, in any
  order, its configuration and face code are what §4.1 of the
  specification prescribes. This is the split bits, else the full style,
  else the half style with bit 4 for child 1 or 2. The promotion and the
  clearing of bits 4 and 5 must not depend on which face came first.
- `SlotsMatchTable`: the filled `element_nodes` slots, and their corner or
  face kind, are exactly the configuration's row of the tables that
  `assign_element_nodes` reads. No slot is registered twice.
- `NodesAreGeometric` (mesh): on every rank and in every state, each node
  stands for exactly one point (its contributions and the slots referring
  to it), and no point has two nodes. This is the `lni`/`lnh[j ^ swapi]`
  sharing across the sides of a face, under either orientation and side
  order.
- `SharingConsistent` (mesh): after the traversal, the ranks agree on
  every node they keep (the nodes `owned_query_reply` does not drop as
  remote-only). All copies of a point have the same contributing ranks
  and owner entry. Every contributing rank keeps a copy. The owner is the
  smallest of them. The owner's entry names a slot of the owner that holds
  its copy. This is exactly what `TnodesExchange` assumes as `ContribOf`
  and what the query position relies on.
- `SlotsMatchTable` (mesh): after the traversal, on every rank, each
  element's slots match its configuration's table row and no assertion of
  the callbacks failed.
- `ResultAgreement`: all ranks return the same result (model or NULL).
- `ResourcesReleased`: on every return path the file is closed, the
  model is freed exactly when NULL is returned, and every allocation of
  the model is live when it is returned and freed when NULL is (the
  geodesics included, which only `destroy_data` frees).
- `Termination` (sphere): no rank waits forever in a broadcast or in the
  error chain.
- `IntersectMatchesHeader`: the sphere callback refines a quadrant exactly
  when it is on the segment's tree, below the resolution, and meets the
  segment (boundary included). The synthetic callback does the same for a
  point.
- `SynthModelReleased`: once `p4est_gmt_model_destroy` has returned, every
  allocation `p4est_gmt_model_synth_new` made has been freed exactly once,
  and nothing else (such as the embedded `sgeom`) has been freed. The
  mutant that always takes the default `P4EST_FREE (model_data)` leaks
  the points array.
- `SegmentIndexExact`: every global segment index 0..M-1 lies in exactly
  one kept polygon, between two of its points.
- `HeadersDecoded`: kept headers and points are the file's values, signs
  included, with longitudes in (-180, 180]. Once the file is read, the
  kept records are exactly those whose file values pass the filter, so a
  decoding error that drops polygons (a wrong sign on `container -1`, a
  missed byte swap on `flag`) is caught, not only one that keeps them
  wrong.
- `MemoryReleased`: destroying the latlong model frees exactly what the
  reader and the model left allocated, and nothing twice.

Each property has a mutant in `PROJECT.json`: a plausible bug in the mapped
code that TLC then catches. The mutants are:
- in the exchange:
  - a rank becoming its own peer;
  - passive shares counted into `bufcount`;
  - replying with the construct index instead of the runid;
  - an inclusive offset scan;
  - a missing `remosort` sort;
  - waiting for the empty peers too;
- for `TnodesContr`: skipping the rescan, and searching only the owner
  entry;
- for `TnodesElement`: a promotion test that misses bit 4, and a large side
  that keeps bit 5;
- for `TnodesMesh`:
  - an owner index taken before the push;
  - the first contributor kept as owner;
  - `swapi` applied on both sides;
  - a small side registering its own face corner instead of the one at
    the midpoint;
- for `GmtSphereLoad`: the error chain receiving on every rank, and the
  last broadcast without the cleanup or kept local;
- for `GmtIntersect`: the endpoint test dropped, and a destroy that ignores
  `destroy_data`;
- for `GmtLandPolygons`:
  - ints read without `to_little_end`;
  - n segments counted for n points;
  - rejected coordinates not freed.

### Bounds

The brick instance is the smallest forest that has all of these:
- a node shared by four ranks (the centre);
- nodes shared by two;
- a rank that both queries and replies (ranks 1 and 2);
- purely passive peers: ranks 1 and 2 share the centre node, which rank 0
  owns, and exchange no message.

Every rank has owned, queried and local-only nodes, so every branch of
`owned_query_reply` and every `done` transition happens. With
configuration 32, `vnodes` is 9 and every element has 5 corner nodes (four
corners and the centre).

The 3-rank instance puts two elements on one rank. That makes the
element-indexing defect visible.

`TnodesElement` has no constants. Its Init is every situation of one
element that 2:1 face balance allows: 4 faces × 4 kinds, both styles,
with and without faces, and all child ids. That covers all 18 table
rows, the promotion from configurations 0 and 16, and elements with two
hanging axes.

`TnodesMesh` runs with three ranks. The flat and hang shapes cover every
pair of glued faces, both orientations, both side orders, both styles,
and with and without faces. The deep shape is glued along faces 1 and 0
only, with both orientations, side orders, styles and face settings,
and `K` in {1, 3}. Its large sides then have child ids 0 and 3
(configuration 0 in half style) or 1 and 2 (configuration 16). Every
contiguous split of the elements is covered (29 splits of eight
elements, 11 of five, 2 of two). Splits whose non-empty ranks are
not 0, 1, ... are left out. Renumbering the ranks in order keeps every
rank comparison the code makes, so these splits add nothing. The
instance has the following:
- ghost large sides and ghost small sides;
- a rank that sees a hanging face only through one small element, and
  therefore builds a half-face node with ghost contributors only;
- nodes shared by three ranks, so a contributor is neither the querying
  rank nor the owner.

In the deep shape a half-style large side is promoted
(`node_lfacetocorner`, the centre-to-corner nodes) on its owner while
its small sides may be on other ranks. A promotion test that misses bit 4
is caught by `SlotsMatchTable` here, as in `TnodesElement`.

Three sphere ranks give a first, a middle and a last rank in the error
chain.

The six polygon records give one of each kind:
- an eastern and a western land polygon;
- a lake;
- a contained polygon;
- two polygons outside some regions.

Every file of up to three records is read against three regions, so
every filter outcome and every position of a kept record occurs.

### Fairness

`TnodesExchange`'s `Fairness` is weak fairness of "some rank takes a
step". Each rank is a single thread that runs its program without waiting
except in the Allgather and `MPI_Waitsome`. MPI completes every posted send
and every receive whose message has arrived. So while some rank is
enabled, some rank moves. Every rank runs a bounded program, so this
suffices for `Termination`.

`GmtSphereLoad` uses the same fairness for the same reason. Its only waits
are the broadcasts and the blocking chain Recv.

`TnodesElement`, `TnodesMesh`, `GmtIntersect` and `GmtLandPolygons` check safety only
and assume no fairness.

## Findings

- `set_element_node` (line 1209) writes `element_nodes[le]` instead of
  `element_nodes[le * vnodes + nodene]`. Element slots keep construct
  indices, and slots of element 0 are overwritten.
- `populate_sharers` (line 1392) pushes a non-owned shared node after the
  contributor loop, not inside it. Only the last contributor's sharer
  record receives the node.
- `p4est_gmt_model_sphere_new` (gmt_models.c:633) broadcasts the error
  from the last rank, but the last rank's own read error never enters
  `mpiall`. Every rank then returns a model built from a failed read.
- `p4est_gmt_model_sphere_new` (gmt_models.c:559) checks
  `count * sizeof (geoseg)` against `INT_MAX` after the `size_t` product
  has wrapped. A huge count passes the check and reads too few bytes.
- `read_land_polygons_bin` (gmt_models.c:292) compares the header extent,
  in 0..360, with a region in (-180, 180]. Western polygons that lie in
  the region are dropped.

## Not modelled

- **Incomplete or missing ghost layers.** `TnodesMesh` passes the complete
  layer. The header documents `ghost == NULL` as a supported mode, in
  which every rank numbers its boundary nodes locally and nothing is
  shared. `node_gregister` (line 471) and every exchange phase return
  early in that mode. Which face and corner callbacks `p4est_iterate`
  makes without ghosts, or with a layer built for face connections only,
  is the external iterator's behaviour. The repository does not contain
  it, so these modes are not modelled.
- **Traversal and exchange in one module.** `TnodesMesh` checks the
  precondition the exchange starts from (`SharingConsistent`).
  `TnodesExchange` takes that outcome as constants for the brick. Running
  both phases on one forest would multiply two state spaces that already
  take a minute each.
- **Forests beyond the deep shape.** An element with two or more hanging
  faces occurs only in `TnodesElement`, one element at a time. Larger forests multiply the splits over the ranks
  beyond the run's time.
- **The specification's example 2.** `iter_volume1` (line 513) gives every
  level-0 element configuration 32 and a centre node, whatever
  `full_style` is. This agrees with §4.1 but not with example 2, which
  expects configuration 0 and four nodes for a single half-style unit
  element. No run is spent on this internal inconsistency of the
  specification.
- **32-bit overflow of the query position.** `le * vnodes + nodene` stays
  below `lel * vnodes`. The assertion at line 1479 requires that product
  to fit in a `p4est_locidx_t`, and `element_nodes` is allocated with it,
  so the overflow would show first in the allocation.
- **Allocation, freeing and error clean-up** in `p4est_tnodes_new` and
  `p4est_tnodes_destroy`, and the serial build. `p4est_tnodes_new`
  allocates `local_toffset` and `global_toffset` (line 1487) and never
  writes them, although the structure documents them as triangle offsets.
  A caller that reads them gets uninitialised memory. The models do not
  count triangles, and this is recorded as a hazard without a run.
- **gmt geometry maps and the latlong intersect.** `model_synth_geom_X`
  and `model_latlong_geom_X` copy coordinates, and
  `model_latlong_intersect` is a stub that returns 0. They change no
  state. The synthetic model's `intersect` is checked on grid points, not
  on the triangle's non-dyadic coordinates.
- **Floating-point rounding** in the gmt callbacks. The models use exact
  arithmetic on grid points.
- **Per-rank close outcomes** in the sphere loader. The model gives all
  ranks one close result.
- **`p4est_trimesh.c`**, an older and unfinished variant. Its face
  callback fills local arrays and discards them, and its corner callback
  is empty. What remains is one centre node per element and the Allgather
  scan of owned counts, which `TnodesExchange` already checks.
- **The 3D header `p8est_tnodes.h`**, which only declares types and
  functions. There is no 3D implementation in the repository.
