---------------------------- MODULE TnodesElement ----------------------------
(***************************************************************************)
(* The configuration encoder of p4est_tnodes_new (part_000): what the       *)
(* traversal callbacks iter_volume1, iter_face1 and iter_corner1 do to one  *)
(* local element le: its configuration byte, its face_code, and the         *)
(* element_nodes slots node_register fills, with the codimension (bcon) of  *)
(* the node each slot refers to.                                            *)
(*                                                                          *)
(* The element and its surroundings are chosen in Init: level 0 or not,     *)
(* child id, full_style, with_faces, and what lies across each face         *)
(* (domain boundary, a same-size neighbour, two smaller neighbours, or a    *)
(* larger neighbour), as 2:1 balance allows.  The callbacks that touch the  *)
(* element then run in every order in which the volume callback comes      *)
(* first, as the assertions of iter_volume1 require.  A face or corner      *)
(* callback writes only the slots and codes of the elements on its sides,   *)
(* each by its own local index, so one element's view is complete; which    *)
(* node a slot shares with the other side is TnodesContr's concern.         *)
(***************************************************************************)
EXTENDS Integers, FiniteSets, Bitwise, TnodesSchema

FSE == INSTANCE FiniteSetsExt

None == "none"

\* What lies across face f: the domain boundary, one same-size element, two
\* smaller elements (le is the large side), or a larger one (le is small).
Kinds == {"boundary", "same", "large", "small"}

VARIABLES
  level0,       \* the element has level 0
  childid,      \* p4est_quadrant_child_id
  fullStyle,    \* me->full_style
  withFaces,    \* me->with_faces
  kind,         \* kind[f]: what lies across face f
  done,         \* the callbacks already made for this element
  config,       \* tm->configuration[le]
  faceCode,     \* ln->face_code[le]
  slot,         \* slot[p]: bcon of the node in element_nodes[le * vnodes + p]
  faults        \* positions where an assertion of node_register or
                \* node_lfacetocorner fails

vars == <<level0, childid, fullStyle, withFaces, kind, done, config, faceCode, slot, faults>>

\* The corners that a corner callback reaches: all but the hanging ones.
CornerSites == Corners \ {HangingCorner(childid, f) : f \in {f \in Faces : kind[f] = "small"}}

Callbacks == {<<"volume">>} \cup {<<"face", f>> : f \in Faces} \cup {<<"corner", c>> : c \in CornerSites}

\* node_register of a local element: element_nodes[le * vnodes + nodene]
\* (asserted unassigned) refers to a node of codimension bcon.  The
\* registrations of one callback go to distinct positions.
Assign(s, regs) ==
  [p \in Positions |-> IF \E r \in regs : r[1] = p THEN (CHOOSE r \in regs : r[1] = p)[2] ELSE s[p]]

Reassigned(regs) == {r[1] : r \in {r \in regs : slot[r[1]] # None}}

Register(regs) ==
  /\ slot' = Assign(slot, regs)
  /\ faults' = faults \cup Reassigned(regs)

Init ==
  /\ level0 \in BOOLEAN
  /\ childid \in (IF level0 THEN {0} ELSE 0..3)
  /\ fullStyle \in BOOLEAN
  /\ withFaces \in BOOLEAN
  /\ kind \in {k \in [Faces -> Kinds] :
                \A f \in Faces :
                  /\ level0 => k[f] # "small"
                  /\ ~level0 /\ ~OnParentFace(childid, f) => k[f] \in {"same", "large"}}
  /\ done = {}
  /\ config = 0
  /\ faceCode = 0
  /\ slot = [p \in Positions |-> None]
  /\ faults = {}

\* iter_volume1: the full style (or level 0) sets bit 5 and registers the
\* center as a corner and, with faces, the four center-to-corner
\* midpoints; the half style sets bit 4 for child 1 or 2 and, with faces,
\* registers the center as a face node.
Volume ==
  /\ done = {}
  /\ done' = {<<"volume">>}
  /\ IF fullStyle \/ level0
       THEN /\ config' = 32
            /\ Register({<<NCenter, "corner">>} \cup
                        (IF withFaces THEN {<<CF(j), "face">> : j \in 0..3} ELSE {}))
       ELSE /\ config' = IF childid \in {1, 2} THEN 16 ELSE 0
            /\ Register(IF withFaces THEN {<<NCenter, "face">>} ELSE {})
  /\ UNCHANGED <<level0, childid, fullStyle, withFaces, kind, faceCode>>

\* iter_face1 with one side (a boundary face) or two same-size sides: with
\* faces, le's face midpoint is registered as a face node.
FaceConforming(f) ==
  /\ kind[f] \in {"boundary", "same"}
  /\ Register(IF withFaces THEN {<<MF(f), "face">>} ELSE {})
  /\ UNCHANGED <<config, faceCode>>

\* Variant of the promotion test that misses the half style with bit 4.
NeedsPromotionZeroOnly(c) == c = 0

\* The promotion test of the large side: a half refinement (no bit but
\* bit 4) must be promoted to full.
NeedsPromotion(c) == (c & 239) = 0

\* node_lfacetocorner: the center, registered as a face node by the
\* volume callback, becomes a corner node.
FaceToCorner(s) == [s EXCEPT ![NCenter] = "corner"]

\* Variant of the large side that clears bit 4 only.
FaceLargeKeepFull(f) ==
  /\ kind[f] = "large"
  /\ LET promote == NeedsPromotion(config)
         extra == IF ~promote THEN {}
                  ELSE IF withFaces THEN {<<CF(j), "face">> : j \in 0..3}
                  ELSE {<<NCenter, "corner">>}
         own == {<<MF(f), "corner">>} \cup
                (IF withFaces THEN {<<SP(f), "face">>, <<HF(f, 0), "face">>, <<HF(f, 1), "face">>}
                              ELSE {})
         s == IF promote /\ withFaces THEN FaceToCorner(slot) ELSE slot
     IN /\ slot' = Assign(s, extra \cup own)
        /\ faults' = faults \cup Reassigned(extra \cup own)
                   \cup (IF promote /\ withFaces /\ slot[NCenter] # "face" THEN {NCenter} ELSE {})
  /\ config' = (config & 239) | 2^f
  /\ UNCHANGED faceCode

\* iter_face1 on the large side of a hanging face: promote a half
\* refinement (without faces the center is registered as a corner; with
\* faces node_lfacetocorner turns the face-node center into a corner and
\* the four center-to-corner midpoints are registered), clear bits 4 and 5,
\* set the face bit, register the face midpoint as a corner and, with
\* faces, the split and the two half-face midpoints as face nodes.
FaceLarge(f) ==
  /\ kind[f] = "large"
  /\ LET promote == NeedsPromotion(config)
         extra == IF ~promote THEN {}
                  ELSE IF withFaces THEN {<<CF(j), "face">> : j \in 0..3}
                  ELSE {<<NCenter, "corner">>}
         own == {<<MF(f), "corner">>} \cup
                (IF withFaces THEN {<<SP(f), "face">>, <<HF(f, 0), "face">>, <<HF(f, 1), "face">>}
                              ELSE {})
         s == IF promote /\ withFaces THEN FaceToCorner(slot) ELSE slot
     IN /\ slot' = Assign(s, extra \cup own)
        /\ faults' = faults \cup Reassigned(extra \cup own)
                   \cup (IF promote /\ withFaces /\ slot[NCenter] # "face" THEN {NCenter} ELSE {})
  /\ config' = (config & 207) | 2^f
  /\ UNCHANGED faceCode

\* iter_face1 on a small side of a hanging face: register the corner at
\* the large face's midpoint and, with faces, le's face midpoint as a face
\* node; record the hanging axis and the child id in face_code (asserted
\* not yet recorded for this axis).
FaceSmall(f) ==
  /\ kind[f] = "small"
  /\ LET regs == {<<HangingCorner(childid, f), "corner">>} \cup
                 (IF withFaces THEN {<<MF(f), "face">>} ELSE {})
         axis == 2^(2 + f \div 2)
     IN /\ slot' = Assign(slot, regs)
        /\ faults' = faults \cup Reassigned(regs)
                   \cup (IF (faceCode & axis) # 0 THEN {MF(f)} ELSE {})
        /\ faceCode' = faceCode | axis | childid
  /\ UNCHANGED config

\* The face callback for face f of le.
Face(f) ==
  /\ <<"volume">> \in done /\ <<"face", f>> \notin done
  /\ done' = done \cup {<<"face", f>>}
  /\ \/ FaceConforming(f)
     \/ FaceLarge(f)
     \/ FaceSmall(f)
  /\ UNCHANGED <<level0, childid, fullStyle, withFaces, kind>>

\* iter_corner1: the corner is registered as a corner node.
Corner(c) ==
  /\ <<"volume">> \in done /\ <<"corner", c>> \notin done /\ c \in CornerSites
  /\ done' = done \cup {<<"corner", c>>}
  /\ Register({<<c, "corner">>})
  /\ UNCHANGED <<level0, childid, fullStyle, withFaces, kind, config, faceCode>>

\* Every callback touching le has been made.
Traversed == done = Callbacks

Next ==
  \/ Volume
  \/ \E f \in Faces : Face(f)
  \/ \E c \in Corners : Corner(c)
  \/ Traversed /\ UNCHANGED vars

Spec == Init /\ [][Next]_vars

-----------------------------------------------------------------------------
(***************************************************************************)
(* Properties                                                              *)
(***************************************************************************)

\* The configuration the specification's volume and face events describe
\* (section 4.1): the split bits of the faces with smaller neighbours; else
\* the full style (forced, or at level 0); else the half style, with bit 4
\* for child 1 or 2.  A small side's face code holds its hanging axes and
\* its child id.
ExpectedConfig ==
  LET split == {f \in Faces : kind[f] = "large"}
  IN IF split # {} THEN FSE!SumSet({2^f : f \in split})
     ELSE IF fullStyle \/ level0 THEN 32
     ELSE IF childid \in {1, 2} THEN 16 ELSE 0

ExpectedFaceCode ==
  LET small == {f \in Faces : kind[f] = "small"}
  IN IF small = {} THEN 0 ELSE childid + FSE!SumSet({2^(2 + f \div 2) : f \in small})

\* Once every callback touching the element has run, in whatever order the
\* iterator made them, configuration and face_code are what section 4.1
\* prescribes: the promotion of a half refinement, the clearing of bits 4
\* and 5 and the face bits must not depend on which face came first.
ConfigurationFinal ==
  Traversed => config = ExpectedConfig /\ faceCode = ExpectedFaceCode

\* Once the element is traversed, its element_nodes slots are exactly those
\* of its configuration's table row, which assign_element_nodes then reads
\* and asserts: corner positions hold corner nodes (the center of every
\* split or full configuration included), and with faces the face
\* positions hold face nodes.  No slot was registered twice and the center
\* was a face node whenever node_lfacetocorner retagged it.
SlotsMatchTable ==
  Traversed =>
    /\ faults = {}
    /\ {p \in Positions : slot[p] = "corner"} = ConfigCorners(Cind(config))
    /\ {p \in Positions : slot[p] = "face"} =
         IF withFaces THEN ConfigFaces(Cind(config)) ELSE {}
=============================================================================
