----------------------------- MODULE TnodesSchema -----------------------------
(***************************************************************************)
(* The constant data of p4est_tnodes.c (part_000) that the traversal and   *)
(* the finalisation share: the node position schema of an element, the     *)
(* configuration tables, and the table index of a configuration byte.      *)
(* The tables are the code's rows without their -1 padding; ReadRow gives  *)
(* back what a loop over the first n entries of a padded row reads.        *)
(***************************************************************************)
EXTENDS Integers, Sequences

Faces == 0..3
Corners == 0..3
Positions == 0..24     \* vnodes = 25 with faces; corner positions are 0..8

\* The position index schema of the element nodes.
NCenter == 4
NMface == <<5, 6, 7, 8>>
NCface == <<9, 10, 11, 12>>
NSplit == <<14, 17, 20, 22>>
NHface == <<<<13, 15>>, <<16, 18>>, <<19, 21>>, <<23, 24>>>>
MF(f) == NMface[f + 1]
CF(j) == NCface[j + 1]
SP(f) == NSplit[f + 1]
HF(f, j) == NHface[f + 1][j + 1]

\* p4est_face_corners in 2D (p4est_connectivity.c, outside this source).
FaceCorners(f) == <<<<0, 2>>, <<1, 3>>, <<0, 1>>, <<2, 3>>>>[f + 1]

\* Face f of child c lies on its parent's boundary.
OnParentFace(c, f) == c \in {FaceCorners(f)[1], FaceCorners(f)[2]}

\* The corner of a small side at the midpoint of the large face:
\* p4est_face_corners[face][j ^ 1] where p4est_face_corners[face][j] = childid.
HangingCorner(c, f) == IF FaceCorners(f)[1] = c THEN FaceCorners(f)[2] ELSE FaceCorners(f)[1]

\* p4est_tnodes_config_count: corner and face node counts of rows 0..17.
ConfigCount ==
  << <<4, 5>>, <<6, 10>>, <<6, 10>>, <<7, 12>>, <<6, 10>>, <<7, 12>>,
     <<7, 12>>, <<8, 14>>, <<6, 10>>, <<7, 12>>, <<7, 12>>, <<8, 14>>,
     <<7, 12>>, <<8, 14>>, <<8, 14>>, <<9, 16>>, <<4, 5>>, <<5, 8>> >>

\* p4est_tnodes_config_corners, rows 0..17.
ConfigCornersRow ==
  << <<0, 1, 2, 3>>, <<0, 1, 2, 3, 4, 5>>, <<0, 1, 2, 3, 4, 6>>,
     <<0, 1, 2, 3, 4, 5, 6>>, <<0, 1, 2, 3, 4, 7>>, <<0, 1, 2, 3, 4, 5, 7>>,
     <<0, 1, 2, 3, 4, 6, 7>>, <<0, 1, 2, 3, 4, 5, 6, 7>>,
     <<0, 1, 2, 3, 4, 8>>, <<0, 1, 2, 3, 4, 5, 8>>, <<0, 1, 2, 3, 4, 6, 8>>,
     <<0, 1, 2, 3, 4, 5, 6, 8>>, <<0, 1, 2, 3, 4, 7, 8>>,
     <<0, 1, 2, 3, 4, 5, 7, 8>>, <<0, 1, 2, 3, 4, 6, 7, 8>>,
     <<0, 1, 2, 3, 4, 5, 6, 7, 8>>, <<0, 1, 2, 3>>, <<0, 1, 2, 3, 4>> >>

\* p4est_tnodes_config_faces, rows 0..17.
ConfigFacesRow ==
  << <<4, 5, 6, 7, 8>>, <<6, 7, 8, 9, 10, 11, 12, 13, 14, 15>>,
     <<5, 7, 8, 9, 10, 11, 12, 16, 17, 18>>,
     <<7, 8, 9, 10, 11, 12, 13, 14, 15, 16, 17, 18>>,
     <<5, 6, 8, 9, 10, 11, 12, 19, 20, 21>>,
     <<6, 8, 9, 10, 11, 12, 13, 14, 15, 19, 20, 21>>,
     <<5, 8, 9, 10, 11, 12, 16, 17, 18, 19, 20, 21>>,
     <<8, 9, 10, 11, 12, 13, 14, 15, 16, 17, 18, 19, 20, 21>>,
     <<5, 6, 7, 9, 10, 11, 12, 22, 23, 24>>,
     <<6, 7, 9, 10, 11, 12, 13, 14, 15, 22, 23, 24>>,
     <<5, 7, 9, 10, 11, 12, 16, 17, 18, 22, 23, 24>>,
     <<7, 9, 10, 11, 12, 13, 14, 15, 16, 17, 18, 22, 23, 24>>,
     <<5, 6, 9, 10, 11, 12, 19, 20, 21, 22, 23, 24>>,
     <<6, 9, 10, 11, 12, 13, 14, 15, 19, 20, 21, 22, 23, 24>>,
     <<5, 9, 10, 11, 12, 16, 17, 18, 19, 20, 21, 22, 23, 24>>,
     <<9, 10, 11, 12, 13, 14, 15, 16, 17, 18, 19, 20, 21, 22, 23, 24>>,
     <<4, 5, 6, 7, 8>>, <<5, 6, 7, 8, 9, 10, 11, 12>> >>

\* The first n entries of a padded table row.
ReadRow(row, n) == [k \in 1..n |-> IF k <= Len(row) THEN row[k] ELSE -1]

\* The table row assign_element_nodes uses for a configuration byte.
Cind(config) == IF config <= 16 THEN config ELSE 17

\* The positions assign_element_nodes fills for row cind: the first
\* p4est_tnodes_config_count[cind][0] corner entries and, with faces, the
\* first [cind][1] face entries.
ConfigCorners(cind) == LET r == ReadRow(ConfigCornersRow[cind + 1], ConfigCount[cind + 1][1])
                       IN {r[k] : k \in DOMAIN r}
ConfigFaces(cind) == LET r == ReadRow(ConfigFacesRow[cind + 1], ConfigCount[cind + 1][2])
                     IN {r[k] : k \in DOMAIN r}
=============================================================================
