--------------------------- MODULE MCGmtSphereLoad ---------------------------
(* Three ranks.  size_t is 16 bits and int 12 bits (INT_MAX = 2047), with  *)
(* the real sizeof (p4est_gmt_sphere_geoseg_t) of 40 bytes: 3 points fit, *)
(* 52 points exceed INT_MAX, and 1639 points wrap size_t to 24 bytes.      *)
EXTENDS GmtSphereLoad

MCFileCounts == {0, 3, 52, 1639}
=============================================================================
