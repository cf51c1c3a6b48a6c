-------------------------- MODULE MCGmtLandPolygons --------------------------
(* GSHHG records in whole degrees: an eastern and a western land polygon  *)
(* (the western one with header extent 280..300, as GSHHG stores it), a   *)
(* lake, a land polygon inside a container, a land polygon outside the    *)
(* regions, and one across the antimeridian (header extent 170..190).     *)
(* The reader is given every file of up to three records.                 *)
EXTENDS GmtLandPolygons

MCUnit == 1000000

\* flag: level + version 12 << 8
Land == 1 + 12 * 256
Lake == 2 + 12 * 256

Rec(id, flag, w, e, s, n, cont, pts) ==
  [id |-> id, n |-> Len(pts), flag |-> flag,
   west |-> w * MCUnit, east |-> e * MCUnit,
   south |-> s * MCUnit, north |-> n * MCUnit, container |-> cont,
   pts |-> [i \in DOMAIN pts |-> <<pts[i][1] * MCUnit, pts[i][2] * MCUnit>>]]

Records ==
  { Rec(0, Land, 10, 40, 35, 45, -1, <<<<10, 35>>, <<40, 45>>, <<25, 40>>, <<10, 35>>>>),
    Rec(1, Land, 280, 300, 35, 45, -1, <<<<280, 35>>, <<300, 45>>, <<280, 35>>>>),
    Rec(2, Lake, 15, 30, 36, 44, 0, <<<<15, 36>>, <<30, 44>>, <<15, 36>>>>),
    Rec(3, Land, 20, 25, 38, 42, 2, <<<<20, 38>>, <<25, 42>>, <<20, 38>>>>),
    Rec(4, Land, 100, 120, 35, 45, -1, <<<<100, 35>>, <<120, 45>>, <<100, 35>>>>),
    Rec(5, Land, 170, 190, 40, 45, -1,
        <<<<170, 40>>, <<190, 45>>, <<175, 42>>, <<170, 40>>>>) }

MCFiles ==
  {<< >>} \cup {<<a>> : a \in Records} \cup {<<a, b>> : a, b \in Records}
    \cup {<<a, b, c>> : a, b, c \in Records}

MCRegions ==
  { [lon |-> <<-90, 50>>, lat |-> <<30, 60>>],
    [lon |-> <<0, 50>>, lat |-> <<30, 60>>],
    [lon |-> <<150, 180>>, lat |-> <<30, 60>>] }
=============================================================================
