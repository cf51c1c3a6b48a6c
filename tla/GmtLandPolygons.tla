---------------------------- MODULE GmtLandPolygons ----------------------------
(***************************************************************************)
(* read_land_polygons_bin and p4est_gmt_model_latlong_new in example/gmt/   *)
(* gmt_models.c: the loop that reads GSHHG polygon records (a big-endian    *)
(* header of ints, then n points) until feof, keeps the top-level land      *)
(* polygons whose header extent overlaps the region of interest, numbers    *)
(* their line segments globally, and makes the segment count the model's M. *)
(*                                                                          *)
(* A record holds the header fields the code uses (area, area_full and      *)
(* ancestor are read and never used) and its points, in micro-degrees as    *)
(* the file stores them.  Every int goes through what the code does with    *)
(* it: a little-endian load of the file's big-endian bytes, to_little_end,  *)
(* and for coordinates the division by 1.0e6 (exact here: the values are    *)
(* whole degrees) and the shift of longitudes above 180 by -360.            *)
(***************************************************************************)
EXTENDS Integers, Sequences, Bitwise, TLC

CONSTANTS
  Files,      \* the files the reader may be given: sequences of records
  Regions,    \* the regions of interest: [lon |-> <<w, e>>, lat |-> <<s, n>>]
  Unit        \* micro-degrees per degree (1.0e6)

VARIABLES
  file,             \* the file being read
  region,           \* the lon[2], lat[2] arguments
  pos,              \* index of the next record in the file
  eof,              \* feof (infile)
  used,             \* all_used[0..num_polygons-1], in order
  numLineSegments,  \* num_line_segments
  gIndex,           \* global_line_segment_index
  pc,               \* "loop", "built" (list returned), "done" (model set up),
                    \* "destroyed"
  list,             \* the returned coastline_polygon_list_t
  M,                \* model->M once the model is built
  live,             \* the blocks allocated and not yet freed
  badFree           \* blocks freed that were not live

vars == <<file, region, pos, eof, used, numLineSegments, gIndex, pc, list, M, live, badFree>>

(***************************************************************************)
(* Byte order.  The file holds each int as 4 big-endian bytes; fread puts  *)
(* them into an int on a little-endian host; to_little_end reverses the    *)
(* bytes, and the conversion of the unsigned result to int wraps.          *)
(***************************************************************************)
\* The 4 bytes of a two's-complement int, most significant first.
BigEndianBytes(v) == [k \in 1..4 |-> (v \div 2^(8 * (4 - k))) % 256]

\* The int whose bytes in memory (lowest address first) are b.
LoadLittleEndian(b) ==
  LET top == IF b[4] >= 128 THEN b[4] - 256 ELSE b[4]
  IN b[1] + 256 * b[2] + 65536 * b[3] + 16777216 * top

\* to_little_end: data[k] is the byte at address k of i; the result is
\* data[3] | data[2] << 8 | data[1] << 16 | (unsigned) data[0] << 24.
ToLittleEnd(i) ==
  LET data == BigEndianBytes(i)
      d == [k \in 1..4 |-> data[5 - k]]   \* d[k + 1] = data[k]
  IN LoadLittleEndian(<<d[4], d[3], d[2], d[1]>>)

\* Variant of ReadInt that takes the int as fread loads it, without
\* to_little_end.
ReadIntNoSwap(v) == LoadLittleEndian(BigEndianBytes(v))

\* A file int as the reader sees it.
ReadInt(v) == ToLittleEnd(LoadLittleEndian(BigEndianBytes(v)))

\* to_little_end (...) / 1.0e6, and the longitude shift of the points.
Degrees(v) == ReadInt(v) \div Unit

PointLon(v) == IF Degrees(v) > 180 THEN Degrees(v) - 360 ELSE Degrees(v)

\* is_overlapping: the two boxes overlap with positive area.
IsOverlapping(x1min, x1max, y1min, y1max, x2min, x2max, y2min, y2max) ==
  x1min < x2max /\ x2min < x1max /\ y1min < y2max /\ y2min < y1max

\* The header and coord_list of a record as the loop body computes them.
Header(r) ==
  [id |-> ReadInt(r.id), n |-> ReadInt(r.n), flag |-> ReadInt(r.flag),
   west |-> Degrees(r.west), east |-> Degrees(r.east),
   south |-> Degrees(r.south), north |-> Degrees(r.north),
   container |-> ReadInt(r.container)]

CoordList(r) ==
  [i \in 1..ReadInt(r.n) |-> <<PointLon(r.pts[i][1]), Degrees(r.pts[i][2])>>]

\* The filter: level 1 (land), no container, header extent meets the region.
Kept(h, reg) ==
  /\ (h.flag & 255) = 1
  /\ h.container = -1
  /\ IsOverlapping(h.west, h.east, h.south, h.north,
                   reg.lon[1], reg.lon[2], reg.lat[1], reg.lat[2])

Init ==
  /\ file \in Files
  /\ region \in Regions
  /\ pos = 1
  /\ eof = FALSE
  /\ used = << >>
  /\ numLineSegments = 0
  /\ gIndex = 0
  /\ pc = "loop"
  /\ list = [num_polygons |-> 0, num_line_segments |-> 0]
  /\ M = 0
  /\ live = {<<"model">>, <<"conn">>, <<"infile">>, <<"all_used">>}
  /\ badFree = {}

\* Variant of ReadRecord that counts n segments for a polygon of n points.
ReadRecordCountPoints ==
  /\ pc = "loop" /\ ~eof /\ pos <= Len(file)
  /\ LET h == Header(file[pos])
     IN IF Kept(h, region)
          THEN /\ used' = Append(used, h @@ [gidx |-> gIndex, pts |-> CoordList(file[pos]), rec |-> pos])
               /\ live' = live \cup {<<"coords", pos>>}
               /\ numLineSegments' = numLineSegments + h.n
               /\ gIndex' = gIndex + h.n
          ELSE UNCHANGED <<used, numLineSegments, gIndex, live>>
  /\ pos' = pos + 1
  /\ UNCHANGED <<file, region, eof, pc, list, M, badFree>>

\* Variant of ReadRecord that frees the coordinates of no polygon.
ReadRecordLeakRejected ==
  /\ pc = "loop" /\ ~eof /\ pos <= Len(file)
  /\ LET h == Header(file[pos])
     IN IF Kept(h, region)
          THEN /\ used' = Append(used, h @@ [gidx |-> gIndex, pts |-> CoordList(file[pos]), rec |-> pos])
               /\ numLineSegments' = numLineSegments + h.n - 1
               /\ gIndex' = gIndex + h.n - 1
          ELSE UNCHANGED <<used, numLineSegments, gIndex>>
  /\ live' = live \cup {<<"coords", pos>>}
  /\ pos' = pos + 1
  /\ UNCHANGED <<file, region, eof, pc, list, M, badFree>>

\* One loop iteration that reads a whole record: decode the header and the
\* points, and keep the polygon with its first global segment index and
\* its coordinate list; the raw points, and the coordinates of a polygon
\* not kept, are freed before the next iteration.
ReadRecord ==
  /\ pc = "loop" /\ ~eof /\ pos <= Len(file)
  /\ LET h == Header(file[pos])
     IN IF Kept(h, region)
          THEN /\ used' = Append(used, h @@ [gidx |-> gIndex, pts |-> CoordList(file[pos]), rec |-> pos])
               /\ live' = live \cup {<<"coords", pos>>}
               /\ numLineSegments' = numLineSegments + h.n - 1
               /\ gIndex' = gIndex + h.n - 1
          ELSE UNCHANGED <<used, numLineSegments, gIndex, live>>
  /\ pos' = pos + 1
  /\ UNCHANGED <<file, region, eof, pc, list, M, badFree>>

\* The iteration after the last record: fread returns 0 and sets the
\* end-of-file indicator.
ReadEnd ==
  /\ pc = "loop" /\ ~eof /\ pos > Len(file)
  /\ eof' = TRUE
  /\ UNCHANGED <<file, region, pos, used, numLineSegments, gIndex, pc, list, M, live, badFree>>

\* Leave the loop, build the polygon list and close the file.  The list's
\* headers are all_used, i.e. used; its bounding box is the region.
Finish ==
  /\ pc = "loop" /\ eof
  /\ pc' = "built"
  /\ list' = [num_polygons |-> Len(used), num_line_segments |-> numLineSegments]
  /\ live' = (live \cup {<<"list">>}) \ {<<"infile">>}
  /\ UNCHANGED <<file, region, pos, eof, used, numLineSegments, gIndex, M, badFree>>

\* The rest of p4est_gmt_model_latlong_new: the model's objects are the
\* list's line segments.
LatlongNew ==
  /\ pc = "built"
  /\ pc' = "done"
  /\ M' = list.num_line_segments
  /\ UNCHANGED <<file, region, pos, eof, used, numLineSegments, gIndex, list, live, badFree>>

\* p4est_gmt_model_destroy of the latlong model: no dynamic geometry
\* (geom_allocated is 0), destroy_data is p4est_gmt_model_latlong_destroy,
\* which frees the coordinates of the first num_polygons headers, the
\* header array and the list; then the connectivity and the model.
ModelDestroy ==
  /\ pc = "done"
  /\ pc' = "destroyed"
  /\ LET frees == {<<"coords", used[i].rec>> : i \in 1..list.num_polygons}
                  \cup {<<"all_used">>, <<"list">>, <<"conn">>, <<"model">>}
     IN /\ live' = live \ frees
        /\ badFree' = badFree \cup (frees \ live)
  /\ UNCHANGED <<file, region, pos, eof, used, numLineSegments, gIndex, list, M>>

Done == pc = "done"

Next == ReadRecord \/ ReadEnd \/ Finish \/ LatlongNew \/ ModelDestroy
        \/ (pc = "destroyed" /\ UNCHANGED vars)

Spec == Init /\ [][Next]_vars

-----------------------------------------------------------------------------
(***************************************************************************)
(* Properties                                                              *)
(***************************************************************************)

\* Which kept polygon holds global segment m, and at which local index.
Holders(m) == {i \in 1..Len(used) : used[i].gidx <= m /\ m < used[i].gidx + used[i].n - 1}

\* The latlong model numbers its objects 0..M-1: each global segment index
\* lies in exactly one kept polygon, and there it names a segment between
\* two of the polygon's points (a polygon of n points has n - 1 segments).
SegmentIndexExact ==
  Done =>
    \A m \in 0..M - 1 :
      \E i \in Holders(m) :
        /\ Holders(m) = {i}
        /\ m - used[i].gidx + 2 <= Len(used[i].pts)

\* The records the filter keeps, judged on the values the file holds.
FileKept(reg) ==
  {k \in 1..Len(file) :
     /\ file[k].flag % 256 = 1
     /\ file[k].container = -1
     /\ IsOverlapping(file[k].west \div Unit, file[k].east \div Unit,
                      file[k].south \div Unit, file[k].north \div Unit,
                      reg.lon[1], reg.lon[2], reg.lat[1], reg.lat[2])}

\* The header and the coordinates of every kept polygon are the values the
\* big-endian file holds: to_little_end undoes the byte order of the host,
\* signs included (container -1), and longitudes are shifted into
\* (-180, 180].  Once the file is read, the kept records are exactly those
\* whose file values pass the filter: a decoding that got a sign wrong
\* would drop or keep the wrong polygons.
HeadersDecoded ==
  /\ pc # "loop" => {used[i].rec : i \in 1..Len(used)} = FileKept(region)
  /\ \A i \in 1..Len(used) :
      \E k \in 1..Len(file) :
        /\ file[k].id = used[i].id
        /\ file[k].n = used[i].n /\ used[i].container = -1
        /\ file[k].west = used[i].west * Unit
        /\ \A j \in 1..file[k].n :
             /\ used[i].pts[j][2] * Unit = file[k].pts[j][2]
             /\ \/ used[i].pts[j][1] * Unit = file[k].pts[j][1]
                \/ (used[i].pts[j][1] + 360) * Unit = file[k].pts[j][1]
             /\ used[i].pts[j][1] \in -179..180

\* Destroying the latlong model releases every block that
\* p4est_gmt_model_latlong_new and read_land_polygons_bin allocated and did
\* not free themselves: the coordinate lists of exactly the kept polygons
\* (the reader's keep-or-free choice and the destroy loop's bound must
\* agree), the header array, the list, the connectivity and the model, and
\* it frees nothing that was not live.
MemoryReleased ==
  pc = "destroyed" => live = {} /\ badFree = {}

\* The list holds every top-level land polygon of the file that has a point
\* in the region of interest: the comment of the filter says the polygon's
\* bounding box is checked against the region, and the points the model
\* uses have longitudes in (-180, 180].
RegionPolygonsKept ==
  Done =>
    \A k \in 1..Len(file) :
      LET h == Header(file[k])  pts == CoordList(file[k])
      IN ( /\ (h.flag & 255) = 1 /\ h.container = -1
           /\ \E j \in 1..h.n :
                /\ region.lon[1] < pts[j][1] /\ pts[j][1] < region.lon[2]
                /\ region.lat[1] < pts[j][2] /\ pts[j][2] < region.lat[2] )
         => \E i \in 1..Len(used) : used[i].id = h.id
=============================================================================
