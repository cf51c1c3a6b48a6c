------------------------------ MODULE GmtModel -------------------------------
(***************************************************************************)
(* The model object of the gmt example (example/gmt/gmt_models.h) and its  *)
(* destructor p4est_gmt_model_destroy, shared by the models built on it.   *)
(* Pointers are names: an allocation is named for what it holds, "sgeom"   *)
(* is the geometry embedded in the model, "null" is NULL, and a function   *)
(* pointer is the name of its target.                                      *)
(***************************************************************************)
EXTENDS Naturals, Sequences

Null == "null"

\* P4EST_ALLOC_ZERO (p4est_gmt_model_t, 1): every field zero or NULL.
ZeroModel ==
  [M |-> 0, output_prefix |-> Null, conn |-> Null, model_geom |-> Null,
   model_data |-> Null, destroy_data |-> Null, intersect |-> Null,
   geom_allocated |-> 0,
   sgeom |-> [name |-> Null, user |-> Null, X |-> Null, destroy |-> Null]]

\* model_set_geom: the embedded geometry points back to the model and has
\* no destroy function; model_geom points at it.
SetGeom(m, name, X) ==
  [m EXCEPT !.sgeom = [name |-> name, user |-> "model", X |-> X,
                       destroy |-> Null],
            !.model_geom = "sgeom"]

\* model_synth_destroy_data: the points, then the model data.
SynthDestroyData(d) == <<"points", d>>

\* model_sphere_destroy_data: the geodesics, then the model data.
SphereDestroyData(d) == <<"geodesics", d>>

\* The call through model->destroy_data.
DestroyData(fn, d) ==
  IF fn = "model_synth_destroy_data" THEN SynthDestroyData(d) ELSE SphereDestroyData(d)

\* Variant of DestroyFrees that ignores destroy_data and always takes the
\* default P4EST_FREE of model_data.
DestroyFreesNoDispatch(m) ==
  (IF m.geom_allocated # 0 THEN <<m.model_geom>> ELSE <<>>)
  \o (IF m.model_data # Null THEN <<m.model_data>> ELSE <<>>)
  \o <<m.conn, "model">>

\* What p4est_gmt_model_destroy frees, in order: an allocated geometry
\* (p4est_geometry_destroy frees it, having no destroy function), the model
\* data through destroy_data or else by P4EST_FREE (which respects NULL),
\* the connectivity and the model.
DestroyFrees(m) ==
  (IF m.geom_allocated # 0 THEN <<m.model_geom>> ELSE <<>>)
  \o (IF m.destroy_data # Null THEN DestroyData(m.destroy_data, m.model_data)
      ELSE IF m.model_data # Null THEN <<m.model_data>> ELSE <<>>)
  \o <<m.conn, "model">>

\* The frees of the sequence fs that are wrong with the allocations live
\* beforehand: a pointer not allocated, or one freed twice.
BadFrees(fs, live) ==
  {i \in DOMAIN fs : fs[i] \notin live \/ \E j \in 1..i - 1 : fs[j] = fs[i]}
=============================================================================
