---------------------------- MODULE GmtSphereLoad ----------------------------
(***************************************************************************)
(* p4est_gmt_model_sphere_new in example/gmt/gmt_models.c on every rank of *)
(* the communicator: the collective open of the geodesic file, the count   *)
(* read by rank 0 and its broadcast, the int-overflow check on the byte    *)
(* count, the allocation of the model, the collective read of the          *)
(* geodesics, the chain Recv/Send that passes read errors from rank to     *)
(* rank, the broadcast of the error from the last rank, and the close.     *)
(*                                                                         *)
(* I/O outcomes are nondeterministic.  Open and close are collective and   *)
(* report one result to all ranks; the count read happens on rank 0 only;  *)
(* the geodesic read may fail on any subset of ranks.  Error codes keep    *)
(* the three values the code tells apart.  size_t and int keep their roles *)
(* but are scaled to SizeBits and IntBits so that TLC can reach a wrap.    *)
(***************************************************************************)
EXTENDS Integers, GmtModel

CONSTANTS
  NumRanks,     \* num_procs
  FileCounts,   \* the global_num_points values a file may hold
  SizeBits,     \* width of size_t
  IntBits       \* width of int

\* sizeof (p4est_gmt_sphere_geoseg_t): two p4est_topidx_t (int32) and four
\* doubles, no padding.
GeosegSize == 2 * 4 + 4 * 8

Ranks == 0..NumRanks - 1
Last == NumRanks - 1
IntMax == 2^(IntBits - 1) - 1

\* The error codes the code distinguishes.
Success == "SUCCESS"
ErrIO == "ERR_IO"         \* any error MPI I/O returns itself
ErrOther == "ERR_OTHER"   \* sc_MPI_ERR_OTHER, set on a count mismatch
Codes == {Success, ErrIO, ErrOther}
None == "none"            \* a broadcast or message not yet posted

VARIABLES
  pc,          \* program point of each rank
  result,      \* "pending", or what the call returned: "null" / "model"
  file,        \* file_handle: "none", "open", "closed", "closefailed"
  model,       \* the model allocation: "none", "alloc", "freed"
  heap,        \* the allocations of the model that are live on each rank
  mpiall,      \* mpiall of each rank
  mpival,      \* mpival of each rank
  count,       \* global_num_points of each rank
  bytes,       \* local_int_bytes of each rank
  readRes,     \* outcome of this rank's geodesic read (history)
  chan,        \* chan[r]: the error sent by r-1 to r, or None
  bc,          \* bc[i]: {root value} of broadcast i once posted, else {}
  openRes,     \* the collective result of sc_io_open, or None
  closeRes,    \* the collective result of sc_io_close, or None
  inputGiven   \* input != NULL

vars == <<pc, result, file, model, heap, mpiall, mpival, count, bytes, readRes,
          chan, bc, openRes, closeRes, inputGiven>>

\* size_t arithmetic, and the implementation-defined conversion to int
\* (two's complement, as the compilers p4est supports do it).
SizeT(x) == x % 2^SizeBits
ToInt(x) == LET m == x % 2^IntBits IN IF m > IntMax THEN m - 2^IntBits ELSE m

\* Variant of TooBig without the check: no count is rejected.
TooBigNever(n) == FALSE

\* The guard at line 559: the byte count, computed in size_t, exceeds INT_MAX.
TooBig(n) == SizeT(n * GeosegSize) > IntMax

Init ==
  /\ pc = [r \in Ranks |-> "start"]
  /\ result = [r \in Ranks |-> "pending"]
  /\ file = [r \in Ranks |-> "none"]
  /\ model = [r \in Ranks |-> "none"]
  /\ heap = [r \in Ranks |-> {}]
  /\ mpiall = [r \in Ranks |-> Success]
  /\ mpival = [r \in Ranks |-> Success]
  /\ count = [r \in Ranks |-> 0]
  /\ bytes = [r \in Ranks |-> 0]
  /\ readRes = [r \in Ranks |-> None]
  /\ chan = [r \in Ranks |-> None]
  /\ bc = [i \in 1..3 |-> {}]
  /\ openRes = None
  /\ closeRes = None
  /\ inputGiven \in BOOLEAN

\* What sphere_new allocates: the model, its sphere data, the geodesics,
\* the cubed connectivity and the sphere geometry.
SphereAllocs == {"model", "sdata", "geodesics", "conn", "geom"}

\* The model as sphere_new fills it for n geodesics.
SphereModel(n) ==
  [ZeroModel EXCEPT !.model_data = "sdata", !.M = n,
                    !.destroy_data = "model_sphere_destroy_data",
                    !.intersect = "model_sphere_intersect",
                    !.conn = "conn", !.model_geom = "geom",
                    !.geom_allocated = 1, !.output_prefix = "sphere"]

\* p4est_gmt_model_destroy on the sphere model: what DestroyFrees lists is
\* freed.
Destroy(r) ==
  LET fs == DestroyFrees(SphereModel(count[r]))
  IN /\ model' = [model EXCEPT ![r] = "freed"]
     /\ heap' = [heap EXCEPT ![r] = @ \ {fs[i] : i \in DOMAIN fs}]

\* Leave the function with NULL or with the model.
Return(r, res) == pc' = [pc EXCEPT ![r] = "done"] /\ result' = [result EXCEPT ![r] = res]

\* The NULL input check, then the collective open; a failed open returns
\* NULL on every rank.
Open(r) ==
  /\ pc[r] = "start"
  /\ IF ~inputGiven
       THEN Return(r, "null") /\ UNCHANGED <<file, openRes>>
       ELSE \E o \in IF openRes = None THEN {Success, ErrIO} ELSE {openRes} :
              /\ openRes' = o
              /\ IF o # Success
                   THEN Return(r, "null") /\ UNCHANGED file
                   ELSE /\ file' = [file EXCEPT ![r] = "open"]
                        /\ pc' = [pc EXCEPT ![r] = IF r = 0 THEN "count" ELSE "bcast1"]
                        /\ UNCHANGED result
  /\ UNCHANGED <<model, heap, mpiall, mpival, count, bytes, readRes, chan, bc, closeRes, inputGiven>>

\* Rank 0 reads the point count; a short read becomes sc_MPI_ERR_OTHER.
ReadCount(r) ==
  /\ pc[r] = "count"
  /\ \E e \in {Success, ErrIO, ErrOther}, n \in FileCounts :
       /\ mpiall' = [mpiall EXCEPT ![r] = e]
       /\ count' = [count EXCEPT ![r] = IF e = Success THEN n ELSE 0]
  /\ pc' = [pc EXCEPT ![r] = "bcast1"]
  /\ UNCHANGED <<result, file, model, heap, mpival, bytes, readRes, chan, bc, openRes, closeRes, inputGiven>>

\* Broadcast i of value v from root: the root posts it, the others wait for it.
BcastValue(i, root, r, v) ==
  /\ r = root \/ bc[i] # {}
  /\ bc' = IF r = root THEN [bc EXCEPT ![i] = {v}] ELSE bc

RootVal(i, root, r, v) == IF r = root THEN v ELSE CHOOSE x \in bc[i] : TRUE

\* The error broadcast from rank 0; on an error every rank closes the file
\* and returns NULL.
Bcast1(r) ==
  /\ pc[r] = "bcast1"
  /\ BcastValue(1, 0, r, mpiall[r])
  /\ LET v == RootVal(1, 0, r, mpiall[r])
     IN /\ mpiall' = [mpiall EXCEPT ![r] = v]
        /\ IF v # Success
             THEN Return(r, "null") /\ file' = [file EXCEPT ![r] = "closed"]
             ELSE pc' = [pc EXCEPT ![r] = "bcast2"] /\ UNCHANGED <<result, file>>
  /\ UNCHANGED <<model, heap, mpival, count, bytes, readRes, chan, openRes, closeRes, inputGiven>>

\* The count broadcast, the overflow check, and the allocation of the model
\* with local_int_bytes converted to int.
Bcast2(r) ==
  /\ pc[r] = "bcast2"
  /\ BcastValue(2, 0, r, count[r])
  /\ LET n == RootVal(2, 0, r, count[r])
     IN /\ count' = [count EXCEPT ![r] = n]
        /\ IF TooBig(n)
             THEN /\ Return(r, "null") /\ file' = [file EXCEPT ![r] = "closed"]
                  /\ UNCHANGED <<model, heap, bytes>>
             ELSE /\ bytes' = [bytes EXCEPT ![r] = ToInt(SizeT(n * GeosegSize))]
                  /\ model' = [model EXCEPT ![r] = "alloc"]
                  /\ heap' = [heap EXCEPT ![r] = SphereAllocs]
                  /\ pc' = [pc EXCEPT ![r] = "read"]
                  /\ UNCHANGED <<result, file>>
  /\ UNCHANGED <<mpiall, mpival, readRes, chan, openRes, closeRes, inputGiven>>

\* sc_io_read_at_all of local_int_bytes; a short read becomes ERR_OTHER.
ReadGeodesics(r) ==
  /\ pc[r] = "read"
  /\ \E e \in Codes :
       /\ mpival' = [mpival EXCEPT ![r] = e]
       /\ readRes' = [readRes EXCEPT ![r] = e]
  /\ pc' = [pc EXCEPT ![r] = "chain"]
  /\ UNCHANGED <<result, file, model, heap, mpiall, count, bytes, chan, bc, openRes, closeRes, inputGiven>>

\* Variant of Chain in which rank 0 also waits for a predecessor's error.
ChainRecvAll(r) ==
  /\ pc[r] = "chain"
  /\ chan[r] # None
  /\ LET all == chan[r]
         val == IF all # Success THEN all ELSE mpival[r]
     IN /\ mpiall' = [mpiall EXCEPT ![r] = all]
        /\ mpival' = [mpival EXCEPT ![r] = val]
        /\ chan' = IF r # Last THEN [chan EXCEPT ![r + 1] = val] ELSE chan
  /\ pc' = [pc EXCEPT ![r] = "bcast3"]
  /\ UNCHANGED <<result, file, model, heap, count, bytes, readRes, bc, openRes, closeRes, inputGiven>>

\* Receive the predecessor's error (all ranks but 0), let it replace our
\* own, and send the result to the successor (all ranks but the last).  The
\* one-int standard-mode send is buffered.
Chain(r) ==
  /\ pc[r] = "chain"
  /\ r # 0 => chan[r] # None
  /\ LET all == IF r # 0 THEN chan[r] ELSE mpiall[r]
         val == IF all # Success THEN all ELSE mpival[r]
     IN /\ mpiall' = [mpiall EXCEPT ![r] = all]
        /\ mpival' = [mpival EXCEPT ![r] = val]
        /\ chan' = IF r # Last THEN [chan EXCEPT ![r + 1] = val] ELSE chan
  /\ pc' = [pc EXCEPT ![r] = "bcast3"]
  /\ UNCHANGED <<result, file, model, heap, count, bytes, readRes, bc, openRes, closeRes, inputGiven>>

\* Variant of Bcast3 whose error path closes the file but does not destroy
\* the model.
Bcast3NoDestroy(r) ==
  /\ pc[r] = "bcast3"
  /\ BcastValue(3, Last, r, mpiall[r])
  /\ LET v == RootVal(3, Last, r, mpiall[r])
     IN /\ mpiall' = [mpiall EXCEPT ![r] = v]
        /\ IF v # Success
             THEN /\ Return(r, "null") /\ file' = [file EXCEPT ![r] = "closed"]
                  /\ UNCHANGED <<model, heap>>
             ELSE pc' = [pc EXCEPT ![r] = "close"] /\ UNCHANGED <<result, file, model, heap>>
  /\ UNCHANGED <<mpival, count, bytes, readRes, chan, openRes, closeRes, inputGiven>>

\* Variant of Bcast3 in which each rank decides on its own mpiall, as if
\* the broadcast from the last rank were left out.
Bcast3Local(r) ==
  /\ pc[r] = "bcast3"
  /\ UNCHANGED bc
  /\ IF mpiall[r] # Success
       THEN /\ Return(r, "null") /\ file' = [file EXCEPT ![r] = "closed"]
            /\ Destroy(r)
       ELSE pc' = [pc EXCEPT ![r] = "close"] /\ UNCHANGED <<result, file, model, heap>>
  /\ UNCHANGED <<mpiall, mpival, count, bytes, readRes, chan, openRes, closeRes, inputGiven>>

\* The broadcast of mpiall from the last rank; on an error every rank
\* closes the file, destroys the model and returns NULL.
Bcast3(r) ==
  /\ pc[r] = "bcast3"
  /\ BcastValue(3, Last, r, mpiall[r])
  /\ LET v == RootVal(3, Last, r, mpiall[r])
     IN /\ mpiall' = [mpiall EXCEPT ![r] = v]
        /\ IF v # Success
             THEN /\ Return(r, "null") /\ file' = [file EXCEPT ![r] = "closed"]
                  /\ Destroy(r)
             ELSE pc' = [pc EXCEPT ![r] = "close"] /\ UNCHANGED <<result, file, model, heap>>
  /\ UNCHANGED <<mpival, count, bytes, readRes, chan, openRes, closeRes, inputGiven>>

\* The collective close; if it fails the model is destroyed and NULL is
\* returned, else the model is.
Close(r) ==
  /\ pc[r] = "close"
  /\ \E c \in IF closeRes = None THEN {Success, ErrIO} ELSE {closeRes} :
       /\ closeRes' = c
       /\ mpival' = [mpival EXCEPT ![r] = c]
       /\ IF c # Success
            THEN /\ Return(r, "null") /\ file' = [file EXCEPT ![r] = "closefailed"]
                 /\ Destroy(r)
            ELSE /\ Return(r, "model") /\ file' = [file EXCEPT ![r] = "closed"]
                 /\ UNCHANGED <<model, heap>>
  /\ UNCHANGED <<mpiall, count, bytes, readRes, chan, bc, openRes, inputGiven>>

\* Every rank has returned.
Done == \A r \in Ranks : pc[r] = "done"

Step(r) ==
  \/ Open(r)
  \/ ReadCount(r)
  \/ Bcast1(r)
  \/ Bcast2(r)
  \/ ReadGeodesics(r)
  \/ Chain(r)
  \/ Bcast3(r)
  \/ Close(r)

Next == (\E r \in Ranks : Step(r)) \/ (Done /\ UNCHANGED vars)

\* Each rank is one thread that keeps executing; MPI delivers posted
\* broadcasts and buffered sends.
Fairness == WF_vars(\E r \in Ranks : Step(r))

Spec == Init /\ [][Next]_vars /\ Fairness

-----------------------------------------------------------------------------
(***************************************************************************)
(* Properties                                                              *)
(***************************************************************************)

\* Type invariant; local_int_bytes is a non-negative int, as the
\* P4EST_ASSERT after its conversion requires.
TypeOK ==
  /\ result \in [Ranks -> {"pending", "null", "model"}]
  /\ file \in [Ranks -> {"none", "open", "closed", "closefailed"}]
  /\ model \in [Ranks -> {"none", "alloc", "freed"}]
  /\ heap \in [Ranks -> SUBSET SphereAllocs]
  /\ mpiall \in [Ranks -> Codes] /\ mpival \in [Ranks -> Codes]
  /\ chan \in [Ranks -> Codes \cup {None}]
  /\ bytes \in [Ranks -> 0..IntMax]

\* All ranks that have returned agree on whether the model was loaded:
\* the call is collective, and a rank returning the model while another
\* returns NULL leaves the two in different collectives.  Per-rank read
\* errors make this depend on the error chain and the last broadcast.
ResultAgreement ==
  \A r, q \in Ranks :
    result[r] # "pending" /\ result[q] # "pending" => result[r] = result[q]

\* On every return path the file is no longer open, and every allocation
\* of the model is live when the model is returned and freed when NULL is
\* (the cleanup at each early return, and destroy_data freeing the
\* geodesics).
ResourcesReleased ==
  \A r \in Ranks : result[r] # "pending" =>
    /\ file[r] # "open"
    /\ (model[r] = "alloc") <=> (result[r] = "model")
    /\ heap[r] = IF result[r] = "model" THEN SphereAllocs ELSE {}

\* Every rank returns: no rank waits forever in a broadcast or in the Recv
\* of the error chain.
Termination == <>Done

\* A rank whose geodesic read failed has no valid geodesics, so no rank
\* returns a model (what the error chain and the comment "broadcast the read
\* error from the last rank" are for).
ReadErrorReported ==
  (\E r \in Ranks : readRes[r] \in {ErrIO, ErrOther}) =>
    \A q \in Ranks : result[q] # "model"

\* A rank that allocated the model reads exactly global_num_points
\* geodesics' worth of bytes (what the overflow check at line 553 is for).
BytesExact ==
  \A r \in Ranks : model[r] # "none" => bytes[r] = count[r] * GeosegSize
=============================================================================
