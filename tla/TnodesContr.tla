----------------------------- MODULE TnodesContr -----------------------------
(***************************************************************************)
(* node_register in p4est_tnodes.c on one node under construction: the     *)
(* contributor array cnode->contr, the owner reference into it, and the    *)
(* element slots of the local rank that it fills.  The traversal calls it  *)
(* once per (rank, element, position) that touches the node, in an order   *)
(* the iterator chooses; every such order is explored.                     *)
(*                                                                         *)
(* The owner is kept as an index into contr.  In the C code it is a        *)
(* pointer, which sc_array_push may invalidate; the code therefore         *)
(* recomputes it after every push, which this module follows.              *)
(***************************************************************************)
EXTENDS Integers, Sequences, FiniteSets

CONSTANTS
  Ranks,      \* the process ranks (0 .. mpisize-1)
  MyRank,     \* me->mpirank
  Les,        \* local element / ghost numbers used by the contributions
  Positions,  \* node positions within an element (nodene)
  NoRank      \* the owner rank of a node that has no contributor yet

ASSUME MyRank \in Ranks /\ NoRank \notin Ranks

VARIABLES
  contr,      \* cnode->contr: sequence of [nodene, rank, le]
  owner,      \* index of cnode->owner in contr, 0 while it is NULL
  slots,      \* element_nodes entries of the local rank set to this node
  called      \* history: the (rank, le, nodene) calls made so far

vars == <<contr, owner, slots, called>>

Contr == [nodene : Positions, rank : Ranks, le : Les]

Init ==
  /\ contr = <<>>
  /\ owner = 0
  /\ slots = {}
  /\ called = {}

\* (le, nodene) of a contributor entry precedes (le, nodene).
Smaller(le, nodene, c) == le < c.le \/ (le = c.le /\ nodene < c.nodene)

\* The rescan after a push: the first index of minimal rank among the entries
\* 0 .. siz-2 (all but the one just pushed), starting from index 0.
RescanOwner(cs) ==
  CHOOSE i \in 1..Len(cs) - 1 :
    /\ \A j \in 1..Len(cs) - 1 : cs[i].rank <= cs[j].rank
    /\ \A j \in 1..i - 1 : cs[j].rank > cs[i].rank

\* Variant of NewOwner that takes index 0 after the push without the rescan
\* loop; ContrSetRefined fails under it.
NewOwnerNoRescan(r) ==
  IF owner = 0 \/ r <= contr[owner].rank THEN Len(contr) + 1 ELSE 1

\* The new owner index after pushing a contributor of rank r.
NewOwner(r) ==
  IF owner = 0 \/ r <= contr[owner].rank
    THEN Len(contr) + 1
    ELSE RescanOwner(Append(contr, [nodene |-> 0, rank |-> r, le |-> 0]))

\* Variant of NodeRegister whose search for the calling rank looks at the
\* owner entry only; TypeOK fails under it.
NodeRegisterOwnerOnly(r, le, nodene) ==
  /\ <<r, le, nodene>> \notin called
  /\ called' = called \cup {<<r, le, nodene>>}
  /\ slots' = IF r = MyRank THEN slots \cup {<<le, nodene>>} ELSE slots
  /\ IF owner # 0 /\ contr[owner].rank = r
       THEN /\ contr' = IF Smaller(le, nodene, contr[owner])
                          THEN [contr EXCEPT ![owner] = [nodene |-> nodene, rank |-> r, le |-> le]]
                          ELSE contr
            /\ owner' = owner
       ELSE /\ contr' = Append(contr, [nodene |-> nodene, rank |-> r, le |-> le])
            /\ owner' = NewOwner(r)

\* node_register(me, lni, rank, le, nodene, bcon): the first call creates
\* the node with an empty contributor array, a local call fills its element
\* slot, a rank already present keeps its smallest (le, nodene), and a new
\* rank is appended with the owner recomputed.
NodeRegister(r, le, nodene) ==
  /\ <<r, le, nodene>> \notin called
  /\ called' = called \cup {<<r, le, nodene>>}
  /\ slots' = IF r = MyRank THEN slots \cup {<<le, nodene>>} ELSE slots
  /\ IF \E i \in 1..Len(contr) : contr[i].rank = r
       THEN LET i == CHOOSE k \in 1..Len(contr) : contr[k].rank = r
            IN /\ contr' = IF Smaller(le, nodene, contr[i])
                             THEN [contr EXCEPT ![i] = [nodene |-> nodene, rank |-> r, le |-> le]]
                             ELSE contr
               /\ owner' = owner
       ELSE /\ contr' = Append(contr, [nodene |-> nodene, rank |-> r, le |-> le])
            /\ owner' = NewOwner(r)

Next == \E r \in Ranks, le \in Les, p \in Positions : NodeRegister(r, le, p)

Spec == Init /\ [][Next]_vars

-----------------------------------------------------------------------------
(***************************************************************************)
(* Properties                                                              *)
(***************************************************************************)

\* Type invariant; the contributor array holds at most one entry per rank,
\* since node_register appends a rank only when its search loop missed it.
TypeOK ==
  /\ contr \in Seq(Contr)
  /\ owner \in 0..Len(contr)
  /\ (owner = 0) <=> (contr = <<>>)
  /\ slots \subseteq Les \X Positions
  /\ \A i, j \in 1..Len(contr) : i # j => contr[i].rank # contr[j].rank

\* The contributor array implements ContrSet: after any order of
\* node_register calls it records, per referring rank, the smallest
\* (le, nodene) that rank referred from, and the owner entry is the one of
\* the smallest referring rank (what check_node asserts and what
\* owned_query_reply relies on when it elects the owner).
Abs == INSTANCE ContrSet WITH
         refs <- [q \in {contr[i].rank : i \in 1..Len(contr)} |->
                    LET i == CHOOSE k \in 1..Len(contr) : contr[k].rank = q
                    IN <<contr[i].le, contr[i].nodene>>],
         own  <- IF owner = 0 THEN NoRank ELSE contr[owner].rank

ContrSetRefined == Abs!Spec
=============================================================================
