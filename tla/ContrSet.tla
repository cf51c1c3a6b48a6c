------------------------------ MODULE ContrSet ------------------------------
(***************************************************************************)
(* What the contributor list of one node under construction promises       *)
(* (tnodes_cnode_t in p4est_tnodes.c), stated without the array: for every *)
(* rank that referenced the node, the smallest (element, position) pair    *)
(* it referenced it from, and as owner the smallest referring rank.        *)
(***************************************************************************)
EXTENDS Integers

CONSTANTS Ranks, Les, Positions, NoRank

VARIABLES refs, own

vars == <<refs, own>>

\* Lexicographic order on (le, nodene) pairs.
Below(a, b) == a[1] < b[1] \/ (a[1] = b[1] /\ a[2] < b[2])

Init == refs = <<>> /\ own = NoRank

\* Rank r references the node from position p of its element le.
Refer(r, le, p) ==
  LET refs1 == IF r \in DOMAIN refs
                 THEN [refs EXCEPT ![r] = IF Below(<<le, p>>, @) THEN <<le, p>> ELSE @]
                 ELSE [q \in DOMAIN refs \cup {r} |-> IF q = r THEN <<le, p>> ELSE refs[q]]
  IN /\ refs' = refs1
     /\ own' = CHOOSE q \in DOMAIN refs1 : \A o \in DOMAIN refs1 : q <= o

Next == \E r \in Ranks, le \in Les, p \in Positions : Refer(r, le, p)

Spec == Init /\ [][Next]_vars
=============================================================================
