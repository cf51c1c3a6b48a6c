---------------------------- MODULE TnodesExchange ----------------------------
(***************************************************************************)
(* The distributed numbering of p4est_tnodes_new (p4est_tnodes.c) after    *)
(* the traversal: every rank elects owners (owned_query_reply), posts its  *)
(* first messages (post_query_reply), sorts its owned nodes and takes part *)
(* in the Allgather of owned counts (sort_allgather), orders its peers     *)
(* (sort_peers), drives its query/reply requests with MPI_Waitsome         *)
(* (wait_query_reply), and finally rewrites the element slots              *)
(* (assign_element_nodes) and fills the sharer lists (populate_sharers).   *)
(*                                                                         *)
(* The forest is given by ElemNode: for each rank, the node that each of   *)
(* its local element slots <<le, nodene>> refers to.  The contributor set  *)
(* of a node is every rank with a slot on it, each rank keeping its        *)
(* smallest slot (node_register, see TnodesContr); each rank sees the      *)
(* complete contributor set of every node it touches (a full ghost layer). *)
(* Construct[r] is the order in which the traversal on r created its nodes *)
(* (the construct array).  Messages are records in the set net; MPI        *)
(* delivers them reliably and a posted send may complete at any time.      *)
(***************************************************************************)
EXTENDS Integers, SequencesExt

CONSTANTS
  NumRanks,        \* mpisize
  Nodes,           \* the geometric nodes of the triangle mesh
  V,               \* ln->vnodes: 9, or 25 with faces
  ElemNode,        \* [rank -> [<<le, nodene>> -> node]] local element slots
  Construct,       \* [rank -> Seq(Nodes)] order of me->construct on each rank
  ContrOrder(_, _) \* ContrOrder(r, n): ranks of cnode->contr of n on r, in order

Ranks == 0..NumRanks - 1

VARIABLES
  pc,              \* position of each rank in p4est_tnodes_new
  runid,           \* [rank -> [construct node -> cnode->runid]]
  elemNodes,       \* [rank -> [0..ne*V-1 -> ln->element_nodes entry]]
  numOwned,        \* me->num_owned
  numOwnedShared,  \* me->num_owned_shared
  numShared,       \* me->num_shared
  ownsort,         \* me->ownsort as a sequence of nodes
  peers,           \* ranks with a tnodes_peer_t on each rank
  peer,            \* [rank -> [rank -> peer record]]
  emptypeers,      \* me->emptypeers
  nwtotal,         \* requests still to finish in wait_query_reply
  gathered,        \* owned counts contributed to the Allgather, -1 before
  goffset,         \* [rank -> [0..NumRanks -> me->goffset]]
  nonlocal,        \* [rank -> Seq(ln->nonlocal_nodes)]
  sharers,         \* [rank -> [sharer rank -> p4est_lnodes_rank_t]]
  net              \* messages sent and not yet received

vars == <<pc, runid, elemNodes, numOwned, numOwnedShared, numShared, ownsort,
          peers, peer, emptypeers, nwtotal, gathered, goffset, nonlocal,
          sharers, net>>

-----------------------------------------------------------------------------
(* The forest as the traversal leaves it. *)

Slots(r) == DOMAIN ElemNode[r]
NumElems(r) == IF Slots(r) = {} THEN 0 ELSE Max({s[1] : s \in Slots(r)}) + 1
CNodes(r) == ToSet(Construct[r])

\* The ranks contributing to each node (constant, evaluated once).
ContribOf == [n \in Nodes |-> {q \in Ranks : n \in Range(ElemNode[q])}]
Contrib(n) == ContribOf[n]

\* The elements of a finite set S in the order Less, which is total on S.
OrderedSeq(S, Less(_, _)) ==
  [i \in 1..Cardinality(S) |-> CHOOSE x \in S : Cardinality({y \in S : Less(y, x)}) = i - 1]

\* (le, nodene) order of cnode_compare.
Below(a, b) == a[1] < b[1] \/ (a[1] = b[1] /\ a[2] < b[2])

\* The slot a rank keeps for a node: its smallest (le, nodene) on it.
RefSlotOf ==
  [q \in Ranks |-> [n \in Range(ElemNode[q]) |->
     CHOOSE s \in Slots(q) : ElemNode[q][s] = n /\
       \A t \in Slots(q) : ElemNode[q][t] = n => (s = t \/ Below(s, t))]]
RefSlot(q, n) == RefSlotOf[q][n]

\* cnode->owner->rank: the smallest contributing rank.
OwnerOf == [n \in Nodes |-> Min(Contrib(n))]
Owner(n) == OwnerOf[n]

\* The query position owner->le * vnodes + owner->nodene.
EPos(n) == RefSlot(Owner(n), n)[1] * V + RefSlot(Owner(n), n)[2]

\* The construct index (local node number during traversal) of n on r.
LniOf == [r \in Ranks |-> [n \in CNodes(r) |->
            (CHOOSE i \in DOMAIN Construct[r] : Construct[r][i] = n) - 1]]
Lni(r, n) == LniOf[r][n]

NoPeer == [bufcount |-> 0, passive |-> 0, querypos |-> <<>>, sharedno |-> <<>>,
           remosort |-> <<>>, done |-> 0, shacumul |-> 0, active |-> FALSE]

Init ==
  /\ pc = [r \in Ranks |-> "owned"]
  /\ runid = [r \in Ranks |-> [n \in CNodes(r) |-> Lni(r, n)]]
  /\ elemNodes = [r \in Ranks |-> [k \in 0..NumElems(r) * V - 1 |->
                    IF <<k \div V, k % V>> \in Slots(r)
                      THEN Lni(r, ElemNode[r][<<k \div V, k % V>>]) ELSE -1]]
  /\ numOwned = [r \in Ranks |-> 0]
  /\ numOwnedShared = [r \in Ranks |-> 0]
  /\ numShared = [r \in Ranks |-> 0]
  /\ ownsort = [r \in Ranks |-> <<>>]
  /\ peers = [r \in Ranks |-> {}]
  /\ peer = [r \in Ranks |-> [q \in Ranks |-> NoPeer]]
  /\ emptypeers = [r \in Ranks |-> 0]
  /\ nwtotal = [r \in Ranks |-> 0]
  /\ gathered = [r \in Ranks |-> -1]
  /\ goffset = [r \in Ranks |-> [q \in 0..NumRanks |-> 0]]
  /\ nonlocal = [r \in Ranks |-> <<>>]
  /\ sharers = [r \in Ranks |-> <<>>]
  /\ net = {}

Goto(r, from, to) == pc[r] = from /\ pc' = [pc EXCEPT ![r] = to]

-----------------------------------------------------------------------------
(* owned_query_reply *)

\* Nodes of r that r owns, in construct order.
OwnedBy(r) == SelectSeq(Construct[r], LAMBDA n : Owner(n) = r)
\* Nodes that r shares and q owns, in construct order: r queries q for them.
Queried(r, q) == SelectSeq(Construct[r], LAMBDA n : r \in Contrib(n) /\ Owner(n) = q)
\* Number of owned nodes of r that q shares: r will reply to q for them.
Replies(r, q) == Cardinality({n \in CNodes(r) : Owner(n) = r /\ q \in Contrib(n) /\ q # r})
\* Number of nodes r shares with q that a third rank owns.
Passive(r, q) == Cardinality({n \in CNodes(r) : r \in Contrib(n) /\ q \in Contrib(n) /\
                                              Owner(n) \notin {r, q}})

\* Variant of PeerSet whose passive count omits the test that the contributor
\* is not the local rank, so that r becomes a peer of itself.
PeerSetWithSelf(r) == {q \in Ranks : Replies(r, q) + Len(Queried(r, q)) + Passive(r, q) > 0}

\* The peers created by peer_access during the pass: every other rank that
\* r replies to, queries, or shares a node with that a third rank owns.
PeerSet(r) == {q \in Ranks \ {r} : Replies(r, q) + Len(Queried(r, q)) + Passive(r, q) > 0}

\* Variant of BufCount that also counts the nodes shared passively with q.
BufCountWithPassive(r, q) == Replies(r, q) + Len(Queried(r, q)) + Passive(r, q)

\* bufcount of peer q: one peer_add_reply per owned node q shares, one
\* peer_add_query per node q owns (one of the two is zero).
BufCount(r, q) == Replies(r, q) + Len(Queried(r, q))

\* One pass over the construct array: collect owned nodes, count replies,
\* weed out nodes without a local contributor, count passive shares, queue a
\* query to the owner of every other node, and reset all runids to -1.
OwnedQueryReply(r) ==
  LET P == PeerSet(r)
  IN /\ Goto(r, "owned", "post")
     /\ ownsort' = [ownsort EXCEPT ![r] = OwnedBy(r)]
     /\ numOwned' = [numOwned EXCEPT ![r] = Len(OwnedBy(r))]
     /\ numOwnedShared' = [numOwnedShared EXCEPT ![r] =
          Cardinality({n \in ToSet(OwnedBy(r)) : Cardinality(Contrib(n)) > 1})]
     /\ numShared' = [numShared EXCEPT ![r] =
          Cardinality({n \in CNodes(r) : r \in Contrib(n) /\ Owner(n) # r})]
     /\ peers' = [peers EXCEPT ![r] = P]
     /\ peer' = [peer EXCEPT ![r] = [q \in Ranks |->
          IF q \notin P THEN NoPeer
          ELSE [NoPeer EXCEPT !.bufcount = BufCount(r, q),
                              !.passive = Passive(r, q),
                              !.querypos = [i \in DOMAIN Queried(r, q) |-> EPos(Queried(r, q)[i])],
                              !.sharedno = [i \in DOMAIN Queried(r, q) |-> Lni(r, Queried(r, q)[i])],
                              !.remosort = Queried(r, q)]]]
     /\ runid' = [runid EXCEPT ![r] = [n \in CNodes(r) |-> -1]]
     /\ UNCHANGED <<elemNodes, emptypeers, nwtotal, gathered, goffset, nonlocal, sharers, net>>

-----------------------------------------------------------------------------
(* post_query_reply *)

\* For every peer with a nonempty buffer: a higher rank gets an Irecv for its
\* query (done = 1), a lower rank gets our query by Isend (done = 3).  Peers
\* that are only passive get MPI_REQUEST_NULL and are counted as empty.
PostQueryReply(r) ==
  LET Empty == {q \in peers[r] : peer[r][q].bufcount = 0}
      Busy == peers[r] \ Empty
  IN /\ Goto(r, "post", "sort")
     /\ peer' = [peer EXCEPT ![r] = [q \in Ranks |->
          IF q \in Busy
            THEN [peer[r][q] EXCEPT !.done = IF q > r THEN 1 ELSE 3, !.active = TRUE]
            ELSE peer[r][q]]]
     /\ net' = net \cup {[src |-> r, dst |-> q, tag |-> "query", data |-> peer[r][q].querypos] :
                         q \in {p \in Busy : p < r}}
     /\ emptypeers' = [emptypeers EXCEPT ![r] = Cardinality(Empty)]
     /\ UNCHANGED <<runid, elemNodes, numOwned, numOwnedShared, numShared, ownsort,
                    peers, nwtotal, gathered, goffset, nonlocal, sharers>>

-----------------------------------------------------------------------------
(* sort_allgather *)

\* Variant of SortedRunids that numbers the owned nodes from one.
SortedRunidsFromOne(r, sorted) ==
  [n \in CNodes(r) |->
     IF \E i \in DOMAIN sorted : sorted[i] = n
       THEN CHOOSE i \in DOMAIN sorted : sorted[i] = n
       ELSE runid[r][n]]

\* runid of the owned nodes once sorted: their index in the sorted list.
SortedRunids(r, sorted) ==
  [n \in CNodes(r) |->
     IF \E i \in DOMAIN sorted : sorted[i] = n
       THEN (CHOOSE i \in DOMAIN sorted : sorted[i] = n) - 1
       ELSE runid[r][n]]

\* Sort the owned nodes by their owner slot, number them 0 .. num_owned-1,
\* allocate nonlocal_nodes and contribute num_owned to the Allgather.
SortAllgather(r) ==
  LET sorted == SortSeq(ownsort[r], LAMBDA a, b : Below(RefSlot(r, a), RefSlot(r, b)))
  IN /\ Goto(r, "sort", "allgather")
     /\ ownsort' = [ownsort EXCEPT ![r] = sorted]
     /\ runid' = [runid EXCEPT ![r] = SortedRunids(r, sorted)]
     /\ nonlocal' = [nonlocal EXCEPT ![r] = [i \in 1..numShared[r] |-> -1]]
     /\ gathered' = [gathered EXCEPT ![r] = numOwned[r]]
     /\ UNCHANGED <<elemNodes, numOwned, numOwnedShared, numShared, peers, peer,
                    emptypeers, nwtotal, goffset, sharers, net>>

\* Variant of GOffsets whose scan includes the rank's own count.
GOffsetsInclusive == [q \in 0..NumRanks |-> SumFunctionOnSet(gathered, {p \in Ranks : p <= q})]

\* The exclusive scan of the gathered owned counts: global_offsets[q] is the
\* number of nodes owned by the ranks below q.
GOffsets == [q \in 0..NumRanks |-> SumFunctionOnSet(gathered, {p \in Ranks : p < q})]

\* The Allgather returns once every rank has contributed; the counts are
\* scanned into the global offsets.
AllgatherDone(r) ==
  /\ Goto(r, "allgather", "sortpeers")
  /\ \A q \in Ranks : gathered[q] >= 0
  /\ goffset' = [goffset EXCEPT ![r] = GOffsets]
  /\ UNCHANGED <<runid, elemNodes, numOwned, numOwnedShared, numShared, ownsort,
                 peers, peer, emptypeers, nwtotal, gathered, nonlocal, sharers, net>>

-----------------------------------------------------------------------------
(* sort_peers *)

\* Each peer learns how many non-owned nodes precede its own (shacumul),
\* counting the buffers of lower-ranked peers only, and the sharer array is
\* laid out for all peers and the local rank (memset to -1).
SortPeers(r) ==
  /\ Goto(r, "sortpeers", "wait")
  /\ IF peers[r] = {}
       THEN UNCHANGED <<peer, sharers>>
       ELSE
         /\ peer' = [peer EXCEPT ![r] = [q \in Ranks |->
              [peer[r][q] EXCEPT !.shacumul =
                 SumFunctionOnSet([p \in Ranks |-> peer[r][p].bufcount],
                                  {p \in peers[r] : p < q /\ p < r})]]]
         /\ sharers' = [sharers EXCEPT ![r] = [q \in peers[r] \cup {r} |->
              [nodes |-> <<>>, owned_offset |-> -1, owned_count |-> -1,
               shared_mine_offset |-> -1, shared_mine_count |-> -1]]]
  /\ UNCHANGED <<runid, elemNodes, numOwned, numOwnedShared, numShared, ownsort,
                 peers, emptypeers, nwtotal, gathered, goffset, nonlocal, net>>

-----------------------------------------------------------------------------
(* wait_query_reply *)

\* Variant of WaitBegin that waits for every peer, the purely passive ones
\* (whose requests are MPI_REQUEST_NULL) included.
WaitBeginAllPeers(r) ==
  /\ pc[r] = "wait"
  /\ IF peers[r] = {}
       THEN pc' = [pc EXCEPT ![r] = "assign"] /\ UNCHANGED nwtotal
       ELSE /\ pc' = [pc EXCEPT ![r] = "waitloop"]
            /\ nwtotal' = [nwtotal EXCEPT ![r] = Cardinality(peers[r])]
  /\ UNCHANGED <<runid, elemNodes, numOwned, numOwnedShared, numShared, ownsort,
                 peers, peer, emptypeers, gathered, goffset, nonlocal, sharers, net>>

\* Entry: nothing to do without peers, else wait for every non-empty peer.
WaitBegin(r) ==
  /\ pc[r] = "wait"
  /\ IF peers[r] = {}
       THEN pc' = [pc EXCEPT ![r] = "assign"] /\ UNCHANGED nwtotal
       ELSE /\ pc' = [pc EXCEPT ![r] = "waitloop"]
            /\ nwtotal' = [nwtotal EXCEPT ![r] = Cardinality(peers[r]) - emptypeers[r]]
  /\ UNCHANGED <<runid, elemNodes, numOwned, numOwnedShared, numShared, ownsort,
                 peers, peer, emptypeers, gathered, goffset, nonlocal, sharers, net>>

SetPeer(r, q, p) == peer' = [peer EXCEPT ![r][q] = p]
Finish(r) == nwtotal' = [nwtotal EXCEPT ![r] = @ - 1]
Msg(src, dst, tag) == {m \in net : m.src = src /\ m.dst = dst /\ m.tag = tag}

\* A received message whose length differs from the posted count is fatal:
\* longer is MPI_ERR_TRUNCATE under SC_CHECK_MPI, shorter leaves entries of
\* the buffer uninitialised that the loop then reads.
Fault(r) == pc' = [pc EXCEPT ![r] = "abort"]

\* Variant of AnswerOf that replies with the local node index instead of
\* the node's runid.
AnswerOfLni(r, epos) == elemNodes[r][epos]

\* The owner's answer to query position epos: the node in element slot epos
\* and its runid, which sort_allgather has made the owned number.
AnswerOf(r, epos) == runid[r][Construct[r][elemNodes[r][epos] + 1]]

\* The query of higher rank q arrived: translate each position through
\* element_nodes into our owned runid and Isend the reply in place.
RecvQuery(r, q) ==
  /\ q > r /\ peer[r][q].done = 1
  /\ \E m \in Msg(q, r, "query") :
       LET reply == [i \in DOMAIN m.data |-> AnswerOf(r, m.data[i])]
       IN IF Len(m.data) # peer[r][q].bufcount
            THEN Fault(r) /\ net' = net \ {m} /\ UNCHANGED <<peer, nwtotal>>
            ELSE /\ net' = (net \ {m}) \cup
                          {[src |-> r, dst |-> q, tag |-> "reply", data |-> reply]}
                 /\ SetPeer(r, q, [peer[r][q] EXCEPT !.querypos = reply, !.done = 2])
                 /\ UNCHANGED <<pc, nwtotal>>
  /\ UNCHANGED <<runid, nonlocal>>

\* Our reply to higher rank q has been sent.
ReplySent(r, q) ==
  /\ q > r /\ peer[r][q].done = 2
  /\ SetPeer(r, q, [peer[r][q] EXCEPT !.done = 0, !.active = FALSE])
  /\ Finish(r)
  /\ UNCHANGED <<pc, runid, nonlocal, net>>

\* Our query to lower rank q has been sent: post the Irecv of the reply into
\* the same buffer.
QuerySent(r, q) ==
  /\ q < r /\ peer[r][q].done = 3
  /\ SetPeer(r, q, [peer[r][q] EXCEPT !.done = 4])
  /\ UNCHANGED <<pc, runid, nonlocal, nwtotal, net>>

\* Variant of ReplyOrder that keeps the peer's nodes in query order.
ReplyOrderUnsorted(p, rid1) == p.remosort

\* rnode_compare: the peer's nodes ordered by the owner's runids received.
ReplyOrder(p, rid1) == SortSeq(p.remosort, LAMBDA a, b : rid1[a] < rid1[b])

\* The reply of lower rank q arrived: the i-th entry is the owner's runid of
\* the node queried i-th; sort the peer's nodes by it, store their global
\* numbers after the shacumul nodes of lower peers and give them their
\* final local numbers num_owned + shacumul + i.
RecvReply(r, q) ==
  /\ q < r /\ peer[r][q].done = 4
  /\ \E m \in Msg(q, r, "reply") :
       LET p == peer[r][q]
           rid1 == [n \in CNodes(r) |->
                      IF \E i \in DOMAIN p.sharedno : p.sharedno[i] = Lni(r, n)
                        THEN m.data[CHOOSE i \in DOMAIN p.sharedno : p.sharedno[i] = Lni(r, n)]
                        ELSE runid[r][n]]
           sorted == ReplyOrder(p, rid1)
       IN IF Len(m.data) # p.bufcount
            THEN Fault(r) /\ net' = net \ {m} /\ UNCHANGED <<peer, nwtotal, runid, nonlocal>>
            ELSE
              /\ net' = net \ {m}
              /\ nonlocal' = [nonlocal EXCEPT ![r] = [k \in DOMAIN @ |->
                   IF p.shacumul < k /\ k <= p.shacumul + p.bufcount
                     THEN goffset[r][q] + rid1[sorted[k - p.shacumul]]
                     ELSE @[k]]]
              /\ runid' = [runid EXCEPT ![r] = [n \in CNodes(r) |->
                   IF \E i \in DOMAIN sorted : sorted[i] = n
                     THEN numOwned[r] + p.shacumul + (CHOOSE i \in DOMAIN sorted : sorted[i] = n) - 1
                     ELSE rid1[n]]]
              /\ SetPeer(r, q, [p EXCEPT !.querypos = m.data, !.remosort = sorted,
                                         !.done = 0, !.active = FALSE])
              /\ Finish(r)
              /\ UNCHANGED pc

\* One completion returned by MPI_Waitsome.  With no active request left it
\* returns MPI_UNDEFINED and SC_CHECK_ABORT stops the program.
Waitsome(r) ==
  /\ pc[r] = "waitloop"
  /\ nwtotal[r] > 0
  /\ IF \E q \in peers[r] : peer[r][q].active
       THEN \E q \in peers[r] :
              /\ peer[r][q].active
              /\ \/ RecvQuery(r, q)
                 \/ ReplySent(r, q)
                 \/ QuerySent(r, q)
                 \/ RecvReply(r, q)
       ELSE Fault(r) /\ UNCHANGED <<runid, peer, nwtotal, nonlocal, net>>
  /\ UNCHANGED <<elemNodes, numOwned, numOwnedShared, numShared, ownsort, peers,
                 emptypeers, gathered, goffset, sharers>>

\* The loop ends when every non-empty peer is done.
WaitEnd(r) ==
  /\ Goto(r, "waitloop", "assign")
  /\ nwtotal[r] = 0
  /\ UNCHANGED <<runid, elemNodes, numOwned, numOwnedShared, numShared, ownsort,
                 peers, peer, emptypeers, nwtotal, gathered, goffset, nonlocal, sharers, net>>

-----------------------------------------------------------------------------
(* assign_element_nodes and set_element_node *)

\* The slots visited, element by element and in the order of the
\* configuration tables (ascending positions when faces are not included).
VisitOrder(r) == OrderedSeq({s[1] * V + s[2] : s \in Slots(r)}, <)

\* set_element_node(me, le, nodene) at flat slot k: it reads the construct
\* index at element_nodes[le * vnodes + nodene] and stores the node's final
\* number at element_nodes[le].
SetElementNode(r, en, k) == [en EXCEPT ![k \div V] = runid[r][Construct[r][en[k] + 1]]]

AssignElementNodes(r) ==
  /\ Goto(r, "assign", "sharers")
  /\ elemNodes' = [elemNodes EXCEPT ![r] =
       FoldLeft(LAMBDA en, k : SetElementNode(r, en, k), elemNodes[r], VisitOrder(r))]
  /\ UNCHANGED <<runid, numOwned, numOwnedShared, numShared, ownsort, peers, peer,
                 emptypeers, nwtotal, gathered, goffset, nonlocal, sharers, net>>

-----------------------------------------------------------------------------
(* populate_sharers *)

\* Shared nodes of r that are not owned, in local-number order.
SharedIn(r) == OrderedSeq({n \in CNodes(r) : r \in Contrib(n) /\ Owner(n) # r},
                            LAMBDA a, b : runid[r][a] < runid[r][b])

\* Owned nodes are appended to the sharer of every contributor; then the
\* offsets are set; then every shared-in node is appended to the sharer
\* that the inner loop over its contributors left selected, the last one.
PopulateSharers(r) ==
  LET ownSh(q) == SelectSeq(ownsort[r], LAMBDA n : q \in Contrib(n) /\ Cardinality(Contrib(n)) > 1)
      insSh(q) == SelectSeq(SharedIn(r), LAMBDA n : Last(ContrOrder(r, n)) = q)
      own(q) == [j \in DOMAIN ownSh(q) |-> runid[r][ownSh(q)[j]]]
      ins(q) == [j \in DOMAIN insSh(q) |-> runid[r][insSh(q)[j]]]
  IN /\ Goto(r, "sharers", "done")
     /\ IF peers[r] = {}
          THEN UNCHANGED sharers
          ELSE sharers' = [sharers EXCEPT ![r] = [q \in DOMAIN @ |->
                 [nodes |-> own(q) \o ins(q),
                  shared_mine_offset |-> 0,
                  shared_mine_count |-> IF q = r THEN numOwnedShared[r] ELSE Len(own(q)),
                  owned_offset |-> IF q = r THEN 0 ELSE numOwned[r] + peer[r][q].shacumul,
                  owned_count |-> IF q = r THEN numOwned[r]
                                  ELSE IF q < r THEN peer[r][q].bufcount ELSE 0]]]
     /\ UNCHANGED <<runid, elemNodes, numOwned, numOwnedShared, numShared, ownsort,
                    peers, peer, emptypeers, nwtotal, gathered, goffset, nonlocal, net>>

-----------------------------------------------------------------------------

\* The program has returned on every rank, or one rank aborted the job.
Halt ==
  /\ (\A r \in Ranks : pc[r] = "done") \/ (\E r \in Ranks : pc[r] = "abort")
  /\ UNCHANGED vars

RankStep(r) ==
  \/ OwnedQueryReply(r)
  \/ PostQueryReply(r)
  \/ SortAllgather(r)
  \/ AllgatherDone(r)
  \/ SortPeers(r)
  \/ WaitBegin(r)
  \/ Waitsome(r)
  \/ WaitEnd(r)
  \/ AssignElementNodes(r)
  \/ PopulateSharers(r)

Next == (\E r \in Ranks : RankStep(r)) \/ Halt

\* Every rank is a single thread that keeps running its program, and MPI
\* completes every posted send and every receive whose message arrived, so
\* while some rank can move, some rank does.  (This is weaker than
\* per-rank weak fairness, which the code also justifies; since every rank
\* runs a bounded program it suffices for Termination.)
Fairness == WF_vars(\E r \in Ranks : RankStep(r))

Spec == Init /\ [][Next]_vars /\ Fairness

-----------------------------------------------------------------------------
(***************************************************************************)
(* Properties                                                              *)
(***************************************************************************)

PeerRec == [bufcount : Nat, passive : Nat, querypos : Seq(Int), sharedno : Seq(Int),
            remosort : Seq(Nodes), done : 0..4, shacumul : Nat, active : BOOLEAN]

TypeOK ==
  /\ pc \in [Ranks -> {"owned", "post", "sort", "allgather", "sortpeers", "wait",
                       "waitloop", "assign", "sharers", "done", "abort"}]
  /\ \A r \in Ranks :
       /\ runid[r] \in [CNodes(r) -> Int]
       /\ peers[r] \subseteq Ranks \ {r}
       /\ peer[r] \in [Ranks -> PeerRec]
       /\ nonlocal[r] \in Seq(Int)
       /\ goffset[r] \in [0..NumRanks -> Nat]
  /\ nwtotal \in [Ranks -> Int]
  /\ gathered \in [Ranks -> Int]
  /\ \A m \in net : m.src \in Ranks /\ m.dst \in Ranks /\ m.tag \in {"query", "reply"}

\* A rank has its final local numbers once wait_query_reply returned.
Numbered(r) == pc[r] \in {"assign", "sharers", "done"}
AllDone == \A r \in Ranks : pc[r] = "done"
Total == Cardinality(Nodes)

\* The global number a rank gives to a node it shares: its own offset plus
\* the local number when it owns the node, else the nonlocal_nodes entry.
GlobalNumber(r, n) ==
  IF runid[r][n] < numOwned[r]
    THEN goffset[r][r] + runid[r][n]
    ELSE nonlocal[r][runid[r][n] - numOwned[r] + 1]

\* Every rank that contributes to a node and has finished the exchange gives
\* it the same global number (the promise of section 8 of the spec): the
\* sharer's query position must hit the owner's node, the owner must answer
\* with its sorted runid, and the sharer must pair the i-th reply entry with
\* its i-th query and store it at its shacumul offset.
GlobalIdAgreement ==
  \A n \in Nodes : \A r1, r2 \in Contrib(n) :
    Numbered(r1) /\ Numbered(r2) => GlobalNumber(r1, n) = GlobalNumber(r2, n)

\* When all ranks have returned, the owned ranges of the Allgather tile
\* 0 .. N-1 and every node has exactly one global number in it.
GlobalNumberingBijective ==
  AllDone =>
    /\ \A r \in Ranks : goffset[r][NumRanks] = Total
    /\ {GlobalNumber(Owner(n), n) : n \in Nodes} = 0..Total - 1

\* nonlocal_nodes is strictly increasing and every entry lies in the range
\* of another rank (the checks at the end of wait_query_reply).
NonlocalOrdered ==
  \A r \in Ranks : Numbered(r) =>
    \A k \in DOMAIN nonlocal[r] :
      /\ 0 <= nonlocal[r][k] /\ nonlocal[r][k] < goffset[r][NumRanks]
      /\ ~(goffset[r][r] <= nonlocal[r][k] /\ nonlocal[r][k] < goffset[r][r + 1])
      /\ k > 1 => nonlocal[r][k - 1] < nonlocal[r][k]

\* No rank aborts: every received query or reply has the length its
\* receiver posted, and MPI_Waitsome always has a request to complete.
NoAbort == \A r \in Ranks : pc[r] # "abort"

\* The exchange terminates: every rank returns from p4est_tnodes_new
\* (no rank waits forever on a peer; lower ranks only answer).
Termination == <>AllDone

\* After assign_element_nodes every local slot holds the final local number
\* of its node (section 8 of the spec: element_nodes[e][p] in
\* [0, num_local_nodes) for every populated position).
ElementNodesFinal ==
  \A r \in Ranks : pc[r] \in {"sharers", "done"} =>
    \A s \in Slots(r) : elemNodes[r][s[1] * V + s[2]] = runid[r][ElemNode[r][s]]

\* After populate_sharers the sharer record of rank q lists exactly the
\* local numbers of the shared nodes q contributes to (section 8 of the
\* spec), for the local rank's record as well as for every peer's.
SharersExact ==
  \A r \in Ranks : pc[r] = "done" /\ peers[r] # {} =>
    \A q \in DOMAIN sharers[r] :
      ToSet(sharers[r][q].nodes) =
        {runid[r][n] : n \in {m \in CNodes(r) : r \in Contrib(m) /\ q \in Contrib(m)
                                                /\ Cardinality(Contrib(m)) > 1}}
=============================================================================
