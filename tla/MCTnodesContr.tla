---------------------------- MODULE MCTnodesContr ----------------------------
(* Three ranks, the local one in the middle, two elements and two positions *)
(* per rank: every order of up to twelve node_register calls on one node.  *)
EXTENDS TnodesContr

MCRanks == 0..2
MCLes == 0..1
MCPositions == 0..1
=============================================================================
