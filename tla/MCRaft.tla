------------------------------- MODULE MCRaft -------------------------------
(* Three servers of one replication group, alike up to their names. *)
EXTENDS Raft, TLC

Symmetry == Permutations(Server)
=============================================================================
