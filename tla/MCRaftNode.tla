---------------------------- MODULE MCRaftNode -----------------------------
(***************************************************************************)
(* Instances of RaftNode for TLC: three nodes, as in create_raft_peers.    *)
(***************************************************************************)
EXTENDS RaftNode, TLC

\* Zero is the default hint of a reply.  Where every node may stand, nothing
\* tells the two others apart.
NodeSymmetry == Permutations(Node \ {Zero})

=============================================================================
