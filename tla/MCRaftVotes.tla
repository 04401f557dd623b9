----------------------------- MODULE MCRaftVotes -----------------------------
(* Instances of RaftVotes for TLC. *)
EXTENDS RaftVotes
=============================================================================
