---------------------------- MODULE MCRaftElection ----------------------------
(* Instances of RaftElection for TLC. *)
EXTENDS RaftElection, TLC

\* Servers are interchangeable; no safety property names one.
ServerSymmetry == Permutations(Server)
=============================================================================
