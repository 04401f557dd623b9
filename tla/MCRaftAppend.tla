----------------------------- MODULE MCRaftAppend -----------------------------
(* An instance of RaftAppend for TLC. *)
EXTENDS RaftAppend, TLC

\* Servers are interchangeable; no safety property names one.
ServerSymmetry == Permutations(Server)
=============================================================================
