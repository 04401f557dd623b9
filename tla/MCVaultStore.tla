----------------------------- MODULE MCVaultStore -----------------------------
(* Instances of VaultStore for TLC. *)
EXTENDS VaultStore, TLC

\* Nodes are interchangeable; no safety property names one.
NodeSymmetry == Permutations(Node)
=============================================================================
