------------------------------ MODULE MCAdminAPI ------------------------------
(* Instances of AdminAPI for TLC. *)
EXTENDS AdminAPI, TLC

\* Nodes and objects are interchangeable; no safety property names one.
Interchangeable == Permutations(Node) \cup Permutations(Object)
=============================================================================
