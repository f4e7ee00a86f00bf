----------------------------- MODULE MCConsole -----------------------------
(* Instances of Console for TLC.                                            *)
EXTENDS Console, TLC

\* One operation per client: clients are interchangeable.
ClientSymmetry == Permutations(Clients)
=============================================================================
