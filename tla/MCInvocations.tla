--------------------------- MODULE MCInvocations ---------------------------
(* Instances of Invocations for TLC.                                        *)
EXTENDS Invocations, TLC

\* Stop calls are interchangeable.  (Invocation ids are not: Init and NoStop
\* choose one of them.)
StopSymmetry == Permutations(Stoppers)
=============================================================================
