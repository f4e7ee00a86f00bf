------------------------------- MODULE Stores -------------------------------
(***************************************************************************)
(* What the stores promise alike of what they hold and of what callers put *)
(* into them.                                                              *)
(***************************************************************************)
EXTENDS Config, EnvStore, Packages, DocStore, ActionStore, TypeStore, SecretStore, Files

\* The variables of every store keep their types: rows, entries, trees, the
\* config object, and what each caller holds between two statements.
TypesOK == /\ CfgTypeOK /\ EnvTypeOK /\ PkgTypeOK /\ DocTypeOK /\ ActTypeOK /\ SecTypeOK
           /\ TypTypeOK /\ FilTypeOK

\* What was stored stays: seeding keeps the types that callers saved, and
\* pruning the files that were put; a secret stays until it is deleted, read with
\* another key, or cleared by a get that was about to when it was set.
KeptUntilDeleted == EditsSurviveSeeding /\ SecretsStay /\ FilesSurvivePruning
=============================================================================
