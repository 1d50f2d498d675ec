-------------------------- MODULE MCSystemPackages --------------------------
(***************************************************************************)
(* A small instance of SystemPackages for TLC.                             *)
(***************************************************************************)
EXTENDS SystemPackages, TLC

\* Bound: backups compete with backups only, and captures are made without them.
MCOneKind == attempts.backup = 0 \/ attempts.capture = 0

MCSymmetry == Permutations(Callers)
=============================================================================
