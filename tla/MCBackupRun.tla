----------------------------- MODULE MCBackupRun -----------------------------
(***************************************************************************)
(* Instances of BackupRun for TLC.                                         *)
(***************************************************************************)
EXTENDS BackupRun, TLC

\* Handlers and commands are interchangeable.
Symmetry == Permutations(Proc)
=============================================================================
