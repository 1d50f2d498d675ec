------------------------- MODULE MCRestoreExecution -------------------------
(***************************************************************************)
(* Small instances of RestoreExecution for TLC.                            *)
(***************************************************************************)
EXTENDS RestoreExecution

CONSTANTS g1, g2

\* One backup; a live object is of its generation or of another.
MCOneBackup == {[database |-> g1, config |-> g2]}

MCTwoSidecars == <<"-journal", "-wal">>
MCNoSidecar == <<>>

\* The attestations are true: nobody else writes during an attempt.
MCAlone == Places

\* They are not: others write anywhere but between a check and its rename.
MCWindows == {"Dispose", "ReplaceDatabase", "RenameAside", "InstallConfig"}

=============================================================================
