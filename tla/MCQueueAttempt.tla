--------------------------- MODULE MCQueueAttempt ---------------------------
(* Two attempts, in one directory or in two; only the first may be killed. *)
EXTENDS QueueAttempt, TLC

CONSTANTS h1, h2, e1, e2, operator

MCAttempts == {h1, h2}
MCDirs == {e1, e2}
MCKillable == {h1}
MCOperator == operator

\* The directories are alike: one for both attempts, or one for each.
MCDirChoices == {h1 :> e1 @@ h2 :> e1, h1 :> e1 @@ h2 :> e2}
=============================================================================
