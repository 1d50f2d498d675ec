-------------------------- MODULE MCRenderPipeline --------------------------
(***************************************************************************)
(* Small instances of RenderPipeline for TLC.                              *)
(***************************************************************************)
EXTENDS RenderPipeline, TLC

CONSTANTS e1, e2, pl1, pl2, pl3, o1, o2, o3

\* One episode rendered with two presets to two files.
MCTwoPresets == (pl1 :> e1) @@ (pl2 :> e1)
MCTwoFiles == (pl1 :> o1) @@ (pl2 :> o2)

\* One episode, one preset.
MCOneEpisode == pl1 :> e1
MCOneFile == pl1 :> o1

\* Two presets of one episode and one of another, so two projects.
MCTwoEpisodes == (pl1 :> e1) @@ (pl2 :> e1) @@ (pl3 :> e2)
MCThreeFiles == (pl1 :> o1) @@ (pl2 :> o2) @@ (pl3 :> o3)

\* Processes, rows and Resolve ids are interchangeable (Killable = Procs).
MCSymmetry == Permutations(Procs) \cup Permutations(Jobs) \cup Permutations(Rids)

=============================================================================
