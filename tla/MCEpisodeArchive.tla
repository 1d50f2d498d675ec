-------------------------- MODULE MCEpisodeArchive --------------------------
(***************************************************************************)
(* Small instances of EpisodeArchive for TLC.                              *)
(***************************************************************************)
EXTENDS EpisodeArchive, TLC

CONSTANTS p1, r1, r2, m1, copy, provenance, clip, log

MCPlanEpisode == [pl \in Plans |-> Episode]
MCPlanOutput == (p1 :> m1)
MCWorkspace == {m1, copy, provenance}
MCRank == (copy :> 1 @@ m1 :> 2 @@ provenance :> 3 @@ clip :> 5 @@ Manifest :> 6 @@ log :> 7)

\* The second version of the manifest names another medium.
MCMediaOf == <<{clip}, {clip, m1}>>
MCForeign == {<<log, 2>>}
MCRidOf == (1 :> r1 @@ 2 :> r2)
MCFacts == {[job |-> j, plan |-> pl, rid |-> r] : j \in Jobs, pl \in Plans, r \in Rids}

MCSymmetry == UNION {Permutations(S) : S \in {Builders, Archivers}}

=============================================================================
