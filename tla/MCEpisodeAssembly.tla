------------------------- MODULE MCEpisodeAssembly -------------------------
(***************************************************************************)
(* Small instances of EpisodeAssembly for TLC.                             *)
(***************************************************************************)
EXTENDS EpisodeAssembly, Naturals, FiniteSets, TLC

CONSTANTS e1, e2, a1, a2, a3, a4

\* Three attempts at one episode.
MCOneEpisode == (a1 :> e1) @@ (a2 :> e1) @@ (a3 :> e1)

\* And one at another.
MCTwoEpisodes == MCOneEpisode @@ (a4 :> e2)

Started(e) == {a \in Attempts : EpisodeOf[a] = e /\ pc[a] # "new"}

\* Bound: a second episode is built while there is one attempt at the first.
MCOneEach == Started(e2) = {} \/ Cardinality(Started(e1)) <= 1

\* Attempts at the same episode are interchangeable.
MCSymmetry == Permutations({a \in Attempts : EpisodeOf[a] = e1})

=============================================================================
