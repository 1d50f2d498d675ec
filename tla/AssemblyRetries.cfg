\* Three attempts at one episode, or one at each of two.
SPECIFICATION Spec
CONSTANTS
  NoAttempt = NoAttempt
  e1 = e1
  e2 = e2
  a1 = a1
  a2 = a2
  a3 = a3
  a4 = a4
  Attempts = {a1, a2, a3, a4}
  Episodes = {e1, e2}
  EpisodeOf <- MCTwoEpisodes
CONSTRAINT MCOneEach
SYMMETRY MCSymmetry
INVARIANTS TypeOK OrdinaryOnce ClaimReplacedOnce AssembledIsComplete
PROPERTIES ImplementsClaim
\* Every attempt is one call: when all have ended nothing is left to do.
CHECK_DEADLOCK FALSE
