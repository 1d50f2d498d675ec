--------------------------- MODULE AssemblyClaim ---------------------------
(***************************************************************************)
(* What the assembly claim promises (ADR-0001): at any time at most one    *)
(* build attempt holds an episode, eligibility and acquisition are one     *)
(* step, only the holder decides the outcome, and a claim that was never   *)
(* resolved survives until an operator forces a retry.  Attempts, the two  *)
(* statements of a forced claim, Resolve and crashes are not visible here. *)
(***************************************************************************)
CONSTANTS Episodes,   \* episode ids
          Attempts,   \* claim tokens, one per build_episode() call
          EpisodeOf,  \* the episode an attempt builds
          NoAttempt

VARIABLES epStatus,   \* episodes.status
          claim,      \* episodes.assembly_claim_token
          acquired    \* attempts that ever got the claim

claimVars == <<epStatus, claim, acquired>>

\* Statuses from which an ordinary attempt may start.
Fresh == {"created", "assets_verified", "media_organized", "timeline_built"}

\* _TERMINAL_ASSEMBLY_STATUSES: never claimed, forced or not.
Terminal == {"assembled", "render_queued", "rendered", "archived"}

ClaimInit ==
    /\ epStatus = [e \in Episodes |-> "created"]
    /\ claim = [e \in Episodes |-> NoAttempt]
    /\ acquired = {}

\* An ordinary attempt needs a fresh episode that nobody holds; a forced one
\* needs only an episode that is not terminal.
Acquire(a, force) ==
    /\ a \notin acquired
    /\ epStatus[EpisodeOf[a]] \notin Terminal
    /\ ~ force => epStatus[EpisodeOf[a]] \in Fresh /\ claim[EpisodeOf[a]] = NoAttempt
    /\ claim' = [claim EXCEPT ![EpisodeOf[a]] = a]
    /\ acquired' = acquired \cup {a}
    /\ UNCHANGED epStatus

\* The holder resolves its attempt and gives the claim back.
Resolve(a) ==
    /\ claim[EpisodeOf[a]] = a
    /\ claim' = [claim EXCEPT ![EpisodeOf[a]] = NoAttempt]
    /\ \E s \in {"assembled", "failed"} :
          epStatus' = [epStatus EXCEPT ![EpisodeOf[a]] = s]
    /\ UNCHANGED acquired

\* Rendering and archiving move the status on, whoever holds the claim.
Downstream(e) ==
    /\ \E s \in {"render_queued", "rendered", "archived"} :
          epStatus' = [epStatus EXCEPT ![e] = s]
    /\ UNCHANGED <<claim, acquired>>

ClaimNext ==
    \/ \E a \in Attempts : (\E force \in BOOLEAN : Acquire(a, force)) \/ Resolve(a)
    \/ \E e \in Episodes : Downstream(e)

ClaimSpec == ClaimInit /\ [][ClaimNext]_claimVars

=============================================================================
