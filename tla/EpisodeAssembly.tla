-------------------------- MODULE EpisodeAssembly --------------------------
(***************************************************************************)
(* EpisodeManager.build_episode() (episode/manager.py) run by several      *)
(* processes, with the assembly claim of db/database.py and the Resolve    *)
(* calls of its stages.  One attempt is one call; its uuid token is the    *)
(* attempt itself.  An attempt takes one step per SQL statement and per    *)
(* Resolve call that another process can disturb; it may die anywhere.     *)
(*                                                                         *)
(* new -> (cas ->) open -> import -> timeline -> markers -> place          *)
(*     -> payload -> finish -> ended, and from every stage to fail         *)
(***************************************************************************)
CONSTANTS Episodes,   \* episode ids; each has one project and one timeline
          Attempts,   \* build_episode() calls
          EpisodeOf,  \* the episode an attempt builds
          NoAttempt

ASSUME AttemptAssumption ==
    /\ EpisodeOf \in [Attempts -> Episodes]
    /\ NoAttempt \notin Attempts

VARIABLES epStatus,   \* episodes.status
          claim,      \* episodes.assembly_claim_token
          pc,         \* the step an attempt is at
          forced,     \* attempts called with allow_unsafe_retry=True
          observed,   \* forced attempt: the row its SELECT returned
          current,    \* the project Resolve has loaded
          pool,       \* <<attempt, episode>>: whose media is in which media pool
          timelines,  \* episodes whose timeline exists in Resolve
          marked,     \* attempts whose markers are on their timeline
          clips,      \* attempts whose clips are on their timeline
          queued,     \* episodes with a render job
          acquired,   \* history: attempts that ever got the claim
          replaced,   \* history: the claim a forced attempt took over
          stale       \* history: forced attempts that read the row before
                      \* another attempt got the claim

resolveVars == <<current, pool, timelines, marked, clips>>
history == <<acquired, replaced, stale>>
vars == <<epStatus, claim, pc, forced, observed, current, pool, timelines,
          marked, clips, queued, acquired, replaced, stale>>

EpisodeStatus ==
    {"created", "assets_verified", "media_organized", "timeline_built",
     "assembled", "render_queued", "rendered", "archived", "failed"}
Fresh == {"created", "assets_verified", "media_organized", "timeline_built"}

\* _TERMINAL_ASSEMBLY_STATUSES
Terminal == {"assembled", "render_queued", "rendered", "archived"}

Stages == {"open", "import", "timeline", "markers", "place", "payload"}
Steps == {"new", "cas", "finish", "fail", "ended"} \cup Stages

NotRead == [status |-> "none", token |-> NoAttempt]
Observation == [status : EpisodeStatus, token : Attempts \cup {NoAttempt}]

\* Types of all variables (db/schema.sql, episode/manager.py).
TypeOK ==
    /\ epStatus \in [Episodes -> EpisodeStatus]
    /\ claim \in [Episodes -> Attempts \cup {NoAttempt}]
    /\ pc \in [Attempts -> Steps]
    /\ forced \subseteq Attempts
    /\ observed \in [Attempts -> Observation \cup {NotRead}]
    /\ current \in Episodes
    /\ pool \subseteq Attempts \X Episodes
    /\ timelines \subseteq Episodes
    /\ marked \subseteq Attempts
    /\ clips \subseteq Attempts
    /\ queued \subseteq Episodes
    /\ acquired \subseteq Attempts
    /\ replaced \in [Attempts -> Attempts \cup {NoAttempt}]
    /\ stale \subseteq Attempts

\* Episodes that create_episode() made; no attempt has begun.
Init ==
    /\ epStatus = [e \in Episodes |-> "created"]
    /\ claim = [e \in Episodes |-> NoAttempt]
    /\ pc = [a \in Attempts |-> "new"]
    /\ forced = {}
    /\ observed = [a \in Attempts |-> NotRead]
    /\ current \in Episodes
    /\ pool = {}
    /\ timelines = {}
    /\ marked = {}
    /\ clips = {}
    /\ queued = {}
    /\ acquired = {}
    /\ replaced = [a \in Attempts |-> NoAttempt]
    /\ stale = {}

Move(a, s) == pc' = [pc EXCEPT ![a] = s]

----------------------------------------------------------------------------
(* The claim. *)

\* The attempt's token is in the row: it goes on to the first stage, and
\* every other attempt that has read the row of this episode read an old one.
TakeClaim(a) ==
    /\ claim' = [claim EXCEPT ![EpisodeOf[a]] = a]
    /\ acquired' = acquired \cup {a}
    /\ stale' = stale \cup {b \in Attempts \ {a} : pc[b] = "cas" /\ EpisodeOf[b] = EpisodeOf[a]}
    /\ Move(a, "open")

Refused(a) ==
    /\ Move(a, "ended")
    /\ UNCHANGED <<claim, acquired, stale>>

\* Mutant: a failed episode counts as fresh.
RetriesFailed(e) == epStatus[e] \in Fresh \cup {"failed"} /\ claim[e] = NoAttempt

\* The WHERE clause of an ordinary claim.
Eligible(e) == epStatus[e] \in Fresh /\ claim[e] = NoAttempt

\* claim_episode_for_assembly(): one guarded UPDATE.
BuildEpisode(a) ==
    /\ pc[a] = "new"
    /\ \/ Eligible(EpisodeOf[a]) /\ TakeClaim(a)
       \/ ~ Eligible(EpisodeOf[a]) /\ Refused(a)
    /\ UNCHANGED <<epStatus, forced, observed, resolveVars, queued, replaced>>

\* claim_episode_for_assembly(allow_unsafe_retry=True): the SELECT, whose
\* status refuses a terminal episode at once.
BuildEpisodeForced(a) ==
    /\ pc[a] = "new"
    /\ forced' = forced \cup {a}
    /\ LET e == EpisodeOf[a] IN
       \/ /\ epStatus[e] \notin Terminal
          /\ observed' = [observed EXCEPT ![a] = [status |-> epStatus[e], token |-> claim[e]]]
          /\ Move(a, "cas")
       \/ /\ epStatus[e] \in Terminal
          /\ Move(a, "ended")
          /\ UNCHANGED observed
    /\ UNCHANGED <<epStatus, claim, resolveVars, queued, history>>

\* Mutant: the forced claim only asks for a status that is not terminal.
AnyClaim(a) == epStatus[EpisodeOf[a]] \notin Terminal

\* Mutant: the status read is not compared again.
SameToken(a) == claim[EpisodeOf[a]] = observed[a].token

\* The WHERE clause of _claim_episode_for_assembly_cas().
StillAsObserved(a) ==
    /\ epStatus[EpisodeOf[a]] = observed[a].status
    /\ claim[EpisodeOf[a]] = observed[a].token

\* The guarded UPDATE of _claim_episode_for_assembly_cas().
CompareAndSwap(a) ==
    /\ pc[a] = "cas"
    /\ \/ /\ StillAsObserved(a)
          /\ replaced' = [replaced EXCEPT ![a] = observed[a].token]
          /\ TakeClaim(a)
       \/ /\ ~ StillAsObserved(a)
          /\ Refused(a)
          /\ UNCHANGED replaced
    /\ UNCHANGED <<epStatus, forced, observed, resolveVars, queued>>

\* release_assembly_claim(): token-owned, but with no guard on the status.
ReleaseAssemblyClaim(a, s) ==
    /\ claim[EpisodeOf[a]] = a
    /\ claim' = [claim EXCEPT ![EpisodeOf[a]] = NoAttempt]
    /\ epStatus' = [epStatus EXCEPT ![EpisodeOf[a]] = s]

----------------------------------------------------------------------------
(* The stages. *)

\* import_media(): LoadProject(), the bin, SetCurrentFolder().
OpenProject(a) ==
    /\ pc[a] = "open"
    /\ current' = EpisodeOf[a]
    /\ Move(a, "import")
    /\ UNCHANGED <<epStatus, claim, forced, observed, pool, timelines, marked, clips, queued, history>>

\* AddItemListToMediaPool() imports into whatever project is loaded by now;
\* an incomplete or unusable result fails the stage with the media imported.
ImportMedia(a) ==
    /\ pc[a] = "import"
    /\ pool' = pool \cup {<<a, current>>}
    /\ Move(a, "timeline") \/ Move(a, "fail")
    /\ UNCHANGED <<epStatus, claim, forced, observed, current, timelines, marked, clips, queued, history>>

\* build_timeline(): the episode's timeline is found or created.
BuildTimeline(a) ==
    /\ pc[a] = "timeline"
    /\ current' = EpisodeOf[a]
    /\ timelines' = timelines \cup {EpisodeOf[a]}
    /\ Move(a, "markers") \/ Move(a, "fail")
    /\ UNCHANGED <<epStatus, claim, forced, observed, pool, marked, clips, queued, history>>

\* add_markers(): a rejected marker leaves the earlier ones on the timeline,
\* but only the whole list counts as marked.
AddMarkers(a) ==
    /\ pc[a] = "markers"
    /\ current' = EpisodeOf[a]
    /\ marked' = marked \cup {a}
    /\ Move(a, "place")
    /\ UNCHANGED <<epStatus, claim, forced, observed, pool, timelines, clips, queued, history>>

\* Mutant: the clips are not looked up in the media pool.
AppendUnchecked(a) ==
    /\ pc[a] = "place"
    /\ current' = EpisodeOf[a]
    /\ clips' = IF <<a, EpisodeOf[a]>> \in pool THEN clips \cup {a} ELSE clips
    /\ Move(a, "payload")
    /\ UNCHANGED <<epStatus, claim, forced, observed, pool, timelines, marked, queued, history>>

\* place_clips(): all imported items are found in the project's media pool and
\* appended; an unusable result fails the stage with the clips placed.
PlaceClips(a) ==
    /\ pc[a] = "place"
    /\ <<a, EpisodeOf[a]>> \in pool
    /\ current' = EpisodeOf[a]
    /\ clips' = clips \cup {a}
    /\ Move(a, "payload") \/ Move(a, "fail")
    /\ UNCHANGED <<epStatus, claim, forced, observed, pool, timelines, marked, queued, history>>

\* get_video_timeline_item_count(), which only loads the project and counts.
ObservePayload(a) ==
    /\ pc[a] = "payload"
    /\ current' = EpisodeOf[a]
    /\ Move(a, "finish")
    /\ UNCHANGED <<epStatus, claim, forced, observed, pool, timelines, marked, clips, queued, history>>

\* A stage raises before Resolve is changed by it.
StageFails(a) ==
    /\ pc[a] \in Stages
    /\ Move(a, "fail")
    /\ UNCHANGED <<epStatus, claim, forced, observed, resolveVars, queued, history>>

\* All stages succeeded: release as assembled.  When that raises (superseded,
\* database error) the claim stays as it is.
Finish(a) ==
    /\ pc[a] = "finish"
    /\ ReleaseAssemblyClaim(a, "assembled") \/ UNCHANGED <<epStatus, claim>>
    /\ Move(a, "ended")
    /\ UNCHANGED <<forced, observed, resolveVars, queued, history>>

\* _build_error(): release as failed; an error of the release is only logged.
BuildError(a) ==
    /\ pc[a] = "fail"
    /\ ReleaseAssemblyClaim(a, "failed") \/ UNCHANGED <<epStatus, claim>>
    /\ Move(a, "ended")
    /\ UNCHANGED <<forced, observed, resolveVars, queued, history>>

\* The process dies: nothing it wrote is undone.
Crash(a) ==
    /\ pc[a] \notin {"new", "ended"}
    /\ Move(a, "ended")
    /\ UNCHANGED <<epStatus, claim, forced, observed, resolveVars, queued, history>>

Attempt(a) ==
    \/ BuildEpisode(a) \/ BuildEpisodeForced(a) \/ CompareAndSwap(a)
    \/ OpenProject(a) \/ ImportMedia(a) \/ BuildTimeline(a) \/ AddMarkers(a)
    \/ PlaceClips(a) \/ ObservePayload(a) \/ StageFails(a)
    \/ Finish(a) \/ BuildError(a) \/ Crash(a)

----------------------------------------------------------------------------
(* Rendering and archiving, which other processes do to the same row; the  *)
(* module RenderPipeline has their steps.                                  *)

\* queue_render() looks at no status: a timeline in Resolve is enough.
QueueRender(e) ==
    /\ e \in timelines
    /\ queued' = queued \cup {e}
    /\ epStatus' = [epStatus EXCEPT ![e] = "render_queued"]
    /\ current' = e

\* Mutant: the render job's status is written to the episode.
CompleteEpisode(e) ==
    /\ e \in queued
    /\ epStatus' = [epStatus EXCEPT ![e] = "complete"]
    /\ UNCHANGED <<queued, current>>

\* get_render_status() of a completed job.
CompleteRender(e) ==
    /\ e \in queued
    /\ epStatus' = [epStatus EXCEPT ![e] = "rendered"]
    /\ UNCHANGED <<queued, current>>

\* commit_verified_archive()
ArchiveEpisode(e) ==
    /\ epStatus[e] = "rendered"
    /\ epStatus' = [epStatus EXCEPT ![e] = "archived"]
    /\ UNCHANGED <<queued, current>>

Downstream ==
    /\ \E e \in Episodes : QueueRender(e) \/ CompleteRender(e) \/ ArchiveEpisode(e)
    /\ UNCHANGED <<claim, pc, forced, observed, pool, timelines, marked, clips, history>>

Next == (\E a \in Attempts : Attempt(a)) \/ Downstream

Spec == Init /\ [][Next]_vars

----------------------------------------------------------------------------
(* Properties *)

\* Only one ordinary attempt ever works on an episode: whatever dies, fails,
\* is taken over or overwritten, every further attempt was forced (ADR-0001,
\* claim_episode_for_assembly()).
OrdinaryOnce ==
    \A a, b \in acquired \ forced : EpisodeOf[a] = EpisodeOf[b] => a = b

\* A dangling claim is taken over at most once: of two forced attempts that
\* read the same token, one loses (_claim_episode_for_assembly_cas()).
ClaimReplacedOnce ==
    \A a, b \in acquired :
        replaced[a] # NoAttempt /\ replaced[a] = replaced[b] => a = b

\* An assembled episode has, from one and the same attempt, the media in its own
\* project, the markers and the clips on its timeline, although Resolve may have
\* been switched to another project in the middle of an import.
AssembledIsComplete ==
    \A e \in Episodes : epStatus[e] = "assembled" =>
        /\ e \in timelines
        /\ \E a \in acquired :
              EpisodeOf[a] = e /\ <<a, e>> \in pool /\ a \in marked /\ a \in clips

\* The attempts implement the claim that ADR-0001 asks for, with the read and
\* the compare-and-swap of a forced claim as one step.
Promise == INSTANCE AssemblyClaim
ImplementsClaim == Promise!ClaimSpec

----------------------------------------------------------------------------
(* A statement of the documentation that the code does not keep. *)

\* Once one racer of the same observed row got the claim, the other racer's
\* UPDATE matches no row (_claim_episode_for_assembly_cas()).
StaleObservationLoses == stale \cap acquired = {}

=============================================================================
