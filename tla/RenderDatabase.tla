--------------------------- MODULE RenderDatabase ---------------------------
(***************************************************************************)
(* The part of the SQLite database that render operations share:           *)
(* render_jobs rows, episodes.status and the archives table                *)
(* (db/schema.sql, db/database.py).  Every operator that changes a         *)
(* variable is one committed transaction of class Database.                *)
(*                                                                         *)
(* A plan stands for one RenderOutputPlan (an episode rendered with a      *)
(* preset); of its fields only the episode and the output path matter to   *)
(* the database.  Row ids are AUTOINCREMENT, so a deleted id never returns.*)
(***************************************************************************)
EXTENDS Naturals, FiniteSets

CONSTANTS Episodes,     \* episode ids
          Plans,        \* render output plans
          Outputs,      \* output paths
          Jobs,         \* render_jobs row ids (bounds how many rows are ever inserted)
          Rids,         \* Resolve job ids (bounds how many jobs Resolve ever accepts)
          PlanEpisode,  \* the episode of a plan
          PlanOutput,   \* the output path of a plan
          NoPlan, NoJob, NoRid

ASSUME PlanAssumption ==
    /\ PlanEpisode \in [Plans -> Episodes]
    /\ PlanOutput \in [Plans -> Outputs]

ASSUME SentinelAssumption ==
    /\ NoPlan \notin Plans
    /\ NoJob \notin Jobs
    /\ NoRid \notin Rids

VARIABLES epStatus,     \* episodes.status
          archiveOf,    \* archives.render_job_id of the episode's archive row
          rowStatus,    \* render_jobs.status, "absent" before and "deleted" after the row
          rowPlan,      \* the plan whose fields the row holds
          rowRid        \* render_jobs.resolve_job_id

dbVars == <<epStatus, archiveOf, rowStatus, rowPlan, rowRid>>

EpisodeStatus ==
    {"created", "assets_verified", "media_organized", "timeline_built",
     "assembled", "render_queued", "rendered", "archived", "failed"}

RenderJobStatus ==
    {"claiming", "queued", "rendering", "complete", "failed", "cancelled"}

\* _ACTIVE_RENDER_OUTPUT_STATUSES, also the predicate of the partial unique index.
Active == {"claiming", "queued", "rendering"}

DbTypeOK ==
    /\ epStatus \in [Episodes -> EpisodeStatus]
    /\ archiveOf \in [Episodes -> Jobs \cup {NoJob}]
    /\ rowStatus \in [Jobs -> RenderJobStatus \cup {"absent", "deleted"}]
    /\ rowPlan \in [Jobs -> Plans \cup {NoPlan}]
    /\ rowRid \in [Jobs -> Rids \cup {NoRid}]

\* An assembled episode; build_episode() itself is not part of this module.
DbInit ==
    /\ epStatus = [e \in Episodes |-> "assembled"]
    /\ archiveOf = [e \in Episodes |-> NoJob]
    /\ rowStatus = [j \in Jobs |-> "absent"]
    /\ rowPlan = [j \in Jobs |-> NoPlan]
    /\ rowRid = [j \in Jobs |-> NoRid]

RowExists(j) == rowStatus[j] \in RenderJobStatus

\* get_active_render_job_by_output_path(): a row that occupies output o.
Occupies(j, o) == rowStatus[j] \in Active /\ PlanOutput[rowPlan[j]] = o

\* Mutant: the index predicate forgets the status rendering.
NarrowIndexAllows(j, s, o) ==
    s \in {"claiming", "queued"} =>
        \A k \in Jobs \ {j} : ~ (rowStatus[k] \in {"claiming", "queued"} /\ PlanOutput[rowPlan[k]] = o)

\* idx_render_jobs_active_output_path lets row j take status s for output o.
IndexAllows(j, s, o) ==
    s \in Active => \A k \in Jobs \ {j} : ~ Occupies(k, o)

\* claim_render_output(): the INSERT that the unique index lets through.
ClaimRenderOutput(j, pl) ==
    /\ rowStatus[j] = "absent"
    /\ IndexAllows(j, "claiming", PlanOutput[pl])
    /\ rowStatus' = [rowStatus EXCEPT ![j] = "claiming"]
    /\ rowPlan' = [rowPlan EXCEPT ![j] = pl]
    /\ UNCHANGED <<epStatus, archiveOf, rowRid>>

\* finalize_render_output_claim(): the guarded claiming -> queued update and
\* _mark_episode_render_queued(), which has no guard, in one transaction.
FinalizeRenderOutputClaim(j, r) ==
    /\ rowStatus[j] = "claiming"
    /\ rowStatus' = [rowStatus EXCEPT ![j] = "queued"]
    /\ rowRid' = [rowRid EXCEPT ![j] = r]
    /\ epStatus' = [epStatus EXCEPT ![PlanEpisode[rowPlan[j]]] = "render_queued"]
    /\ UNCHANGED <<archiveOf, rowPlan>>

\* release_render_output_claim(): deletes the row only while it is claiming.
ReleaseRenderOutputClaim(j) ==
    /\ rowStatus[j] = "claiming"
    /\ rowStatus' = [rowStatus EXCEPT ![j] = "deleted"]
    /\ UNCHANGED <<epStatus, archiveOf, rowPlan, rowRid>>

\* transition_render_job_to_rendering(): guarded on the row still being queued.
TransitionToRendering(j) ==
    /\ rowStatus[j] = "queued"
    /\ rowStatus' = [rowStatus EXCEPT ![j] = "rendering"]
    /\ UNCHANGED <<epStatus, archiveOf, rowPlan, rowRid>>

\* update_render_job(status=s): no guard on the status it replaces, no row
\* updated when the row is gone; IntegrityError when the index refuses.
UpdateRenderJob(j, s) ==
    /\ RowExists(j) => IndexAllows(j, s, PlanOutput[rowPlan[j]])
    /\ rowStatus' = IF RowExists(j) THEN [rowStatus EXCEPT ![j] = s] ELSE rowStatus
    /\ UNCHANGED <<epStatus, archiveOf, rowPlan, rowRid>>

\* update_episode_status(RENDERED): no guard on the status it replaces.
MarkEpisodeRendered(e) ==
    /\ epStatus' = [epStatus EXCEPT ![e] = "rendered"]
    /\ UNCHANGED <<archiveOf, rowStatus, rowPlan, rowRid>>

\* commit_verified_archive(): archives row and rendered -> archived, one
\* transaction guarded on the episode, the render job and no earlier archive.
CommitVerifiedArchive(e, j) ==
    /\ epStatus[e] = "rendered"
    /\ rowStatus[j] = "complete"
    /\ PlanEpisode[rowPlan[j]] = e
    /\ archiveOf[e] = NoJob
    /\ archiveOf' = [archiveOf EXCEPT ![e] = j]
    /\ epStatus' = [epStatus EXCEPT ![e] = "archived"]
    /\ UNCHANGED <<rowStatus, rowPlan, rowRid>>

=============================================================================
