---------------------------- MODULE ResolveQueue ----------------------------
(***************************************************************************)
(* DaVinci Resolve's render queue as resolve/adapter.py uses it: the       *)
(* loaded project, each project's render settings, its queued jobs with    *)
(* their status, and the output files.  Resolve is not part of the source; *)
(* what a call may do is taken from what the adapter accepts as its        *)
(* outcome.  Every episode has one project with one render timeline.       *)
(***************************************************************************)
EXTENDS RenderDatabase

CONSTANTS CustomNameReported  \* GetRenderJobList() entries carry CustomName

ASSUME CustomNameAssumption == CustomNameReported \in BOOLEAN

VARIABLES current,   \* the project Resolve has loaded
          settings,  \* the plan last given to a project's SetRenderSettings()
          qStatus,   \* status of a Resolve job; "none" before, "gone" after it
          qPlan,     \* the plan whose destination the job was added with
          files      \* output paths that exist on disk

resolveVars == <<current, settings, qStatus, qPlan, files>>

ResolveStatus == {"ready", "rendering", "complete", "failed", "cancelled"}

ResolveTypeOK ==
    /\ current \in Episodes
    /\ settings \in [Episodes -> Plans \cup {NoPlan}]
    /\ qStatus \in [Rids -> ResolveStatus \cup {"none", "gone"}]
    /\ qPlan \in [Rids -> Plans \cup {NoPlan}]
    /\ files \subseteq Outputs

ResolveInit ==
    /\ current \in Episodes
    /\ settings = [e \in Episodes |-> NoPlan]
    /\ qStatus = [r \in Rids |-> "none"]
    /\ qPlan = [r \in Rids |-> NoPlan]
    /\ files = {}

\* GetRenderJobList() of the project of episode e.
QueueOf(e) == {r \in Rids : qStatus[r] \in ResolveStatus /\ PlanEpisode[qPlan[r]] = e}

\* Mutant: inspects the loaded project's queue instead of the plan's.
LoadedQueueTargets(pl) ==
    /\ CustomNameReported
    /\ \E r \in QueueOf(current) : PlanOutput[qPlan[r]] = PlanOutput[pl]

\* _resolve_job_targets_plan() for some job of the plan's project: a job
\* without CustomName never matches.
QueueTargets(pl) ==
    /\ CustomNameReported
    /\ \E r \in QueueOf(PlanEpisode[pl]) : PlanOutput[qPlan[r]] = PlanOutput[pl]

\* _RESOLVE_RENDER_STATUS_MAP
Canonical(s) == IF s = "ready" THEN "queued" ELSE s

\* get_render_status(): only a job of the loaded project is known.
LiveStatus(r) == IF r \in QueueOf(current) THEN Canonical(qStatus[r]) ELSE "unknown"

RenderingIn(e) == {r \in QueueOf(e) : qStatus[r] = "rendering"}

\* LoadProject(): Resolve switches to the project.
LoadProject(e) == current' = e

\* AddRenderJob(): the job takes the project's settings of this moment.
AddJob(r, e) ==
    /\ qStatus[r] = "none"
    /\ settings[e] \in Plans
    /\ qStatus' = [qStatus EXCEPT ![r] = "ready"]
    /\ qPlan' = [qPlan EXCEPT ![r] = settings[e]]

\* DeleteRenderJob(): a job in the project's queue that is not rendering.
DeleteJob(r, e) ==
    /\ r \in QueueOf(e) \ RenderingIn(e)
    /\ qStatus' = [qStatus EXCEPT ![r] = "gone"]
    /\ UNCHANGED qPlan

\* cancel_render(): a ready job is deleted, the sole rendering one is stopped.
CancelJob(r) ==
    /\ \/ /\ r \in QueueOf(current)
          /\ qStatus[r] = "ready"
          /\ qStatus' = [qStatus EXCEPT ![r] = "gone"]
       \/ /\ RenderingIn(current) = {r}
          /\ qStatus' = [qStatus EXCEPT ![r] = "cancelled"]
    /\ UNCHANGED qPlan

\* What start_render() proves before StartRendering(): loaded project, queue
\* entry with the row's output, status Ready, nothing rendering.
Startable(r, pl) ==
    /\ current = PlanEpisode[pl]
    /\ r \in QueueOf(current)
    /\ PlanOutput[qPlan[r]] = PlanOutput[pl]
    /\ qStatus[r] = "ready"
    /\ RenderingIn(current) = {}

StartJob(r) ==
    /\ qStatus' = [qStatus EXCEPT ![r] = "rendering"]
    /\ UNCHANGED qPlan

----------------------------------------------------------------------------
(* What Resolve and its operator do without Redline. *)

\* The editor opens another project in the Resolve window.
OperatorOpensProject ==
    /\ \E e \in Episodes \ {current} : LoadProject(e)
    /\ UNCHANGED <<settings, qStatus, qPlan, files>>

\* The editor presses Render for a queued job.
OperatorStartsRender ==
    /\ RenderingIn(current) = {}
    /\ \E r \in QueueOf(current) : qStatus[r] = "ready" /\ StartJob(r)
    /\ UNCHANGED <<current, settings, files>>

\* A render ends: its output is on disk, or it failed.
RenderEnds ==
    /\ \E r \in Rids :
          /\ qStatus[r] = "rendering"
          /\ \/ /\ qStatus' = [qStatus EXCEPT ![r] = "complete"]
                /\ files' = files \cup {PlanOutput[qPlan[r]]}
             \/ /\ qStatus' = [qStatus EXCEPT ![r] = "failed"]
                /\ UNCHANGED files
    /\ UNCHANGED <<current, settings, qPlan>>

=============================================================================
