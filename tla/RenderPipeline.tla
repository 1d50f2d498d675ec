--------------------------- MODULE RenderPipeline ---------------------------
(***************************************************************************)
(* RenderManager (render/manager.py) run by several processes: every CLI   *)
(* call is a process of its own and the MCP server is one more, all over   *)
(* one database and one Resolve, with no lock between them.  A handler     *)
(* takes one step per database transaction and per Resolve call whose      *)
(* outcome another process can change; reads that nothing can invalidate   *)
(* are part of the step they precede.                                      *)
(*                                                                         *)
(* Handler of process p      steps (values of pc[p])                       *)
(*   queue_render()          q_db q_list q_claim q_prepare q_add           *)
(*                           q_finalize q_delete q_release                 *)
(*   get_render_status()     p_ask p_write p_episode                       *)
(*   cancel_render()         c_ask c_write                                 *)
(*   start_render()          s_start s_write                               *)
(***************************************************************************)
EXTENDS ResolveQueue

CONSTANTS Procs,     \* processes that run Redline
          Killable   \* those that may die between two steps

ASSUME ProcsAssumption == Killable \subseteq Procs

VARIABLES pc,       \* where the running handler of a process is
          row,      \* the render_jobs id it works on
          plan,     \* queue_render(): the plan being queued
          rid,      \* the Resolve job id it holds
          before,   \* queue_render_job(): ids listed before AddRenderJob()
          seen,     \* get_render_status(): row status read first
          live,     \* get_render_status(): status Resolve then answered
          orphans   \* history: jobs Resolve accepted that only a dead process
                    \* or an error message knew of

procVars == <<pc, row, plan, rid, before, seen, live>>
vars == <<epStatus, archiveOf, rowStatus, rowPlan, rowRid,
          current, settings, qStatus, qPlan, files,
          pc, row, plan, rid, before, seen, live, orphans>>

Steps == {"idle",
          "q_db", "q_list", "q_claim", "q_prepare", "q_add",
          "q_finalize", "q_delete", "q_release",
          "p_ask", "p_write", "p_episode",
          "c_ask", "c_write",
          "s_start", "s_write"}

NoStatus == "none"
LiveAnswers == {"queued", "rendering", "complete", "failed", "cancelled"}

ProcTypeOK ==
    /\ pc \in [Procs -> Steps]
    /\ row \in [Procs -> Jobs \cup {NoJob}]
    /\ plan \in [Procs -> Plans \cup {NoPlan}]
    /\ rid \in [Procs -> Rids \cup {NoRid}]
    /\ before \in [Procs -> SUBSET Rids]
    /\ seen \in [Procs -> RenderJobStatus \cup {NoStatus}]
    /\ live \in [Procs -> LiveAnswers \cup {NoStatus}]

\* Types of all variables (db/schema.sql, resolve/adapter.py, render/manager.py).
TypeOK == DbTypeOK /\ ResolveTypeOK /\ ProcTypeOK /\ orphans \subseteq Rids

Init ==
    /\ DbInit
    /\ ResolveInit
    /\ pc = [p \in Procs |-> "idle"]
    /\ row = [p \in Procs |-> NoJob]
    /\ plan = [p \in Procs |-> NoPlan]
    /\ rid = [p \in Procs |-> NoRid]
    /\ before = [p \in Procs |-> {}]
    /\ seen = [p \in Procs |-> NoStatus]
    /\ live = [p \in Procs |-> NoStatus]
    /\ orphans = {}

Move(p, s) == pc' = [pc EXCEPT ![p] = s]

\* The handler returns or raises; its locals are gone.
Return(p) ==
    /\ pc' = [pc EXCEPT ![p] = "idle"]
    /\ row' = [row EXCEPT ![p] = NoJob]
    /\ plan' = [plan EXCEPT ![p] = NoPlan]
    /\ rid' = [rid EXCEPT ![p] = NoRid]
    /\ before' = [before EXCEPT ![p] = {}]
    /\ seen' = [seen EXCEPT ![p] = NoStatus]
    /\ live' = [live EXCEPT ![p] = NoStatus]

----------------------------------------------------------------------------
(* queue_render() *)

\* The plan is built and its output is not on disk yet.
QueueRender(p, pl) ==
    /\ pc[p] = "idle"
    /\ PlanOutput[pl] \notin files
    /\ Move(p, "q_db")
    /\ plan' = [plan EXCEPT ![p] = pl]
    /\ UNCHANGED <<row, rid, before, seen, live, dbVars, resolveVars, orphans>>

\* No active row has the output, or RenderOutputCollisionError.
CheckDatabase(p) ==
    /\ pc[p] = "q_db"
    /\ \/ /\ \A j \in Jobs : ~ Occupies(j, PlanOutput[plan[p]])
          /\ Move(p, "q_list")
          /\ UNCHANGED <<row, plan, rid, before, seen, live>>
       \/ /\ \E j \in Jobs : Occupies(j, PlanOutput[plan[p]])
          /\ Return(p)
    /\ UNCHANGED <<dbVars, resolveVars, orphans>>

\* list_render_jobs() and get_video_timeline_item_count(), both of which load
\* the project: a job with this destination or a timeline without video refuses.
CheckResolve(p) ==
    /\ pc[p] = "q_list"
    /\ LoadProject(PlanEpisode[plan[p]])
    /\ \/ /\ ~ QueueTargets(plan[p])
          /\ Move(p, "q_claim")
          /\ UNCHANGED <<row, plan, rid, before, seen, live>>
       \/ Return(p)
    /\ UNCHANGED <<settings, qStatus, qPlan, files, dbVars, orphans>>

\* The claim row is inserted, or the unique index makes it a collision.
Claim(p) ==
    /\ pc[p] = "q_claim"
    /\ \/ \E j \in Jobs :
            /\ ClaimRenderOutput(j, plan[p])
            /\ row' = [row EXCEPT ![p] = j]
            /\ Move(p, "q_prepare")
            /\ UNCHANGED <<plan, rid, before, seen, live>>
       \/ /\ \E j \in Jobs : Occupies(j, PlanOutput[plan[p]])
          /\ Return(p)
          /\ UNCHANGED dbVars
    /\ UNCHANGED <<resolveVars, orphans>>

\* queue_render_job() up to SetRenderSettings(): load the project, list its
\* jobs, set its destination.  Any refusal releases the claim.
PrepareJob(p) ==
    /\ pc[p] = "q_prepare"
    /\ LET e == PlanEpisode[plan[p]] IN
       \/ /\ LoadProject(e)
          /\ settings' = [settings EXCEPT ![e] = plan[p]]
          /\ before' = [before EXCEPT ![p] = QueueOf(e)]
          /\ Move(p, "q_add")
       \/ /\ LoadProject(e)
          /\ Move(p, "q_release")
          /\ UNCHANGED <<settings, before>>
    /\ UNCHANGED <<row, plan, rid, seen, live, qStatus, qPlan, files, dbVars, orphans>>

\* Mutant: the ids listed before are not subtracted.
AllListed(p, listed) == listed

\* _compute_new_job_id_candidates() over the listed ids of the project.
Candidates(p, listed) == listed \ before[p]

\* AddRenderJob() accepts the job; its id is returned, or derived when it is
\* the only new one in the listing, or else stays unresolved.
AddAccepted(p, r) ==
    /\ pc[p] = "q_add"
    /\ LET e == PlanEpisode[plan[p]] IN
       /\ AddJob(r, e)
       /\ \/ /\ rid' = [rid EXCEPT ![p] = r]
             /\ Move(p, "q_finalize")
             /\ UNCHANGED orphans
          \/ /\ orphans' = orphans \cup {r}
             /\ Move(p, "q_release")
             /\ UNCHANGED rid
    /\ before' = [before EXCEPT ![p] = {}]
    /\ UNCHANGED <<row, plan, seen, live, current, settings, files, dbVars>>

\* AddRenderJob() adds nothing.  False or an empty answer without a new id
\* releases the claim; without an id in the answer, one new id that another
\* process added since the first listing is taken for this job.
AddRefused(p) ==
    /\ pc[p] = "q_add"
    /\ \/ /\ Move(p, "q_release")
          /\ UNCHANGED rid
       \/ \E r \in Rids :
            /\ Candidates(p, QueueOf(PlanEpisode[plan[p]])) = {r}
            /\ rid' = [rid EXCEPT ![p] = r]
            /\ Move(p, "q_finalize")
    /\ before' = [before EXCEPT ![p] = {}]
    /\ UNCHANGED <<row, plan, seen, live, dbVars, resolveVars, orphans>>

\* Mutant: a failed finalization releases the claim and leaves the job queued.
FinalizeWithoutDelete(p) ==
    /\ pc[p] = "q_finalize"
    /\ \/ /\ FinalizeRenderOutputClaim(row[p], rid[p])
          /\ Return(p)
       \/ /\ Move(p, "q_release")
          /\ UNCHANGED <<row, plan, rid, before, seen, live, dbVars>>
    /\ UNCHANGED <<resolveVars, orphans>>

\* finalize_render_output_claim(); when it raises the job must be deleted.
Finalize(p) ==
    /\ pc[p] = "q_finalize"
    /\ \/ /\ FinalizeRenderOutputClaim(row[p], rid[p])
          /\ Return(p)
       \/ /\ Move(p, "q_delete")
          /\ UNCHANGED <<row, plan, rid, before, seen, live, dbVars>>
    /\ UNCHANGED <<resolveVars, orphans>>

\* delete_render_job() of the accepted job, or RenderReconciliationRequiredError.
DeleteAccepted(p) ==
    /\ pc[p] = "q_delete"
    /\ LoadProject(PlanEpisode[plan[p]])
    /\ \/ /\ DeleteJob(rid[p], PlanEpisode[plan[p]])
          /\ Move(p, "q_release")
          /\ UNCHANGED <<row, plan, rid, before, seen, live, orphans>>
       \/ /\ orphans' = orphans \cup {rid[p]}
          /\ Return(p)
          /\ UNCHANGED <<qStatus, qPlan>>
    /\ UNCHANGED <<settings, files, dbVars>>

\* release_render_output_claim(), which raises when the row is no longer claiming.
ReleaseClaim(p) ==
    /\ pc[p] = "q_release"
    /\ \/ ReleaseRenderOutputClaim(row[p])
       \/ rowStatus[row[p]] # "claiming" /\ UNCHANGED dbVars
    /\ Return(p)
    /\ UNCHANGED <<resolveVars, orphans>>

----------------------------------------------------------------------------
(* get_render_status() *)

\* The row is read; without a Resolve id the handler returns it as it is.
Poll(p, j) ==
    /\ pc[p] = "idle"
    /\ RowExists(j)
    /\ rowRid[j] # NoRid
    /\ row' = [row EXCEPT ![p] = j]
    /\ rid' = [rid EXCEPT ![p] = rowRid[j]]
    /\ seen' = [seen EXCEPT ![p] = rowStatus[j]]
    /\ Move(p, "p_ask")
    /\ UNCHANGED <<plan, before, live, dbVars, resolveVars, orphans>>

\* Mutant: an unknown status is written like a known one.
PollAskKeepsUnknown(p) ==
    /\ pc[p] = "p_ask"
    /\ live' = [live EXCEPT ![p] = LiveStatus(rid[p])]
    /\ Move(p, "p_write")
    /\ UNCHANGED <<row, plan, rid, before, seen, dbVars, resolveVars, orphans>>

\* Mutant: a row read in a final status is not synchronised any more.
PollAskUnlessFinished(p) ==
    /\ pc[p] = "p_ask"
    /\ LET s == LiveStatus(rid[p]) IN
       \/ /\ s \notin {"unknown", seen[p]}
          /\ seen[p] \in Active
          /\ live' = [live EXCEPT ![p] = s]
          /\ Move(p, "p_write")
          /\ UNCHANGED <<row, plan, rid, before, seen>>
       \/ /\ s \in {"unknown", seen[p]} \/ seen[p] \notin Active
          /\ Return(p)
    /\ UNCHANGED <<dbVars, resolveVars, orphans>>

\* Resolve's answer is kept only when known and not the status read before.
PollAsk(p) ==
    /\ pc[p] = "p_ask"
    /\ LET s == LiveStatus(rid[p]) IN
       \/ /\ s \notin {"unknown", seen[p]}
          /\ live' = [live EXCEPT ![p] = s]
          /\ Move(p, "p_write")
          /\ UNCHANGED <<row, plan, rid, before, seen>>
       \/ /\ s \in {"unknown", seen[p]}
          /\ Return(p)
    /\ UNCHANGED <<dbVars, resolveVars, orphans>>

\* Mutant: any final status marks the episode.
PollWriteAnyEnd(p) ==
    /\ pc[p] = "p_write"
    /\ UpdateRenderJob(row[p], live[p])
    /\ Move(p, IF live[p] \in Active THEN "idle" ELSE "p_episode")
    /\ UNCHANGED <<row, plan, rid, before, seen, live, resolveVars, orphans>>

\* The row takes the answer whatever its status is by now.
PollWrite(p) ==
    /\ pc[p] = "p_write"
    /\ UpdateRenderJob(row[p], live[p])
    /\ \/ /\ live[p] = "complete"
          /\ Move(p, "p_episode")
          /\ UNCHANGED <<row, plan, rid, before, seen, live>>
       \/ /\ live[p] # "complete"
          /\ Return(p)
    /\ UNCHANGED <<resolveVars, orphans>>

\* A second transaction marks the episode of the completed row.
PollEpisode(p) ==
    /\ pc[p] = "p_episode"
    /\ MarkEpisodeRendered(PlanEpisode[rowPlan[row[p]]])
    /\ Return(p)
    /\ UNCHANGED <<resolveVars, orphans>>

----------------------------------------------------------------------------
(* cancel_render() *)

\* The row is read; without a Resolve id Resolve is not asked.
Cancel(p, j) ==
    /\ pc[p] = "idle"
    /\ RowExists(j)
    /\ row' = [row EXCEPT ![p] = j]
    /\ rid' = [rid EXCEPT ![p] = rowRid[j]]
    /\ Move(p, IF rowRid[j] = NoRid THEN "c_write" ELSE "c_ask")
    /\ UNCHANGED <<plan, before, seen, live, dbVars, resolveVars, orphans>>

\* Mutant: an error of the adapter is swallowed.
CancelAskSwallows(p) ==
    /\ pc[p] = "c_ask"
    /\ CancelJob(rid[p]) \/ UNCHANGED <<qStatus, qPlan>>
    /\ Move(p, "c_write")
    /\ UNCHANGED <<row, plan, rid, before, seen, live, current, settings, files, dbVars, orphans>>

\* Resolve cancels the job; the adapter may still raise when it cannot
\* confirm the outcome afterwards.
CancelAsk(p) ==
    /\ pc[p] = "c_ask"
    /\ CancelJob(rid[p])
    /\ \/ /\ Move(p, "c_write")
          /\ UNCHANGED <<row, plan, rid, before, seen, live>>
       \/ Return(p)
    /\ UNCHANGED <<current, settings, files, dbVars, orphans>>

\* The row becomes cancelled whatever its status is by now.
CancelWrite(p) ==
    /\ pc[p] = "c_write"
    /\ UpdateRenderJob(row[p], "cancelled")
    /\ Return(p)
    /\ UNCHANGED <<resolveVars, orphans>>

----------------------------------------------------------------------------
(* start_render() *)

\* The row is queued, has a Resolve id, and its output is not on disk.
Start(p, j) ==
    /\ pc[p] = "idle"
    /\ rowStatus[j] = "queued"
    /\ rowRid[j] # NoRid
    /\ PlanOutput[rowPlan[j]] \notin files
    /\ row' = [row EXCEPT ![p] = j]
    /\ rid' = [rid EXCEPT ![p] = rowRid[j]]
    /\ Move(p, "s_start")
    /\ UNCHANGED <<plan, before, seen, live, dbVars, resolveVars, orphans>>

\* Mutant: the answer of StartRendering() is believed without the poll.
StartAskBelieves(p) ==
    /\ pc[p] = "s_start"
    /\ Startable(rid[p], rowPlan[row[p]])
    /\ StartJob(rid[p]) \/ UNCHANGED <<qStatus, qPlan>>
    /\ Move(p, "s_write")
    /\ UNCHANGED <<row, plan, rid, before, seen, live, current, settings, files, dbVars, orphans>>

\* StartRendering() starts the job; whether that is confirmed in time decides
\* between success and RenderStartReconciliationRequiredError.
StartAsk(p) ==
    /\ pc[p] = "s_start"
    /\ Startable(rid[p], rowPlan[row[p]])
    /\ StartJob(rid[p])
    /\ \/ /\ Move(p, "s_write")
          /\ UNCHANGED <<row, plan, rid, before, seen, live>>
       \/ Return(p)
    /\ UNCHANGED <<current, settings, files, dbVars, orphans>>

\* The guarded transition, or RenderStartPersistenceReconciliationRequired.
StartWrite(p) ==
    /\ pc[p] = "s_write"
    /\ \/ TransitionToRendering(row[p])
       \/ rowStatus[row[p]] # "queued" /\ UNCHANGED dbVars
    /\ Return(p)
    /\ UNCHANGED <<resolveVars, orphans>>

----------------------------------------------------------------------------
(* Failures, the archive, and the whole system. *)

\* A step that has no compensation raises and the handler ends there: the
\* database is locked, Resolve refuses, a precondition of the adapter fails.
HandlerFails(p) ==
    /\ pc[p] \in {"q_db", "q_list", "q_claim", "q_release", "p_ask", "p_write",
                  "p_episode", "c_ask", "c_write", "s_start", "s_write"}
    /\ Return(p)
    /\ UNCHANGED <<dbVars, resolveVars, orphans>>

\* The process dies between two steps; the next command is a new process.
Crash(p) ==
    /\ p \in Killable
    /\ pc[p] # "idle"
    /\ orphans' = IF pc[p] \in {"q_finalize", "q_delete"}
                  THEN orphans \cup {rid[p]} ELSE orphans
    /\ Return(p)
    /\ UNCHANGED <<dbVars, resolveVars>>

\* ArchiveManager.create_archive() reaching its commit.
ArchiveEpisode ==
    /\ \E e \in Episodes, j \in Jobs : CommitVerifiedArchive(e, j)
    /\ UNCHANGED <<resolveVars, procVars, orphans>>

Environment ==
    /\ OperatorOpensProject \/ OperatorStartsRender \/ RenderEnds
    /\ UNCHANGED <<dbVars, procVars, orphans>>

Queueing(p) ==
    \/ \E pl \in Plans : QueueRender(p, pl)
    \/ CheckDatabase(p) \/ CheckResolve(p) \/ Claim(p) \/ PrepareJob(p)
    \/ \E r \in Rids : AddAccepted(p, r)
    \/ AddRefused(p) \/ Finalize(p) \/ DeleteAccepted(p) \/ ReleaseClaim(p)

Polling(p) ==
    \/ \E j \in Jobs : Poll(p, j)
    \/ PollAsk(p) \/ PollWrite(p) \/ PollEpisode(p)

Cancelling(p) ==
    \/ \E j \in Jobs : Cancel(p, j)
    \/ CancelAsk(p) \/ CancelWrite(p)

Starting(p) ==
    \/ \E j \in Jobs : Start(p, j)
    \/ StartAsk(p) \/ StartWrite(p)

Process(p) ==
    Queueing(p) \/ Polling(p) \/ Cancelling(p) \/ Starting(p) \/ HandlerFails(p) \/ Crash(p)

Next == (\E p \in Procs : Process(p)) \/ ArchiveEpisode \/ Environment

Spec == Init /\ [][Next]_vars

\* The documented use of get_render_status(): an operator or client that lives
\* asks for every job again and again, finishes the calls it begins, and is
\* not refused for ever by the database or by Resolve.
KeepsPolling(p) ==
    /\ WF_vars(pc[p] # "idle" /\ Process(p))
    /\ \A j \in Jobs :
          /\ SF_vars(Poll(p, j))
          /\ SF_vars(row[p] = j /\ PollAsk(p))
          /\ SF_vars(row[p] = j /\ PollWrite(p))
          /\ SF_vars(row[p] = j /\ PollEpisode(p))

PollingSpec == Spec /\ \A p \in Procs \ Killable : KeepsPolling(p)

----------------------------------------------------------------------------
(* Properties of every interleaving. *)

\* At most one row claims an output at a time, whichever of the four kinds of
\* write (insert, finalize, start, poll) made it active.
OneActiveRowPerOutput ==
    \A j, k \in Jobs :
        /\ rowStatus[j] \in Active
        /\ rowStatus[k] \in Active
        /\ PlanOutput[rowPlan[j]] = PlanOutput[rowPlan[k]]
        => j = k

\* The status a row shows has been reached by its Resolve job.
Reached(r, s) ==
    CASE s = "queued"    -> qStatus[r] # "none"
      [] s = "rendering" -> qStatus[r] \notin {"none", "ready"}
      [] s = "complete"  -> PlanOutput[qPlan[r]] \in files
      [] OTHER           -> TRUE

\* The database is never ahead of Resolve: a row that says rendering has a job
\* that was started, one that says complete has its job's output on disk,
\* even when answers are written late, by other processes, or over each other.
RowNeverAhead ==
    \A j \in Jobs : rowRid[j] # NoRid => Reached(rowRid[j], rowStatus[j])

\* An episode counts as rendered or archived only once some output of that
\* very episode was rendered.
RenderedIsReal ==
    \A e \in Episodes : epStatus[e] \in {"rendered", "archived"} =>
        \E pl \in Plans : PlanEpisode[pl] = e /\ PlanOutput[pl] \in files

\* A job that waits or renders in Resolve is recorded in a row, held by a
\* running queue_render(), or known to have been left behind.
NoSilentOrphan ==
    \A r \in Rids : qStatus[r] \in {"ready", "rendering"} =>
        \/ r \in orphans
        \/ \E j \in Jobs : rowRid[j] = r
        \/ \E p \in Procs : pc[p] \in {"q_finalize", "q_delete"} /\ rid[p] = r

----------------------------------------------------------------------------
(* Properties of one process at a time (Procs a singleton). *)

\* The job id recorded with a row is a job for that row's plan.
RowOwnsItsJob ==
    \A j \in Jobs : rowRid[j] # NoRid => qPlan[rowRid[j]] = rowPlan[j]

\* Resolve never has two live jobs that write the same file.
OneLiveJobPerOutput ==
    \A r, s \in Rids :
        /\ qStatus[r] \in {"ready", "rendering"}
        /\ qStatus[s] \in {"ready", "rendering"}
        /\ PlanOutput[qPlan[r]] = PlanOutput[qPlan[s]]
        => r = s

\* A job that is cancelled for Redline does not wait or render in Resolve.
CancelledNotLive ==
    \A j \in Jobs : rowStatus[j] = "cancelled" /\ rowRid[j] # NoRid =>
        qStatus[rowRid[j]] \notin {"ready", "rendering"}

----------------------------------------------------------------------------
(* Under polling. *)

\* A row whose Resolve job completed ends up complete for good: no answer that
\* another process received earlier can replace it for ever.
RowConverges ==
    \A j \in Jobs :
        <>[](rowRid[j] # NoRid /\ qStatus[rowRid[j]] = "complete")
            => <>[](rowStatus[j] = "complete")

----------------------------------------------------------------------------
(* A statement of the documentation that the code does not keep. *)

\* Polling reconciles SQLite and Resolve on every call (render/manager.py): the
\* episode of a completed row becomes rendered.
CompletionReachesEpisode ==
    \A j \in Jobs, pl \in Plans :
        rowStatus[j] = "complete" /\ rowPlan[j] = pl
            ~> epStatus[PlanEpisode[pl]] \in {"rendered", "archived"}

=============================================================================
