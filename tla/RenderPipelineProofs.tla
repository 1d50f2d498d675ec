------------------------ MODULE RenderPipelineProofs ------------------------
(***************************************************************************)
(* Theorems about RenderPipeline for every number of processes, episodes,  *)
(* plans, rows and Resolve jobs.                                           *)
(***************************************************************************)
EXTENDS RenderPipeline, TLAPS

QueueSteps == {"q_db", "q_list", "q_claim", "q_prepare", "q_add",
               "q_finalize", "q_delete", "q_release"}

\* Every inserted row has the plan it claims; a row with a Resolve id went
\* through finalize_render_output_claim() and is never deleted.
RowShape ==
    \A j \in Jobs :
        /\ rowStatus[j] # "absent" => rowPlan[j] \in Plans
        /\ rowRid[j] # NoRid => rowStatus[j] \notin {"absent", "claiming", "deleted"}

\* Every job of Resolve has a destination, and a completed one wrote it.
JobShape ==
    \A r \in Rids :
        /\ qStatus[r] # "none" => qPlan[r] \in Plans
        /\ qStatus[r] = "complete" => PlanOutput[qPlan[r]] \in files

\* What the locals of a handler hold while it runs.
LocalShape ==
    \A p \in Procs :
        /\ pc[p] \in QueueSteps => plan[p] \in Plans
        /\ pc[p] \in {"q_prepare", "q_add", "q_finalize", "q_delete", "q_release"} =>
              row[p] \in Jobs /\ rowStatus[row[p]] # "absent"
        /\ pc[p] \in {"q_finalize", "q_delete"} =>
              rid[p] \in Rids /\ qStatus[rid[p]] # "none"
        /\ pc[p] \in {"p_ask", "p_write", "p_episode", "s_start", "s_write"} =>
              row[p] \in Jobs /\ rid[p] \in Rids /\ rowRid[row[p]] = rid[p]
        /\ pc[p] \in {"c_ask", "c_write"} => row[p] \in Jobs
        /\ pc[p] = "c_ask" => rid[p] \in Rids
        /\ pc[p] = "p_write" => live[p] \in LiveAnswers

Shape == TypeOK /\ RowShape /\ JobShape /\ LocalShape

USE DEF dbVars, resolveVars, procVars, Move,
        Steps, QueueSteps, LiveAnswers, RenderJobStatus, ResolveStatus, EpisodeStatus, NoStatus

\* Nothing is submitted and nobody runs at first.
LEMMA ShapeInit == Init => Shape
  BY PlanAssumption, SentinelAssumption
     DEF Init, DbInit, ResolveInit, Shape, TypeOK, DbTypeOK, ResolveTypeOK, ProcTypeOK,
         RowShape, JobShape, LocalShape

\* A handler that ends leaves well-typed locals.
LEMMA ReturnType ==
  ASSUME NEW p \in Procs, ProcTypeOK, Return(p)
  PROVE  ProcTypeOK'
  BY DEF ProcTypeOK, Return

\* ... and so does one that only moves on.
LEMMA MoveType ==
  ASSUME NEW p \in Procs, NEW s \in Steps, ProcTypeOK, Move(p, s),
         UNCHANGED <<row, plan, rid, before, seen, live>>
  PROVE  ProcTypeOK'
  BY DEF ProcTypeOK

\* Shape is kept by the plan of a submission.
LEMMA QueueRenderShape ==
  ASSUME NEW p \in Procs, NEW pl \in Plans, Shape, QueueRender(p, pl)
  PROVE  Shape'
  BY PlanAssumption, SentinelAssumption
     DEF QueueRender, Return, Shape, TypeOK, DbTypeOK, ResolveTypeOK, ProcTypeOK,
         RowShape, JobShape, LocalShape

\* Shape is kept by the check for an active row.
LEMMA CheckDatabaseShape ==
  ASSUME NEW p \in Procs, Shape, CheckDatabase(p)
  PROVE  Shape'
<1> USE PlanAssumption, SentinelAssumption DEF CheckDatabase, Shape
<1>1. TypeOK'
  <2>1. DbTypeOK'
    BY DEF TypeOK, DbTypeOK, ProcTypeOK, LocalShape
  <2>2. ResolveTypeOK'
    BY DEF TypeOK, ResolveTypeOK, JobShape, LocalShape
  <2>3. ProcTypeOK'
    BY ReturnType, MoveType DEF TypeOK, ProcTypeOK
  <2>4. (orphans \subseteq Rids)'
    BY DEF TypeOK, LocalShape
  <2> QED
    BY <2>1, <2>2, <2>3, <2>4 DEF TypeOK
<1>2. RowShape'
  BY DEF TypeOK, DbTypeOK, RowShape, LocalShape
<1>3. JobShape'
  BY DEF TypeOK, ResolveTypeOK, JobShape, LocalShape
<1>4. LocalShape'
  <2> SUFFICES ASSUME NEW q \in Procs PROVE LocalShape!(q)'
    BY DEF LocalShape
  <2>1. CASE q = p
    BY <2>1 DEF Return, TypeOK, DbTypeOK, ResolveTypeOK, ProcTypeOK, LocalShape, RowShape
  <2>2. CASE q # p
    BY <2>2 DEF Return, TypeOK, DbTypeOK, ResolveTypeOK, ProcTypeOK, LocalShape, RowShape
  <2> QED
    BY <2>1, <2>2
<1> QED
  BY <1>1, <1>2, <1>3, <1>4

\* Shape is kept by the check of Resolve's queue.
LEMMA CheckResolveShape ==
  ASSUME NEW p \in Procs, Shape, CheckResolve(p)
  PROVE  Shape'
<1> USE PlanAssumption, SentinelAssumption DEF CheckResolve, LoadProject, Shape
<1>1. TypeOK'
  <2>1. DbTypeOK'
    BY DEF TypeOK, DbTypeOK, ProcTypeOK, LocalShape
  <2>2. ResolveTypeOK'
    BY DEF TypeOK, ResolveTypeOK, JobShape, LocalShape
  <2>3. ProcTypeOK'
    BY ReturnType, MoveType DEF TypeOK, ProcTypeOK
  <2>4. (orphans \subseteq Rids)'
    BY DEF TypeOK, LocalShape
  <2> QED
    BY <2>1, <2>2, <2>3, <2>4 DEF TypeOK
<1>2. RowShape'
  BY DEF TypeOK, DbTypeOK, RowShape, LocalShape
<1>3. JobShape'
  BY DEF TypeOK, ResolveTypeOK, JobShape, LocalShape
<1>4. LocalShape'
  <2> SUFFICES ASSUME NEW q \in Procs PROVE LocalShape!(q)'
    BY DEF LocalShape
  <2>1. CASE q = p
    BY <2>1 DEF Return, TypeOK, DbTypeOK, ResolveTypeOK, ProcTypeOK, LocalShape, RowShape
  <2>2. CASE q # p
    BY <2>2 DEF Return, TypeOK, DbTypeOK, ResolveTypeOK, ProcTypeOK, LocalShape, RowShape
  <2> QED
    BY <2>1, <2>2
<1> QED
  BY <1>1, <1>2, <1>3, <1>4

\* Shape is kept by the claim.
LEMMA ClaimShape ==
  ASSUME NEW p \in Procs, Shape, Claim(p)
  PROVE  Shape'
<1> USE PlanAssumption, SentinelAssumption DEF Claim, ClaimRenderOutput, Shape
<1>1. TypeOK'
  <2>1. DbTypeOK'
    BY DEF TypeOK, DbTypeOK, ProcTypeOK, LocalShape
  <2>2. ResolveTypeOK'
    BY DEF TypeOK, ResolveTypeOK, JobShape, LocalShape
  <2>3. ProcTypeOK'
    BY ReturnType, MoveType DEF TypeOK, ProcTypeOK
  <2>4. (orphans \subseteq Rids)'
    BY DEF TypeOK, LocalShape
  <2> QED
    BY <2>1, <2>2, <2>3, <2>4 DEF TypeOK
<1>2. RowShape'
  BY DEF TypeOK, DbTypeOK, RowShape, LocalShape
<1>3. JobShape'
  BY DEF TypeOK, ResolveTypeOK, JobShape, LocalShape
<1>4. LocalShape'
  <2> SUFFICES ASSUME NEW q \in Procs PROVE LocalShape!(q)'
    BY DEF LocalShape
  <2>1. CASE q = p
    BY <2>1 DEF Return, TypeOK, DbTypeOK, ResolveTypeOK, ProcTypeOK, LocalShape, RowShape
  <2>2. CASE q # p
    BY <2>2 DEF Return, TypeOK, DbTypeOK, ResolveTypeOK, ProcTypeOK, LocalShape, RowShape
  <2> QED
    BY <2>1, <2>2
<1> QED
  BY <1>1, <1>2, <1>3, <1>4

\* Shape is kept by the render settings.
LEMMA PrepareJobShape ==
  ASSUME NEW p \in Procs, Shape, PrepareJob(p)
  PROVE  Shape'
  BY PlanAssumption, SentinelAssumption
     DEF PrepareJob, LoadProject, QueueOf, Return, Shape, TypeOK, DbTypeOK, ResolveTypeOK, ProcTypeOK,
         RowShape, JobShape, LocalShape

\* Shape is kept by an accepted job.
LEMMA AddAcceptedShape ==
  ASSUME NEW p \in Procs, NEW r \in Rids, Shape, AddAccepted(p, r)
  PROVE  Shape'
  BY PlanAssumption, SentinelAssumption
     DEF AddAccepted, AddJob, Return, Shape, TypeOK, DbTypeOK, ResolveTypeOK, ProcTypeOK,
         RowShape, JobShape, LocalShape

\* Shape is kept by a refused job.
LEMMA AddRefusedShape ==
  ASSUME NEW p \in Procs, Shape, AddRefused(p)
  PROVE  Shape'
<1> USE PlanAssumption, SentinelAssumption DEF AddRefused, Candidates, Shape
<1>1. TypeOK'
  <2>1. DbTypeOK'
    BY DEF TypeOK, DbTypeOK, ProcTypeOK, LocalShape
  <2>2. ResolveTypeOK'
    BY DEF TypeOK, ResolveTypeOK, JobShape, LocalShape
  <2>3. ProcTypeOK'
    BY ReturnType, MoveType DEF TypeOK, ProcTypeOK
  <2>4. (orphans \subseteq Rids)'
    BY DEF TypeOK, LocalShape
  <2> QED
    BY <2>1, <2>2, <2>3, <2>4 DEF TypeOK
<1>2. RowShape'
  BY DEF TypeOK, DbTypeOK, RowShape, LocalShape
<1>3. JobShape'
  BY DEF TypeOK, ResolveTypeOK, JobShape, LocalShape
<1>4. LocalShape'
  <2> SUFFICES ASSUME NEW q \in Procs PROVE LocalShape!(q)'
    BY DEF LocalShape
  <2>1. CASE q = p
    BY <2>1 DEF QueueOf, Return, TypeOK, DbTypeOK, ResolveTypeOK, ProcTypeOK, LocalShape, RowShape
  <2>2. CASE q # p
    BY <2>2 DEF Return, TypeOK, DbTypeOK, ResolveTypeOK, ProcTypeOK, LocalShape, RowShape
  <2> QED
    BY <2>1, <2>2
<1> QED
  BY <1>1, <1>2, <1>3, <1>4

\* Shape is kept by the recording of the job.
LEMMA FinalizeShape ==
  ASSUME NEW p \in Procs, Shape, Finalize(p)
  PROVE  Shape'
<1> USE PlanAssumption, SentinelAssumption DEF Finalize, FinalizeRenderOutputClaim, Shape
<1>1. TypeOK'
  <2>1. DbTypeOK'
    BY DEF TypeOK, DbTypeOK, ProcTypeOK, LocalShape
  <2>2. ResolveTypeOK'
    BY DEF TypeOK, ResolveTypeOK, JobShape, LocalShape
  <2>3. ProcTypeOK'
    BY ReturnType, MoveType DEF TypeOK, ProcTypeOK
  <2>4. (orphans \subseteq Rids)'
    BY DEF TypeOK, LocalShape
  <2> QED
    BY <2>1, <2>2, <2>3, <2>4 DEF TypeOK
<1>2. RowShape'
  BY DEF TypeOK, DbTypeOK, RowShape, LocalShape
<1>3. JobShape'
  BY DEF TypeOK, ResolveTypeOK, JobShape, LocalShape
<1>4. LocalShape'
  <2> SUFFICES ASSUME NEW q \in Procs PROVE LocalShape!(q)'
    BY DEF LocalShape
  <2>1. CASE q = p
    BY <2>1 DEF Return, TypeOK, DbTypeOK, ResolveTypeOK, ProcTypeOK, LocalShape, RowShape
  <2>2. CASE q # p
    BY <2>2 DEF Return, TypeOK, DbTypeOK, ResolveTypeOK, ProcTypeOK, LocalShape, RowShape
  <2> QED
    BY <2>1, <2>2
<1> QED
  BY <1>1, <1>2, <1>3, <1>4

\* Shape is kept by the deletion of an accepted job.
LEMMA DeleteAcceptedShape ==
  ASSUME NEW p \in Procs, Shape, DeleteAccepted(p)
  PROVE  Shape'
<1> USE PlanAssumption, SentinelAssumption DEF DeleteAccepted, LoadProject, DeleteJob, QueueOf, Shape
<1>1. TypeOK'
  <2>1. DbTypeOK'
    BY DEF TypeOK, DbTypeOK, ProcTypeOK, LocalShape
  <2>2. ResolveTypeOK'
    BY DEF TypeOK, ResolveTypeOK, JobShape, LocalShape
  <2>3. ProcTypeOK'
    BY ReturnType, MoveType DEF TypeOK, ProcTypeOK
  <2>4. (orphans \subseteq Rids)'
    BY DEF TypeOK, LocalShape
  <2> QED
    BY <2>1, <2>2, <2>3, <2>4 DEF TypeOK
<1>2. RowShape'
  BY DEF TypeOK, DbTypeOK, RowShape, LocalShape
<1>3. JobShape'
  BY DEF TypeOK, ResolveTypeOK, JobShape, LocalShape
<1>4. LocalShape'
  <2> SUFFICES ASSUME NEW q \in Procs PROVE LocalShape!(q)'
    BY DEF LocalShape
  <2>1. CASE q = p
    BY <2>1 DEF Return, TypeOK, DbTypeOK, ResolveTypeOK, ProcTypeOK, LocalShape, RowShape
  <2>2. CASE q # p
    BY <2>2 DEF Return, TypeOK, DbTypeOK, ResolveTypeOK, ProcTypeOK, LocalShape, RowShape
  <2> QED
    BY <2>1, <2>2
<1> QED
  BY <1>1, <1>2, <1>3, <1>4

\* Shape is kept by the release of the claim.
LEMMA ReleaseClaimShape ==
  ASSUME NEW p \in Procs, Shape, ReleaseClaim(p)
  PROVE  Shape'
  BY PlanAssumption, SentinelAssumption
     DEF ReleaseClaim, ReleaseRenderOutputClaim, Return, Shape, TypeOK, DbTypeOK, ResolveTypeOK, ProcTypeOK,
         RowShape, JobShape, LocalShape

\* Shape is kept by the read of a poll.
LEMMA PollShape ==
  ASSUME NEW p \in Procs, NEW j \in Jobs, Shape, Poll(p, j)
  PROVE  Shape'
  BY PlanAssumption, SentinelAssumption
     DEF Poll, RowExists, Return, Shape, TypeOK, DbTypeOK, ResolveTypeOK, ProcTypeOK,
         RowShape, JobShape, LocalShape

\* Shape is kept by the poll's question to Resolve.
LEMMA PollAskShape ==
  ASSUME NEW p \in Procs, Shape, PollAsk(p)
  PROVE  Shape'
<1> USE PlanAssumption, SentinelAssumption DEF PollAsk, LiveStatus, QueueOf, Canonical, Shape
<1>1. TypeOK'
  <2>1. DbTypeOK'
    BY DEF TypeOK, DbTypeOK, ProcTypeOK, LocalShape
  <2>2. ResolveTypeOK'
    BY DEF TypeOK, ResolveTypeOK, JobShape, LocalShape
  <2>3. ProcTypeOK'
    BY ReturnType, MoveType DEF TypeOK, ProcTypeOK
  <2>4. (orphans \subseteq Rids)'
    BY DEF TypeOK, LocalShape
  <2> QED
    BY <2>1, <2>2, <2>3, <2>4 DEF TypeOK
<1>2. RowShape'
  BY DEF TypeOK, DbTypeOK, RowShape, LocalShape
<1>3. JobShape'
  BY DEF TypeOK, ResolveTypeOK, JobShape, LocalShape
<1>4. LocalShape'
  <2> SUFFICES ASSUME NEW q \in Procs PROVE LocalShape!(q)'
    BY DEF LocalShape
  <2>1. CASE q = p
    BY <2>1 DEF Return, TypeOK, DbTypeOK, ResolveTypeOK, ProcTypeOK, LocalShape, RowShape
  <2>2. CASE q # p
    BY <2>2 DEF Return, TypeOK, DbTypeOK, ResolveTypeOK, ProcTypeOK, LocalShape, RowShape
  <2> QED
    BY <2>1, <2>2
<1> QED
  BY <1>1, <1>2, <1>3, <1>4

\* Shape is kept by the poll's write to the row.
LEMMA PollWriteShape ==
  ASSUME NEW p \in Procs, Shape, PollWrite(p)
  PROVE  Shape'
<1> USE PlanAssumption, SentinelAssumption DEF PollWrite, UpdateRenderJob, RowExists, Shape
<1>1. TypeOK'
  <2>1. DbTypeOK'
    BY DEF TypeOK, DbTypeOK, ProcTypeOK, LocalShape
  <2>2. ResolveTypeOK'
    BY DEF TypeOK, ResolveTypeOK, JobShape, LocalShape
  <2>3. ProcTypeOK'
    BY ReturnType, MoveType DEF TypeOK, ProcTypeOK
  <2>4. (orphans \subseteq Rids)'
    BY DEF TypeOK, LocalShape
  <2> QED
    BY <2>1, <2>2, <2>3, <2>4 DEF TypeOK
<1>2. RowShape'
  BY DEF TypeOK, DbTypeOK, RowShape, LocalShape
<1>3. JobShape'
  BY DEF TypeOK, ResolveTypeOK, JobShape, LocalShape
<1>4. LocalShape'
  <2> SUFFICES ASSUME NEW q \in Procs PROVE LocalShape!(q)'
    BY DEF LocalShape
  <2>1. CASE q = p
    BY <2>1 DEF Return, TypeOK, DbTypeOK, ResolveTypeOK, ProcTypeOK, LocalShape, RowShape
  <2>2. CASE q # p
    BY <2>2 DEF Return, TypeOK, DbTypeOK, ResolveTypeOK, ProcTypeOK, LocalShape, RowShape
  <2> QED
    BY <2>1, <2>2
<1> QED
  BY <1>1, <1>2, <1>3, <1>4

\* Shape is kept by the poll's write to the episode.
LEMMA PollEpisodeShape ==
  ASSUME NEW p \in Procs, Shape, PollEpisode(p)
  PROVE  Shape'
  BY PlanAssumption, SentinelAssumption
     DEF PollEpisode, MarkEpisodeRendered, Return, Shape, TypeOK, DbTypeOK, ResolveTypeOK, ProcTypeOK,
         RowShape, JobShape, LocalShape

\* Shape is kept by the read of a cancellation.
LEMMA CancelShape ==
  ASSUME NEW p \in Procs, NEW j \in Jobs, Shape, Cancel(p, j)
  PROVE  Shape'
  BY PlanAssumption, SentinelAssumption
     DEF Cancel, RowExists, Return, Shape, TypeOK, DbTypeOK, ResolveTypeOK, ProcTypeOK,
         RowShape, JobShape, LocalShape

\* Shape is kept by the cancellation's question to Resolve.
LEMMA CancelAskShape ==
  ASSUME NEW p \in Procs, Shape, CancelAsk(p)
  PROVE  Shape'
<1> USE PlanAssumption, SentinelAssumption DEF CancelAsk, CancelJob, QueueOf, RenderingIn, Shape
<1>1. TypeOK'
  <2>1. DbTypeOK'
    BY DEF TypeOK, DbTypeOK, ProcTypeOK, LocalShape
  <2>2. ResolveTypeOK'
    BY DEF TypeOK, ResolveTypeOK, JobShape, LocalShape
  <2>3. ProcTypeOK'
    BY ReturnType, MoveType DEF TypeOK, ProcTypeOK
  <2>4. (orphans \subseteq Rids)'
    BY DEF TypeOK, LocalShape
  <2> QED
    BY <2>1, <2>2, <2>3, <2>4 DEF TypeOK
<1>2. RowShape'
  BY DEF TypeOK, DbTypeOK, RowShape, LocalShape
<1>3. JobShape'
  BY DEF TypeOK, ResolveTypeOK, JobShape, LocalShape
<1>4. LocalShape'
  <2> SUFFICES ASSUME NEW q \in Procs PROVE LocalShape!(q)'
    BY DEF LocalShape
  <2>1. CASE q = p
    BY <2>1 DEF Return, TypeOK, DbTypeOK, ResolveTypeOK, ProcTypeOK, LocalShape, RowShape
  <2>2. CASE q # p
    BY <2>2 DEF Return, TypeOK, DbTypeOK, ResolveTypeOK, ProcTypeOK, LocalShape, RowShape
  <2> QED
    BY <2>1, <2>2
<1> QED
  BY <1>1, <1>2, <1>3, <1>4

\* Shape is kept by the cancellation's write.
LEMMA CancelWriteShape ==
  ASSUME NEW p \in Procs, Shape, CancelWrite(p)
  PROVE  Shape'
  BY PlanAssumption, SentinelAssumption
     DEF CancelWrite, UpdateRenderJob, RowExists, Return, Shape, TypeOK, DbTypeOK, ResolveTypeOK, ProcTypeOK,
         RowShape, JobShape, LocalShape

\* Shape is kept by the read of a start.
LEMMA StartShape ==
  ASSUME NEW p \in Procs, NEW j \in Jobs, Shape, Start(p, j)
  PROVE  Shape'
  BY PlanAssumption, SentinelAssumption
     DEF Start, Return, Shape, TypeOK, DbTypeOK, ResolveTypeOK, ProcTypeOK,
         RowShape, JobShape, LocalShape

\* Shape is kept by the start's request to Resolve.
LEMMA StartAskShape ==
  ASSUME NEW p \in Procs, Shape, StartAsk(p)
  PROVE  Shape'
<1> USE PlanAssumption, SentinelAssumption DEF StartAsk, Startable, StartJob, QueueOf, Shape
<1>1. TypeOK'
  <2>1. DbTypeOK'
    BY DEF TypeOK, DbTypeOK, ProcTypeOK, LocalShape
  <2>2. ResolveTypeOK'
    BY DEF TypeOK, ResolveTypeOK, JobShape, LocalShape
  <2>3. ProcTypeOK'
    BY ReturnType, MoveType DEF TypeOK, ProcTypeOK
  <2>4. (orphans \subseteq Rids)'
    BY DEF TypeOK, LocalShape
  <2> QED
    BY <2>1, <2>2, <2>3, <2>4 DEF TypeOK
<1>2. RowShape'
  BY DEF TypeOK, DbTypeOK, RowShape, LocalShape
<1>3. JobShape'
  BY DEF TypeOK, ResolveTypeOK, JobShape, LocalShape
<1>4. LocalShape'
  <2> SUFFICES ASSUME NEW q \in Procs PROVE LocalShape!(q)'
    BY DEF LocalShape
  <2>1. CASE q = p
    BY <2>1 DEF Return, TypeOK, DbTypeOK, ResolveTypeOK, ProcTypeOK, LocalShape, RowShape
  <2>2. CASE q # p
    BY <2>2 DEF Return, TypeOK, DbTypeOK, ResolveTypeOK, ProcTypeOK, LocalShape, RowShape
  <2> QED
    BY <2>1, <2>2
<1> QED
  BY <1>1, <1>2, <1>3, <1>4

\* Shape is kept by the start's write.
LEMMA StartWriteShape ==
  ASSUME NEW p \in Procs, Shape, StartWrite(p)
  PROVE  Shape'
<1> USE PlanAssumption, SentinelAssumption DEF StartWrite, TransitionToRendering, Shape
<1>1. TypeOK'
  <2>1. DbTypeOK'
    BY DEF TypeOK, DbTypeOK, ProcTypeOK, LocalShape
  <2>2. ResolveTypeOK'
    BY DEF TypeOK, ResolveTypeOK, JobShape, LocalShape
  <2>3. ProcTypeOK'
    BY ReturnType, MoveType DEF TypeOK, ProcTypeOK
  <2>4. (orphans \subseteq Rids)'
    BY DEF TypeOK, LocalShape
  <2> QED
    BY <2>1, <2>2, <2>3, <2>4 DEF TypeOK
<1>2. RowShape'
  BY DEF TypeOK, DbTypeOK, RowShape, LocalShape
<1>3. JobShape'
  BY DEF TypeOK, ResolveTypeOK, JobShape, LocalShape
<1>4. LocalShape'
  <2> SUFFICES ASSUME NEW q \in Procs PROVE LocalShape!(q)'
    BY DEF LocalShape
  <2>1. CASE q = p
    BY <2>1 DEF Return, TypeOK, DbTypeOK, ResolveTypeOK, ProcTypeOK, LocalShape, RowShape
  <2>2. CASE q # p
    BY <2>2 DEF Return, TypeOK, DbTypeOK, ResolveTypeOK, ProcTypeOK, LocalShape, RowShape
  <2> QED
    BY <2>1, <2>2
<1> QED
  BY <1>1, <1>2, <1>3, <1>4

\* Shape is kept by a handler that fails.
LEMMA HandlerFailsShape ==
  ASSUME NEW p \in Procs, Shape, HandlerFails(p)
  PROVE  Shape'
  BY PlanAssumption, SentinelAssumption
     DEF HandlerFails, Return, Shape, TypeOK, DbTypeOK, ResolveTypeOK, ProcTypeOK,
         RowShape, JobShape, LocalShape

\* Shape is kept by the death of a process.
LEMMA CrashShape ==
  ASSUME NEW p \in Procs, Shape, Crash(p)
  PROVE  Shape'
  BY PlanAssumption, SentinelAssumption
     DEF Crash, Return, Shape, TypeOK, DbTypeOK, ResolveTypeOK, ProcTypeOK,
         RowShape, JobShape, LocalShape

\* Shape is kept by the commit of an archive.
LEMMA ArchiveEpisodeShape ==
  ASSUME Shape, ArchiveEpisode
  PROVE  Shape'
  BY PlanAssumption, SentinelAssumption
     DEF ArchiveEpisode, CommitVerifiedArchive, Shape, TypeOK, DbTypeOK, ResolveTypeOK, ProcTypeOK,
         RowShape, JobShape, LocalShape

\* Shape is kept by what happens at the Resolve window.
LEMMA EnvironmentShape ==
  ASSUME Shape, Environment
  PROVE  Shape'
  BY PlanAssumption, SentinelAssumption
     DEF Environment, OperatorOpensProject, OperatorStartsRender, RenderEnds, LoadProject, StartJob,
         QueueOf, RenderingIn, Shape, TypeOK, DbTypeOK, ResolveTypeOK, ProcTypeOK,
         RowShape, JobShape, LocalShape

\* The shape survives every step of the system.
LEMMA ShapeNext ==
  ASSUME Shape, [Next]_vars
  PROVE  Shape'
<1>1. ASSUME NEW p \in Procs, Queueing(p) PROVE Shape'
  BY <1>1, QueueRenderShape, CheckDatabaseShape, CheckResolveShape, ClaimShape, PrepareJobShape,
     AddAcceptedShape, AddRefusedShape, FinalizeShape, DeleteAcceptedShape, ReleaseClaimShape
     DEF Queueing
<1>2. ASSUME NEW p \in Procs, Polling(p) PROVE Shape'
  BY <1>2, PollShape, PollAskShape, PollWriteShape, PollEpisodeShape DEF Polling
<1>3. ASSUME NEW p \in Procs, Cancelling(p) PROVE Shape'
  BY <1>3, CancelShape, CancelAskShape, CancelWriteShape DEF Cancelling
<1>4. ASSUME NEW p \in Procs, Starting(p) PROVE Shape'
  BY <1>4, StartShape, StartAskShape, StartWriteShape DEF Starting
<1>5. CASE UNCHANGED vars
  BY <1>5 DEF vars, Shape, TypeOK, DbTypeOK, ResolveTypeOK, ProcTypeOK, RowShape, JobShape, LocalShape
<1> QED
  BY <1>1, <1>2, <1>3, <1>4, <1>5, HandlerFailsShape, CrashShape, ArchiveEpisodeShape, EnvironmentShape
     DEF Next, Process

\* Types and what a handler holds at each step are inductive.
LEMMA ShapeInvariant == Spec => []Shape
<1>1. Shape /\ [Next]_vars => Shape'
  BY ShapeNext
<1> QED
  BY ShapeInit, <1>1, PTL DEF Spec

\* Every variable keeps its type in every reachable state, whatever the
\* processes do and wherever they die.
THEOREM TypeCorrect == Spec => []TypeOK
<1>1. Shape => TypeOK
  BY DEF Shape
<1> QED
  BY <1>1, ShapeInvariant, PTL

----------------------------------------------------------------------------
(* One active row per output. *)

\* What a step may do to the database: nothing, or one transaction.
DatabaseStep ==
    \/ UNCHANGED dbVars
    \/ \E j \in Jobs, pl \in Plans : ClaimRenderOutput(j, pl)
    \/ \E j \in Jobs, r \in Rids : FinalizeRenderOutputClaim(j, r)
    \/ \E j \in Jobs : ReleaseRenderOutputClaim(j)
    \/ \E j \in Jobs : TransitionToRendering(j)
    \/ \E j \in Jobs, s \in LiveAnswers : UpdateRenderJob(j, s)
    \/ \E e \in Episodes : MarkEpisodeRendered(e)
    \/ \E e \in Episodes, j \in Jobs : CommitVerifiedArchive(e, j)

\* A step makes one transaction of the seven, or none.
LEMMA OneTransactionPerStep ==
  ASSUME Shape, [Next]_vars
  PROVE  DatabaseStep
<1> USE DEF Shape, LocalShape
<1>1. ASSUME NEW p \in Procs, Queueing(p) PROVE DatabaseStep
  <2>1. CASE Claim(p)
    BY <2>1 DEF Claim, DatabaseStep
  <2>2. CASE Finalize(p)
    BY <2>2 DEF Finalize, DatabaseStep
  <2>3. CASE ReleaseClaim(p)
    BY <2>3 DEF ReleaseClaim, DatabaseStep
  <2> QED
    BY <1>1, <2>1, <2>2, <2>3
       DEF Queueing, QueueRender, CheckDatabase, CheckResolve, PrepareJob, AddAccepted,
           AddRefused, DeleteAccepted, DatabaseStep
<1>2. ASSUME NEW p \in Procs, Polling(p) PROVE DatabaseStep
  <2>1. CASE PollWrite(p)
    BY <2>1 DEF PollWrite, DatabaseStep
  <2>2. CASE PollEpisode(p)
    <3>1. rowPlan[row[p]] \in Plans
      BY <2>2, SentinelAssumption DEF PollEpisode, RowShape, TypeOK, DbTypeOK
    <3> QED
      BY <2>2, <3>1, PlanAssumption DEF PollEpisode, DatabaseStep
  <2> QED
    BY <1>2, <2>1, <2>2 DEF Polling, Poll, PollAsk, DatabaseStep
<1>3. ASSUME NEW p \in Procs, Cancelling(p) PROVE DatabaseStep
  <2>1. CASE CancelWrite(p)
    BY <2>1 DEF CancelWrite, DatabaseStep
  <2> QED
    BY <1>3, <2>1 DEF Cancelling, Cancel, CancelAsk, DatabaseStep
<1>4. ASSUME NEW p \in Procs, Starting(p) PROVE DatabaseStep
  <2>1. CASE StartWrite(p)
    BY <2>1 DEF StartWrite, DatabaseStep
  <2> QED
    BY <1>4, <2>1 DEF Starting, Start, StartAsk, DatabaseStep
<1>5. CASE ArchiveEpisode
  BY <1>5 DEF ArchiveEpisode, DatabaseStep
<1>6. CASE Environment \/ UNCHANGED vars \/ \E p \in Procs : HandlerFails(p) \/ Crash(p)
  BY <1>6 DEF Environment, vars, HandlerFails, Crash, DatabaseStep
<1> QED
  BY <1>1, <1>2, <1>3, <1>4, <1>5, <1>6 DEF Next, Process

\* No transaction gives an output a second active row.
LEMMA TransactionKeepsOneActiveRow ==
  ASSUME Shape, OneActiveRowPerOutput, DatabaseStep
  PROVE  OneActiveRowPerOutput'
<1> USE DEF Shape, TypeOK, DbTypeOK, OneActiveRowPerOutput, Active
<1>1. ASSUME NEW j \in Jobs, NEW pl \in Plans, ClaimRenderOutput(j, pl)
      PROVE  OneActiveRowPerOutput'
  BY <1>1 DEF ClaimRenderOutput, IndexAllows, Occupies
<1>2. ASSUME NEW j \in Jobs, NEW r \in Rids, FinalizeRenderOutputClaim(j, r)
      PROVE  OneActiveRowPerOutput'
  BY <1>2 DEF FinalizeRenderOutputClaim
<1>3. ASSUME NEW j \in Jobs, ReleaseRenderOutputClaim(j) \/ TransitionToRendering(j)
      PROVE  OneActiveRowPerOutput'
  BY <1>3 DEF ReleaseRenderOutputClaim, TransitionToRendering
<1>4. ASSUME NEW j \in Jobs, NEW s \in LiveAnswers, UpdateRenderJob(j, s)
      PROVE  OneActiveRowPerOutput'
  <2>1. CASE RowExists(j)
    BY <1>4, <2>1 DEF UpdateRenderJob, IndexAllows, Occupies
  <2>2. CASE ~ RowExists(j)
    BY <1>4, <2>2 DEF UpdateRenderJob
  <2> QED
    BY <2>1, <2>2
<1>5. ASSUME UNCHANGED <<rowStatus, rowPlan>>
      PROVE  OneActiveRowPerOutput'
  BY <1>5
<1> QED
  BY <1>1, <1>2, <1>3, <1>4, <1>5
     DEF DatabaseStep, MarkEpisodeRendered, CommitVerifiedArchive

\* Whatever the interleaving of submissions, polls, starts and cancels, no
\* output ever has two rows in an active status.
THEOREM OneActiveRow == Spec => []OneActiveRowPerOutput
<1>1. Init => OneActiveRowPerOutput
  BY DEF Init, DbInit, OneActiveRowPerOutput, Active
<1>2. Shape /\ OneActiveRowPerOutput /\ [Next]_vars => OneActiveRowPerOutput'
  BY OneTransactionPerStep, TransactionKeepsOneActiveRow
<1> QED
  BY <1>1, <1>2, ShapeInvariant, PTL DEF Spec

----------------------------------------------------------------------------
(* The database is never ahead of Resolve. *)

\* A job Resolve knows keeps its destination, never returns to waiting, and
\* output files stay.
LEMMA JobsOnlyAdvance ==
  ASSUME Shape, [Next]_vars, NEW r \in Rids, qStatus[r] # "none"
  PROVE  /\ qStatus'[r] # "none"
         /\ qPlan'[r] = qPlan[r]
         /\ qStatus[r] # "ready" => qStatus'[r] # "ready"
         /\ files \subseteq files'
<1> DEFINE Advances == /\ qStatus'[r] # "none"
                       /\ qPlan'[r] = qPlan[r]
                       /\ qStatus[r] # "ready" => qStatus'[r] # "ready"
                       /\ files \subseteq files'
<1> USE DEF Shape, TypeOK, ResolveTypeOK
<1>1. ASSUME NEW p \in Procs, NEW x \in Rids, AddAccepted(p, x) PROVE Advances
  BY <1>1 DEF AddAccepted, AddJob
<1>2. ASSUME NEW p \in Procs, DeleteAccepted(p) PROVE Advances
  BY <1>2 DEF DeleteAccepted, DeleteJob
<1>3. ASSUME NEW p \in Procs, CancelAsk(p) PROVE Advances
  BY <1>3 DEF CancelAsk, CancelJob
<1>4. ASSUME NEW p \in Procs, StartAsk(p) PROVE Advances
  BY <1>4 DEF StartAsk, StartJob
<1>5. CASE Environment
  BY <1>5 DEF Environment, OperatorOpensProject, OperatorStartsRender, RenderEnds, StartJob
<1>6. CASE UNCHANGED <<qStatus, qPlan, files>>
  BY <1>6
<1>7. ASSUME NEW p \in Procs, Process(p) PROVE Advances
  BY <1>1, <1>2, <1>3, <1>4, <1>6, <1>7
     DEF Process, Queueing, Polling, Cancelling, Starting, QueueRender, CheckDatabase,
         CheckResolve, Claim, PrepareJob, AddRefused, Finalize, ReleaseClaim, Poll, PollAsk,
         PollWrite, PollEpisode, Cancel, CancelWrite, Start, StartWrite, HandlerFails, Crash
<1> QED
  BY <1>5, <1>6, <1>7 DEF Next, ArchiveEpisode, vars

\* What RowNeverAhead needs to survive a step: the ids in rows are ids of jobs,
\* and what a handler is about to write has already come true in Resolve.
Truth ==
    /\ RowNeverAhead
    /\ \A j \in Jobs : rowRid[j] # NoRid => qStatus[rowRid[j]] # "none"
    /\ \A p \in Procs : pc[p] = "p_write" => Reached(rid[p], live[p])
    /\ \A p \in Procs : pc[p] = "s_write" => Reached(rid[p], "rendering")

\* What a job has reached it has reached for good.
LEMMA ReachedIsStable ==
  ASSUME Shape, [Next]_vars, NEW r \in Rids, NEW s, qStatus[r] # "none", Reached(r, s)
  PROVE  Reached(r, s)'
  BY JobsOnlyAdvance DEF Reached

\* The answer PollAsk keeps is true of the job at that moment.
LEMMA AnswerIsTrue ==
  ASSUME Shape, NEW r \in Rids, LiveStatus(r) # "unknown"
  PROVE  Reached(r, LiveStatus(r))
  BY DEF LiveStatus, Canonical, Reached, QueueOf, Shape, JobShape

\* Rows: a step leaves a row alone, or writes what Reached already says.
LEMMA RowsStayTrue ==
  ASSUME Shape, Truth, [Next]_vars, NEW j \in Jobs, rowRid'[j] # NoRid
  PROVE  Reached(rowRid[j], rowStatus[j])' /\ qStatus'[rowRid'[j]] # "none"
<1> DEFINE Good == Reached(rowRid[j], rowStatus[j])' /\ qStatus'[rowRid'[j]] # "none"
<1> USE DEF Shape, TypeOK, DbTypeOK, LocalShape
<1>1. ASSUME rowRid'[j] = rowRid[j], rowStatus'[j] = rowStatus[j] PROVE Good
  <2>1. rowRid[j] \in Rids /\ qStatus[rowRid[j]] # "none" /\ Reached(rowRid[j], rowStatus[j])
    BY <1>1 DEF Truth, RowNeverAhead
  <2>2. Reached(rowRid[j], rowStatus[j])'
    BY <1>1, <2>1, JobsOnlyAdvance DEF Reached
  <2> QED
    BY <1>1, <2>1, <2>2, JobsOnlyAdvance
<1>2. ASSUME NEW p \in Procs, Finalize(p) PROVE Good
  <2>1. CASE pc[p] = "q_finalize" /\ row[p] = j /\ FinalizeRenderOutputClaim(j, rid[p])
    BY <2>1, <1>2, JobsOnlyAdvance DEF FinalizeRenderOutputClaim, Finalize, Reached
  <2> QED
    BY <1>1, <1>2, <2>1 DEF Finalize, FinalizeRenderOutputClaim
<1>3. ASSUME NEW p \in Procs, PollWrite(p) PROVE Good
  <2>1. CASE row[p] = j
    <3>1. rid[p] = rowRid[j] /\ rid[p] \in Rids /\ rowRid'[j] = rowRid[j]
      BY <1>3, <2>1 DEF PollWrite, UpdateRenderJob
    <3>2. qStatus[rowRid[j]] # "none" /\ Reached(rowRid[j], live[p])
      BY <1>3, <3>1, SentinelAssumption DEF PollWrite, Truth
    <3>3. rowStatus'[j] \in {rowStatus[j], live[p]}
      BY <1>3, <2>1 DEF PollWrite, UpdateRenderJob
    <3>4. CASE rowStatus'[j] = live[p]
      <4>1. qStatus'[rowRid[j]] # "none"
        BY <3>1, <3>2, JobsOnlyAdvance
      <4>2. Reached(rowRid[j], rowStatus[j])'
        BY <3>1, <3>2, <3>4, JobsOnlyAdvance DEF Reached
      <4> QED
        BY <3>1, <4>1, <4>2
    <3> QED
      BY <3>1, <3>3, <3>4, <1>1
  <2>2. CASE row[p] # j
    BY <1>1, <1>3, <2>2 DEF PollWrite, UpdateRenderJob
  <2> QED
    BY <2>1, <2>2
<1>4. ASSUME NEW p \in Procs, CancelWrite(p) PROVE Good
  <2>1. CASE rowStatus'[j] = "cancelled"
    <3>1. rowRid'[j] = rowRid[j] /\ rowRid[j] \in Rids
      BY <1>4 DEF CancelWrite, UpdateRenderJob
    <3> QED
      BY <2>1, <3>1, JobsOnlyAdvance DEF Truth, Reached
  <2> QED
    BY <1>1, <1>4, <2>1 DEF CancelWrite, UpdateRenderJob
<1>5. ASSUME NEW p \in Procs, StartWrite(p) PROVE Good
  <2>1. CASE row[p] = j /\ rowStatus'[j] = "rendering"
    <3>1. rowRid'[j] = rowRid[j] /\ rid[p] = rowRid[j] /\ rid[p] \in Rids
      BY <1>5, <2>1 DEF StartWrite, TransitionToRendering
    <3>2. qStatus[rowRid[j]] # "none" /\ Reached(rowRid[j], "rendering")
      BY <1>5, <3>1, SentinelAssumption DEF StartWrite, Truth
    <3> QED
      BY <2>1, <3>1, <3>2, JobsOnlyAdvance DEF Reached
  <2> QED
    BY <1>1, <1>5, <2>1 DEF StartWrite, TransitionToRendering
<1>6. ASSUME NEW p \in Procs, Claim(p) \/ ReleaseClaim(p) PROVE Good
  BY <1>1, <1>6 DEF Claim, ClaimRenderOutput, ReleaseClaim, ReleaseRenderOutputClaim, RowShape
<1>7. CASE UNCHANGED <<rowStatus, rowRid>>
  BY <1>1, <1>7
<1>8. ASSUME NEW p \in Procs, Process(p) PROVE Good
  BY <1>2, <1>3, <1>4, <1>5, <1>6, <1>7, <1>8
     DEF Process, Queueing, Polling, Cancelling, Starting, QueueRender, CheckDatabase,
         CheckResolve, PrepareJob, AddAccepted, AddRefused, DeleteAccepted, Poll, PollAsk,
         PollEpisode, MarkEpisodeRendered, Cancel, CancelAsk, Start, StartAsk, HandlerFails, Crash
<1> QED
  BY <1>7, <1>8 DEF Next, ArchiveEpisode, CommitVerifiedArchive, Environment, vars

\* Processes: only PollAsk and StartAsk reach a write, with something true.
LEMMA AnswersStayTrue ==
  ASSUME Shape, Truth, [Next]_vars, NEW q \in Procs
  PROVE  /\ pc'[q] = "p_write" => Reached(rid[q], live[q])'
         /\ pc'[q] = "s_write" => Reached(rid[q], "rendering")'
<1> DEFINE Good == /\ pc'[q] = "p_write" => Reached(rid[q], live[q])'
                   /\ pc'[q] = "s_write" => Reached(rid[q], "rendering")'
<1> USE DEF Shape, TypeOK, ProcTypeOK, LocalShape
<1>1. ASSUME pc'[q] = pc[q], rid'[q] = rid[q], live'[q] = live[q] PROVE Good
  <2>1. CASE pc[q] \in {"p_write", "s_write"}
    <3>1. rid[q] \in Rids /\ qStatus[rid[q]] # "none"
      BY <2>1, SentinelAssumption DEF Truth
    <3> QED
      BY <1>1, <2>1, <3>1, JobsOnlyAdvance DEF Truth, Reached
  <2> QED
    BY <1>1, <2>1
<1>2. ASSUME NEW p \in Procs, PollAsk(p) PROVE Good
  <2>1. CASE p = q /\ pc'[q] = "p_write"
    <3>1. rid[q] \in Rids /\ rid'[q] = rid[q] /\ live'[q] = LiveStatus(rid[q])
          /\ LiveStatus(rid[q]) # "unknown"
      BY <1>2, <2>1 DEF PollAsk, Return
    <3>2. Reached(rid[q], LiveStatus(rid[q]))
      BY <3>1, AnswerIsTrue
    <3> QED
      BY <1>2, <2>1, <3>1, <3>2 DEF PollAsk, Reached
  <2>2. CASE p = q /\ pc'[q] # "p_write"
    BY <1>2, <2>2 DEF PollAsk, Return
  <2>3. CASE p # q
    BY <1>1, <1>2, <2>3 DEF PollAsk, Return
  <2> QED
    BY <2>1, <2>2, <2>3
<1>3. ASSUME NEW p \in Procs, StartAsk(p) PROVE Good
  <2>1. CASE p = q
    BY <1>3, <2>1 DEF StartAsk, StartJob, Return, Reached, ResolveTypeOK
  <2>2. CASE p # q
    BY <1>1, <1>3, <2>2 DEF StartAsk, Return
  <2> QED
    BY <2>1, <2>2
<1>4. CASE UNCHANGED <<pc, rid, live>>
  BY <1>1, <1>4
<1>5. ASSUME NEW p \in Procs, Process(p) PROVE Good
  <2>1. CASE p # q
    BY <1>1, <1>2, <1>3, <1>5, <2>1
       DEF Process, Queueing, Polling, Cancelling, Starting, QueueRender, CheckDatabase,
           CheckResolve, Claim, PrepareJob, AddAccepted, AddRefused, Finalize, DeleteAccepted,
           ReleaseClaim, Poll, PollWrite, PollEpisode, Cancel, CancelAsk, CancelWrite, Start,
           StartWrite, HandlerFails, Crash, Return
  <2>2. CASE p = q
    <3>1. PollAsk(p) \/ StartAsk(p) \/ pc'[q] \notin {"p_write", "s_write"}
      BY <1>5, <2>2
         DEF Process, Queueing, Polling, Cancelling, Starting, QueueRender, CheckDatabase,
             CheckResolve, Claim, PrepareJob, AddAccepted, AddRefused, Finalize, DeleteAccepted,
             ReleaseClaim, Poll, PollWrite, PollEpisode, Cancel, CancelAsk, CancelWrite, Start,
             StartWrite, HandlerFails, Crash, Return
    <3> QED
      BY <3>1, <1>2, <1>3
  <2> QED
    BY <2>1, <2>2
<1> QED
  BY <1>4, <1>5 DEF Next, ArchiveEpisode, Environment, vars

\* No row ever shows a status its Resolve job has not reached, although polls,
\* starts and cancels write what they learned earlier and in any order.
THEOREM NeverAhead == Spec => []RowNeverAhead
<1>1. Init => Truth
  BY DEF Init, DbInit, Truth, RowNeverAhead
<1>2. Shape /\ Truth /\ [Next]_vars => Truth'
  BY RowsStayTrue, AnswersStayTrue DEF Truth, RowNeverAhead
<1>3. Truth => RowNeverAhead
  BY DEF Truth
<1> QED
  BY <1>1, <1>2, <1>3, ShapeInvariant, PTL DEF Spec

----------------------------------------------------------------------------
(* What a step does to rows and to the handlers, whoever makes it. *)

\* A row keeps its plan, and the Resolve id it once has.
LEMMA RowsKeep ==
  ASSUME Shape, [Next]_vars, NEW j \in Jobs
  PROVE  /\ rowStatus[j] # "absent" => rowStatus'[j] # "absent" /\ rowPlan'[j] = rowPlan[j]
         /\ rowRid[j] # NoRid => rowRid'[j] = rowRid[j]
<1> USE DEF Shape, TypeOK, DbTypeOK, RowShape
<1>1. DatabaseStep
  BY OneTransactionPerStep
<1> QED
  BY <1>1 DEF DatabaseStep, ClaimRenderOutput, FinalizeRenderOutputClaim,
       ReleaseRenderOutputClaim, TransitionToRendering, UpdateRenderJob, RowExists,
       MarkEpisodeRendered, CommitVerifiedArchive

\* A row gets its id from the handler that finalizes it.
LEMMA RowsGetRid ==
  ASSUME Shape, [Next]_vars, NEW j \in Jobs, rowRid'[j] # rowRid[j]
  PROVE  \E p \in Procs : /\ pc[p] = "q_finalize" /\ row[p] = j
                          /\ rowRid'[j] = rid[p] /\ pc'[p] = "idle"
<1> USE DEF Shape, TypeOK, DbTypeOK, ProcTypeOK
<1>1. ASSUME NEW p \in Procs, Process(p), ~ Finalize(p) PROVE rowRid' = rowRid
  BY <1>1 DEF Process, Queueing, Polling, Cancelling, Starting, QueueRender, CheckDatabase,
       CheckResolve, Claim, ClaimRenderOutput, PrepareJob, AddAccepted, AddRefused,
       DeleteAccepted, ReleaseClaim, ReleaseRenderOutputClaim, Poll, PollAsk, PollWrite,
       UpdateRenderJob, PollEpisode, MarkEpisodeRendered, Cancel, CancelAsk, CancelWrite,
       Start, StartAsk, StartWrite, TransitionToRendering, HandlerFails, Crash
<1>2. ~ (Environment \/ ArchiveEpisode \/ UNCHANGED vars)
  BY DEF Environment, ArchiveEpisode, CommitVerifiedArchive, vars
<1>3. PICK p \in Procs : Finalize(p)
  BY <1>1, <1>2 DEF Next
<1>4. /\ pc[p] = "q_finalize" /\ row[p] = j /\ rowRid'[j] = rid[p] /\ pc'[p] = "idle"
  BY <1>3 DEF Finalize, FinalizeRenderOutputClaim, Return
<1> QED
  BY <1>4

\* Nobody touches the locals of a handler but its own process.
LEMMA OwnLocals ==
  ASSUME Shape, [Next]_vars, NEW q \in Procs
  PROVE  \/ Process(q)
         \/ /\ pc'[q] = pc[q] /\ row'[q] = row[q] /\ plan'[q] = plan[q] /\ rid'[q] = rid[q]
            /\ before'[q] = before[q] /\ live'[q] = live[q]
<1> USE DEF Shape, TypeOK, ProcTypeOK
<1>1. ASSUME NEW p \in Procs, Process(p), p # q
      PROVE  /\ pc'[q] = pc[q] /\ row'[q] = row[q] /\ plan'[q] = plan[q] /\ rid'[q] = rid[q]
             /\ before'[q] = before[q] /\ live'[q] = live[q]
  BY <1>1 DEF Process, Queueing, Polling, Cancelling, Starting, QueueRender, CheckDatabase,
       CheckResolve, Claim, PrepareJob, AddAccepted, AddRefused, Finalize, DeleteAccepted,
       ReleaseClaim, Poll, PollAsk, PollWrite, PollEpisode, Cancel, CancelAsk, CancelWrite,
       Start, StartAsk, StartWrite, HandlerFails, Crash, Return
<1> QED
  BY <1>1 DEF Next, ArchiveEpisode, Environment, vars

----------------------------------------------------------------------------
(* An episode is rendered by its own jobs. *)

\* The handler holds a claim.
Claiming == {"q_prepare", "q_add", "q_finalize", "q_delete", "q_release"}

\* A project's render settings are those of a plan of its episode.
SettingsInEpisode ==
    \A e \in Episodes : settings[e] \in Plans => PlanEpisode[settings[e]] = e

\* A claim is the row of the plan that is being queued.
ClaimsOwnRow == \A p \in Procs : pc[p] \in Claiming => rowPlan[row[p]] = plan[p]

\* The job a handler holds, or a row records, belongs to the row's episode,
\* although several processes may mistake each other's jobs within a project.
HeldInEpisode ==
    \A p \in Procs : pc[p] \in {"q_finalize", "q_delete"} =>
        PlanEpisode[qPlan[rid[p]]] = PlanEpisode[plan[p]]

RowsInEpisode ==
    \A j \in Jobs : rowRid[j] # NoRid =>
        PlanEpisode[qPlan[rowRid[j]]] = PlanEpisode[rowPlan[j]]

\* The episode is marked after the job wrote its output.
WrittenFirst ==
    \A p \in Procs : pc[p] = "p_episode" => PlanOutput[qPlan[rid[p]]] \in files

InEpisode ==
    /\ SettingsInEpisode /\ ClaimsOwnRow /\ HeldInEpisode /\ RowsInEpisode
    /\ WrittenFirst /\ RenderedIsReal

\* All of it at the start.
LEMMA InEpisodeInit == Init => InEpisode
  BY SentinelAssumption
     DEF Init, DbInit, ResolveInit, InEpisode, SettingsInEpisode, ClaimsOwnRow, HeldInEpisode,
         RowsInEpisode, WrittenFirst, RenderedIsReal, Claiming

\* Only PrepareJob sets a destination, in the project of its plan.
LEMMA SettingsNext ==
  ASSUME Shape, SettingsInEpisode, [Next]_vars
  PROVE  SettingsInEpisode'
<1> USE DEF Shape, TypeOK, ResolveTypeOK
<1>1. ASSUME NEW p \in Procs, PrepareJob(p) PROVE SettingsInEpisode'
  BY <1>1 DEF PrepareJob, SettingsInEpisode
<1>2. CASE UNCHANGED settings
  BY <1>2 DEF SettingsInEpisode
<1>3. ASSUME NEW p \in Procs, Process(p), ~ PrepareJob(p) PROVE UNCHANGED settings
  BY <1>3 DEF Process, Queueing, Polling, Cancelling, Starting, QueueRender, CheckDatabase,
       CheckResolve, Claim, AddAccepted, AddRefused, Finalize, DeleteAccepted, ReleaseClaim,
       Poll, PollAsk, PollWrite, PollEpisode, Cancel, CancelAsk, CancelWrite, Start, StartAsk,
       StartWrite, HandlerFails, Crash
<1> QED
  BY <1>1, <1>2, <1>3 DEF Next, ArchiveEpisode, Environment, OperatorOpensProject,
     OperatorStartsRender, RenderEnds, vars

\* A claim keeps its row and its plan until it is given up.
LEMMA ClaimsNext ==
  ASSUME Shape, ClaimsOwnRow, [Next]_vars
  PROVE  ClaimsOwnRow'
<1> SUFFICES ASSUME NEW q \in Procs, pc'[q] \in Claiming
             PROVE  rowPlan'[row'[q]] = plan'[q]
  BY DEF ClaimsOwnRow
<1> USE DEF Shape, TypeOK, DbTypeOK, ProcTypeOK, LocalShape, Claiming
<1>1. CASE pc[q] \in Claiming /\ row'[q] = row[q] /\ plan'[q] = plan[q]
  <2>1. row[q] \in Jobs /\ rowStatus[row[q]] # "absent" /\ rowPlan[row[q]] = plan[q]
    BY <1>1 DEF ClaimsOwnRow
  <2> QED
    BY <1>1, <2>1, RowsKeep
<1>2. CASE Claim(q)
  BY <1>2 DEF Claim, ClaimRenderOutput, Return
<1>3. CASE Process(q) /\ ~ Claim(q)
  <2>1. pc[q] \in Claiming /\ row'[q] = row[q] /\ plan'[q] = plan[q]
    BY <1>3 DEF Process, Queueing, Polling, Cancelling, Starting, QueueRender, CheckDatabase,
         CheckResolve, PrepareJob, AddAccepted, AddRefused, Finalize, DeleteAccepted,
         ReleaseClaim, Poll, PollAsk, PollWrite, PollEpisode, Cancel, CancelAsk, CancelWrite,
         Start, StartAsk, StartWrite, HandlerFails, Crash, Return
  <2> QED
    BY <1>1, <2>1
<1> QED
  BY <1>1, <1>2, <1>3, OwnLocals

\* A handler takes a job of its plan's project: the one it added, or one that
\* is new in that project's listing.
LEMMA HeldNext ==
  ASSUME Shape, SettingsInEpisode, HeldInEpisode, [Next]_vars
  PROVE  HeldInEpisode'
<1> SUFFICES ASSUME NEW q \in Procs, pc'[q] \in {"q_finalize", "q_delete"}
             PROVE  PlanEpisode[qPlan'[rid'[q]]] = PlanEpisode[plan'[q]]
  BY DEF HeldInEpisode
<1> USE DEF Shape, TypeOK, ResolveTypeOK, ProcTypeOK, LocalShape
<1>1. CASE pc[q] \in {"q_finalize", "q_delete"} /\ rid'[q] = rid[q] /\ plan'[q] = plan[q]
  <2>1. rid[q] \in Rids /\ qStatus[rid[q]] # "none"
    BY <1>1
  <2> QED
    BY <1>1, <2>1, JobsOnlyAdvance DEF HeldInEpisode
<1>2. ASSUME NEW r \in Rids, AddAccepted(q, r)
      PROVE  PlanEpisode[qPlan'[rid'[q]]] = PlanEpisode[plan'[q]]
  <2>1. plan[q] \in Plans /\ PlanEpisode[plan[q]] \in Episodes
    BY <1>2, PlanAssumption DEF AddAccepted
  <2>2. /\ plan'[q] = plan[q] /\ rid'[q] = r
        /\ settings[PlanEpisode[plan[q]]] \in Plans
        /\ qPlan'[r] = settings[PlanEpisode[plan[q]]]
    BY <1>2 DEF AddAccepted, AddJob
  <2> QED
    BY <2>1, <2>2 DEF SettingsInEpisode
<1>3. CASE AddRefused(q)
  <2>1. /\ plan'[q] = plan[q] /\ qPlan' = qPlan
        /\ rid'[q] \in Candidates(q, QueueOf(PlanEpisode[plan[q]]))
    BY <1>3 DEF AddRefused
  <2> QED
    BY <2>1 DEF Candidates, QueueOf
<1>4. CASE Process(q) /\ ~ AddRefused(q) /\ ~ \E r \in Rids : AddAccepted(q, r)
  <2>1. pc[q] \in {"q_finalize", "q_delete"} /\ rid'[q] = rid[q] /\ plan'[q] = plan[q]
    BY <1>4 DEF Process, Queueing, Polling, Cancelling, Starting, QueueRender, CheckDatabase,
         CheckResolve, Claim, PrepareJob, Finalize, DeleteAccepted, ReleaseClaim, Poll, PollAsk,
         PollWrite, PollEpisode, Cancel, CancelAsk, CancelWrite, Start, StartAsk, StartWrite,
         HandlerFails, Crash, Return
  <2> QED
    BY <1>1, <2>1
<1> QED
  BY <1>1, <1>2, <1>3, <1>4, OwnLocals

\* A row records what the handler held.
LEMMA RecordedNext ==
  ASSUME Shape, Truth, ClaimsOwnRow, HeldInEpisode, RowsInEpisode, [Next]_vars
  PROVE  RowsInEpisode'
<1> SUFFICES ASSUME NEW j \in Jobs, rowRid'[j] # NoRid
             PROVE  PlanEpisode[qPlan'[rowRid'[j]]] = PlanEpisode[rowPlan'[j]]
  BY DEF RowsInEpisode
<1> USE DEF Shape, TypeOK, DbTypeOK, LocalShape
<1>1. CASE rowRid'[j] = rowRid[j]
  <2>1. rowRid[j] \in Rids /\ rowStatus[j] # "absent" /\ qStatus[rowRid[j]] # "none"
    BY <1>1 DEF RowShape, Truth
  <2> QED
    BY <1>1, <2>1, RowsKeep, JobsOnlyAdvance DEF RowsInEpisode
<1>2. CASE rowRid'[j] # rowRid[j]
  <2>1. PICK p \in Procs : pc[p] = "q_finalize" /\ row[p] = j /\ rowRid'[j] = rid[p]
    BY <1>2, RowsGetRid
  <2>2. /\ rid[p] \in Rids /\ qStatus[rid[p]] # "none" /\ rowStatus[j] # "absent"
        /\ rowPlan[j] = plan[p] /\ PlanEpisode[qPlan[rid[p]]] = PlanEpisode[plan[p]]
    BY <2>1 DEF ClaimsOwnRow, HeldInEpisode, Claiming
  <2> QED
    BY <2>1, <2>2, RowsKeep, JobsOnlyAdvance
<1> QED
  BY <1>1, <1>2

\* The second transaction of a poll follows the completion it was told of.
LEMMA WrittenNext ==
  ASSUME Shape, Truth, WrittenFirst, [Next]_vars
  PROVE  WrittenFirst'
<1> SUFFICES ASSUME NEW q \in Procs, pc'[q] = "p_episode"
             PROVE  PlanOutput[qPlan'[rid'[q]]] \in files'
  BY DEF WrittenFirst
<1> USE DEF Shape, TypeOK, ProcTypeOK, LocalShape
<1>1. ASSUME pc[q] \in {"p_write", "p_episode"}, rid'[q] = rid[q],
             PlanOutput[qPlan[rid[q]]] \in files
      PROVE  PlanOutput[qPlan'[rid'[q]]] \in files'
  <2>1. rid[q] \in Rids /\ qStatus[rid[q]] # "none"
    BY <1>1, SentinelAssumption DEF Truth
  <2> QED
    BY <1>1, <2>1, JobsOnlyAdvance
<1>2. CASE PollWrite(q)
  <2>1. pc[q] = "p_write" /\ live[q] = "complete" /\ rid'[q] = rid[q]
    BY <1>2 DEF PollWrite, Return
  <2>2. PlanOutput[qPlan[rid[q]]] \in files
    BY <2>1 DEF Truth, Reached
  <2> QED
    BY <1>1, <2>1, <2>2
<1>3. CASE Process(q) /\ ~ PollWrite(q)
  <2>1. FALSE
    BY <1>3 DEF Process, Queueing, Polling, Cancelling, Starting, QueueRender, CheckDatabase,
         CheckResolve, Claim, PrepareJob, AddAccepted, AddRefused, Finalize, DeleteAccepted,
         ReleaseClaim, Poll, PollAsk, PollEpisode, Cancel, CancelAsk, CancelWrite, Start,
         StartAsk, StartWrite, HandlerFails, Crash, Return
  <2> QED
    BY <2>1
<1> QED
  BY <1>1, <1>2, <1>3, OwnLocals DEF WrittenFirst

\* An episode becomes rendered by that transaction, and archived from rendered.
LEMMA RenderedNext ==
  ASSUME Shape, Truth, RowsInEpisode, WrittenFirst, RenderedIsReal, [Next]_vars
  PROVE  RenderedIsReal'
<1> SUFFICES ASSUME NEW e \in Episodes, epStatus'[e] \in {"rendered", "archived"}
             PROVE  \E pl \in Plans : PlanEpisode[pl] = e /\ PlanOutput[pl] \in files'
  BY DEF RenderedIsReal
<1> USE DEF Shape, TypeOK, DbTypeOK, LocalShape
<1>0. files \subseteq files'
  <2>1. ASSUME NEW p \in Procs, Process(p) PROVE files' = files
    BY <2>1 DEF Process, Queueing, Polling, Cancelling, Starting, QueueRender, CheckDatabase,
         CheckResolve, Claim, PrepareJob, AddAccepted, AddRefused, Finalize, DeleteAccepted,
         ReleaseClaim, Poll, PollAsk, PollWrite, PollEpisode, Cancel, CancelAsk, CancelWrite,
         Start, StartAsk, StartWrite, HandlerFails, Crash
  <2> QED
    BY <2>1 DEF Next, ArchiveEpisode, Environment, OperatorOpensProject, OperatorStartsRender,
         RenderEnds, vars
<1>1. CASE epStatus[e] \in {"rendered", "archived"}
  BY <1>0, <1>1 DEF RenderedIsReal
<1>2. ASSUME NEW p \in Procs, PollEpisode(p), epStatus[e] \notin {"rendered", "archived"}
      PROVE  \E pl \in Plans : PlanEpisode[pl] = e /\ PlanOutput[pl] \in files'
  <2>1. /\ pc[p] = "p_episode" /\ e = PlanEpisode[rowPlan[row[p]]]
        /\ row[p] \in Jobs /\ rid[p] \in Rids /\ rowRid[row[p]] = rid[p]
    BY <1>2 DEF PollEpisode, MarkEpisodeRendered
  <2>2. /\ PlanOutput[qPlan[rid[p]]] \in files /\ qPlan[rid[p]] \in Plans
        /\ PlanEpisode[qPlan[rid[p]]] = e
    BY <2>1, SentinelAssumption DEF WrittenFirst, Truth, RowsInEpisode, JobShape
  <2> QED
    BY <1>0, <2>2
<1>3. ASSUME NEW p \in Procs, Process(p), ~ PollEpisode(p),
             epStatus[e] \notin {"rendered", "archived"}
      PROVE  epStatus'[e] \notin {"rendered", "archived"}
  BY <1>3 DEF Process, Queueing, Polling, Cancelling, Starting, QueueRender, CheckDatabase,
       CheckResolve, Claim, ClaimRenderOutput, PrepareJob, AddAccepted, AddRefused, Finalize,
       FinalizeRenderOutputClaim, DeleteAccepted, ReleaseClaim, ReleaseRenderOutputClaim, Poll,
       PollAsk, PollWrite, UpdateRenderJob, Cancel, CancelAsk, CancelWrite, Start, StartAsk,
       StartWrite, TransitionToRendering, HandlerFails, Crash
<1>4. ArchiveEpisode \/ Environment \/ UNCHANGED vars => epStatus[e] \in {"rendered", "archived"}
  BY DEF ArchiveEpisode, CommitVerifiedArchive, Environment, vars
<1> QED
  BY <1>1, <1>2, <1>3, <1>4 DEF Next

\* An episode is rendered or archived only after one of its own outputs was
\* written, although processes share projects, rows and the editor's Resolve.
THEOREM OnlyRealRenders == Spec => []RenderedIsReal
<1>1. Init => Truth /\ InEpisode
  <2>1. Init => Truth
    BY DEF Init, DbInit, Truth, RowNeverAhead
  <2> QED
    BY <2>1, InEpisodeInit
<1>2. Shape /\ Truth /\ InEpisode /\ [Next]_vars => (Truth /\ InEpisode)'
  <2>1. Shape /\ Truth /\ [Next]_vars => Truth'
    BY RowsStayTrue, AnswersStayTrue DEF Truth, RowNeverAhead
  <2> QED
    BY <2>1, SettingsNext, ClaimsNext, HeldNext, RecordedNext, WrittenNext, RenderedNext
       DEF InEpisode
<1>3. InEpisode => RenderedIsReal
  BY DEF InEpisode
<1> QED
  BY <1>1, <1>2, <1>3, ShapeInvariant, PTL DEF Spec

----------------------------------------------------------------------------
(* No job waits or renders in Resolve without somebody who knows it. *)

\* A live job is one that was waiting or rendering before, or was just added.
LEMMA LiveJobs ==
  ASSUME Shape, [Next]_vars, NEW r \in Rids, qStatus'[r] \in {"ready", "rendering"}
  PROVE  \/ qStatus[r] \in {"ready", "rendering"}
         \/ qStatus[r] = "none" /\ \E p \in Procs : AddAccepted(p, r)
<1> USE DEF Shape, TypeOK, ResolveTypeOK
<1>1. ASSUME NEW p \in Procs, NEW x \in Rids, AddAccepted(p, x)
      PROVE  qStatus[r] \in {"ready", "rendering"} \/ (r = x /\ qStatus[r] = "none")
  BY <1>1 DEF AddAccepted, AddJob
<1>2. ASSUME NEW p \in Procs, Process(p), ~ \E x \in Rids : AddAccepted(p, x)
      PROVE  qStatus[r] \in {"ready", "rendering"}
  BY <1>2 DEF Process, Queueing, Polling, Cancelling, Starting, QueueRender, CheckDatabase,
       CheckResolve, Claim, PrepareJob, AddRefused, Finalize, DeleteAccepted, DeleteJob,
       ReleaseClaim, Poll, PollAsk, PollWrite, PollEpisode, Cancel, CancelAsk, CancelJob,
       CancelWrite, Start, StartAsk, Startable, StartJob, StartWrite, HandlerFails, Crash
<1>3. ArchiveEpisode \/ Environment \/ UNCHANGED vars => qStatus[r] \in {"ready", "rendering"}
  BY DEF ArchiveEpisode, Environment, OperatorOpensProject, OperatorStartsRender, RenderEnds,
       StartJob, vars
<1> QED
  BY <1>1, <1>2, <1>3 DEF Next

\* A handler passes a job on to the row, to Resolve's bin or to the orphans.
LEMMA OrphansNext ==
  ASSUME Shape, NoSilentOrphan, [Next]_vars
  PROVE  NoSilentOrphan'
<1> SUFFICES ASSUME NEW r \in Rids, qStatus'[r] \in {"ready", "rendering"}
             PROVE  \/ r \in orphans'
                    \/ \E j \in Jobs : rowRid'[j] = r
                    \/ \E p \in Procs : pc'[p] \in {"q_finalize", "q_delete"} /\ rid'[p] = r
  BY DEF NoSilentOrphan
<1> DEFINE Known == \/ r \in orphans'
                    \/ \E j \in Jobs : rowRid'[j] = r
                    \/ \E p \in Procs : pc'[p] \in {"q_finalize", "q_delete"} /\ rid'[p] = r
<1> USE DEF Shape, TypeOK, DbTypeOK, ResolveTypeOK, ProcTypeOK, LocalShape
<1>1. ASSUME NEW p \in Procs, AddAccepted(p, r) PROVE Known
  BY <1>1 DEF AddAccepted
<1>2. orphans \subseteq orphans'
  <2>1. ASSUME NEW p \in Procs, Process(p) PROVE orphans \subseteq orphans'
    BY <2>1 DEF Process, Queueing, Polling, Cancelling, Starting, QueueRender, CheckDatabase,
         CheckResolve, Claim, PrepareJob, AddAccepted, AddRefused, Finalize, DeleteAccepted,
         ReleaseClaim, Poll, PollAsk, PollWrite, PollEpisode, Cancel, CancelAsk, CancelWrite,
         Start, StartAsk, StartWrite, HandlerFails, Crash
  <2> QED
    BY <2>1 DEF Next, ArchiveEpisode, Environment, vars
<1>3. ASSUME NEW j \in Jobs, rowRid[j] = r PROVE rowRid'[j] = r
  BY <1>3, RowsKeep, SentinelAssumption
<1>4. ASSUME NEW q \in Procs, pc[q] \in {"q_finalize", "q_delete"}, rid[q] = r PROVE Known
  <2>1. CASE Finalize(q)
    BY <1>4, <2>1 DEF Finalize, FinalizeRenderOutputClaim
  <2>2. CASE DeleteAccepted(q)
    BY <1>4, <2>2 DEF DeleteAccepted, DeleteJob
  <2>3. CASE Crash(q)
    BY <1>4, <2>3 DEF Crash
  <2>4. CASE Process(q) /\ ~ Finalize(q) /\ ~ DeleteAccepted(q) /\ ~ Crash(q)
    BY <1>4, <2>4 DEF Process, Queueing, Polling, Cancelling, Starting, QueueRender,
         CheckDatabase, CheckResolve, Claim, PrepareJob, AddAccepted, AddRefused, ReleaseClaim,
         Poll, PollAsk, PollWrite, PollEpisode, Cancel, CancelAsk, CancelWrite, Start, StartAsk,
         StartWrite, HandlerFails
  <2>5. CASE pc'[q] = pc[q] /\ rid'[q] = rid[q]
    BY <1>4, <2>5
  <2> QED
    BY <2>1, <2>2, <2>3, <2>4, <2>5, OwnLocals
<1>5. CASE qStatus[r] \in {"ready", "rendering"}
  BY <1>2, <1>3, <1>4, <1>5 DEF NoSilentOrphan
<1> QED
  BY <1>1, <1>5, LiveJobs

\* A job that waits or renders in Resolve is recorded in a row, held by a
\* running handler, or was reported or died with its process.
THEOREM NoJobUnknown == Spec => []NoSilentOrphan
<1>1. Init => NoSilentOrphan
  BY DEF Init, ResolveInit, NoSilentOrphan
<1>2. Shape /\ NoSilentOrphan /\ [Next]_vars => NoSilentOrphan'
  BY OrphansNext
<1> QED
  BY <1>1, <1>2, ShapeInvariant, PTL DEF Spec

----------------------------------------------------------------------------
(* One process at a time: what the lack of a lock between processes costs. *)

\* There is no other process.
Alone == \A p, q \in Procs : p = q

\* An output lies in the folder of its episode (episode/manager.py names the
\* folder after the episode), so two episodes never share one.
OutputsApart ==
    \A a, b \in Plans : PlanOutput[a] = PlanOutput[b] => PlanEpisode[a] = PlanEpisode[b]

Alive == {"ready", "rendering"}

\* Between the listing and AddRenderJob() the project's settings stay, and no
\* job appears in it.
ListedBefore ==
    \A p \in Procs : pc[p] = "q_add" =>
        /\ settings[PlanEpisode[plan[p]]] = plan[p]
        /\ QueueOf(PlanEpisode[plan[p]]) \subseteq before[p]

\* The job a handler holds is the one it added.
HeldIsOwn ==
    \A p \in Procs : pc[p] \in {"q_finalize", "q_delete"} => qPlan[rid[p]] = plan[p]

\* cancel_render() asks for the job of the row it will write.
CancelKnows ==
    \A p \in Procs :
        /\ pc[p] \in {"c_ask", "c_write"} => rid[p] = rowRid[row[p]]
        /\ pc[p] = "c_write" /\ rid[p] # NoRid => qStatus[rid[p]] \notin Alive

\* A poll writes cancelled only for a job that ended so.
PollKnows ==
    \A p \in Procs :
        pc[p] = "p_write" /\ live[p] = "cancelled" => qStatus[rid[p]] \notin Alive

\* Once the queue was looked through, no other job has the plan's output.
NoRival ==
    \A p \in Procs : pc[p] \in {"q_claim", "q_prepare", "q_add"} =>
        \A r \in Rids : qStatus[r] \in Alive => PlanOutput[qPlan[r]] # PlanOutput[plan[p]]

\* While its only process makes no step, Redline's part of the state stays and
\* Resolve gets no job.
LEMMA QuietWorld ==
  ASSUME Shape, Alone, [Next]_vars, NEW q \in Procs, ~ Process(q)
  PROVE  /\ pc'[q] = pc[q] /\ row'[q] = row[q] /\ plan'[q] = plan[q] /\ rid'[q] = rid[q]
         /\ before'[q] = before[q] /\ live'[q] = live[q]
         /\ UNCHANGED <<settings, qPlan, rowRid, rowStatus, rowPlan>>
         /\ \A r \in Rids : /\ qStatus[r] = "none" => qStatus'[r] = "none"
                            /\ qStatus[r] = "gone" => qStatus'[r] = "gone"
<1>1. ArchiveEpisode \/ Environment \/ UNCHANGED vars
  BY DEF Alone, Next
<1>2. CASE Environment
  BY <1>2 DEF Environment, OperatorOpensProject, OperatorStartsRender, RenderEnds, StartJob,
       Shape, TypeOK, ResolveTypeOK
<1>3. CASE ArchiveEpisode \/ UNCHANGED vars
  BY <1>3 DEF ArchiveEpisode, CommitVerifiedArchive, vars
<1> QED
  BY <1>1, <1>2, <1>3

\* Nobody changes the settings or adds a job after PrepareJob.
LEMMA ListedNext ==
  ASSUME Shape, Alone, ListedBefore, [Next]_vars
  PROVE  ListedBefore'
<1> SUFFICES ASSUME NEW q \in Procs, pc'[q] = "q_add"
             PROVE  /\ settings'[PlanEpisode[plan'[q]]] = plan'[q]
                    /\ QueueOf(PlanEpisode[plan[q]])' \subseteq before'[q]
  BY DEF ListedBefore
<1> USE DEF Shape, TypeOK, ResolveTypeOK, ProcTypeOK, LocalShape
<1>1. CASE PrepareJob(q)
  <2>1. plan[q] \in Plans /\ PlanEpisode[plan[q]] \in Episodes
    BY <1>1, PlanAssumption DEF PrepareJob
  <2>2. /\ settings' = [settings EXCEPT ![PlanEpisode[plan[q]]] = plan[q]]
        /\ before' = [before EXCEPT ![q] = QueueOf(PlanEpisode[plan[q]])]
        /\ plan' = plan /\ qStatus' = qStatus /\ qPlan' = qPlan
    BY <1>1 DEF PrepareJob
  <2> QED
    BY <2>1, <2>2 DEF QueueOf
<1>2. CASE Process(q) /\ ~ PrepareJob(q)
  <2>1. FALSE
    BY <1>2 DEF Process, Queueing, Polling, Cancelling, Starting, QueueRender, CheckDatabase,
         CheckResolve, Claim, AddAccepted, AddRefused, Finalize, DeleteAccepted, ReleaseClaim,
         Poll, PollAsk, PollWrite, PollEpisode, Cancel, CancelAsk, CancelWrite, Start, StartAsk,
         StartWrite, HandlerFails, Crash, Return
  <2> QED
    BY <2>1
<1>3. CASE ~ Process(q)
  <2>1. /\ pc'[q] = pc[q] /\ plan'[q] = plan[q] /\ before'[q] = before[q]
        /\ UNCHANGED <<settings, qPlan>>
        /\ \A r \in Rids : /\ qStatus[r] = "none" => qStatus'[r] = "none"
                           /\ qStatus[r] = "gone" => qStatus'[r] = "gone"
    BY <1>3, QuietWorld
  <2> QED
    BY <2>1 DEF ListedBefore, QueueOf
<1> QED
  BY <1>1, <1>2, <1>3

\* So a new job in the listing is this handler's, or there is none.
LEMMA OwnJobNext ==
  ASSUME Shape, Alone, ListedBefore, HeldIsOwn, [Next]_vars
  PROVE  HeldIsOwn'
<1> SUFFICES ASSUME NEW q \in Procs, pc'[q] \in {"q_finalize", "q_delete"}
             PROVE  qPlan'[rid'[q]] = plan'[q]
  BY DEF HeldIsOwn
<1> USE DEF Shape, TypeOK, ResolveTypeOK, ProcTypeOK, LocalShape
<1>1. CASE pc[q] \in {"q_finalize", "q_delete"} /\ rid'[q] = rid[q] /\ plan'[q] = plan[q]
  <2>1. rid[q] \in Rids /\ qStatus[rid[q]] # "none"
    BY <1>1
  <2> QED
    BY <1>1, <2>1, JobsOnlyAdvance DEF HeldIsOwn
<1>2. ASSUME NEW r \in Rids, AddAccepted(q, r) PROVE qPlan'[rid'[q]] = plan'[q]
  <2>1. /\ pc[q] = "q_add" /\ plan'[q] = plan[q] /\ rid'[q] = r
        /\ qPlan'[r] = settings[PlanEpisode[plan[q]]]
    BY <1>2 DEF AddAccepted, AddJob
  <2> QED
    BY <2>1 DEF ListedBefore
<1>3. CASE AddRefused(q)
  <2>1. pc[q] = "q_add" /\ \E r \in Rids : Candidates(q, QueueOf(PlanEpisode[plan[q]])) = {r}
    BY <1>3 DEF AddRefused
  <2> QED
    BY <2>1 DEF ListedBefore, Candidates
<1>4. CASE Process(q) /\ ~ AddRefused(q) /\ ~ \E r \in Rids : AddAccepted(q, r)
  <2>1. pc[q] \in {"q_finalize", "q_delete"} /\ rid'[q] = rid[q] /\ plan'[q] = plan[q]
    BY <1>4 DEF Process, Queueing, Polling, Cancelling, Starting, QueueRender, CheckDatabase,
         CheckResolve, Claim, PrepareJob, Finalize, DeleteAccepted, ReleaseClaim, Poll, PollAsk,
         PollWrite, PollEpisode, Cancel, CancelAsk, CancelWrite, Start, StartAsk, StartWrite,
         HandlerFails, Crash, Return
  <2> QED
    BY <1>1, <2>1
<1> QED
  BY <1>1, <1>2, <1>3, <1>4, OwnLocals

\* ... and its row records that one.
LEMMA OwnRowNext ==
  ASSUME Shape, Truth, ClaimsOwnRow, HeldIsOwn, RowOwnsItsJob, [Next]_vars
  PROVE  RowOwnsItsJob'
<1> SUFFICES ASSUME NEW j \in Jobs, rowRid'[j] # NoRid
             PROVE  qPlan'[rowRid'[j]] = rowPlan'[j]
  BY DEF RowOwnsItsJob
<1> USE DEF Shape, TypeOK, DbTypeOK, LocalShape
<1>1. CASE rowRid'[j] = rowRid[j]
  <2>1. rowRid[j] \in Rids /\ rowStatus[j] # "absent" /\ qStatus[rowRid[j]] # "none"
    BY <1>1 DEF RowShape, Truth
  <2> QED
    BY <1>1, <2>1, RowsKeep, JobsOnlyAdvance DEF RowOwnsItsJob
<1>2. CASE rowRid'[j] # rowRid[j]
  <2>1. PICK p \in Procs : pc[p] = "q_finalize" /\ row[p] = j /\ rowRid'[j] = rid[p]
    BY <1>2, RowsGetRid
  <2>2. /\ rid[p] \in Rids /\ qStatus[rid[p]] # "none" /\ rowStatus[j] # "absent"
        /\ rowPlan[j] = plan[p] /\ qPlan[rid[p]] = plan[p]
    BY <2>1 DEF ClaimsOwnRow, HeldIsOwn, Claiming
  <2> QED
    BY <2>1, <2>2, RowsKeep, JobsOnlyAdvance
<1> QED
  BY <1>1, <1>2

----------------------------------------------------------------------------
\* A job that no longer waits or renders never does again.
LEMMA DeadJobsStay ==
  ASSUME Shape, [Next]_vars, NEW r \in Rids, qStatus[r] # "none", qStatus[r] \notin Alive
  PROVE  qStatus'[r] # "none" /\ qStatus'[r] \notin Alive
<1>1. qStatus'[r] # "none"
  BY JobsOnlyAdvance
<1>2. qStatus'[r] \notin Alive
  BY LiveJobs DEF Alive
<1> QED
  BY <1>1, <1>2

\* A cancel that came through leaves a dead job, of the row it will write.
LEMMA CancelKnowsNext ==
  ASSUME Shape, Truth, Alone, CancelKnows, [Next]_vars
  PROVE  CancelKnows'
<1> SUFFICES ASSUME NEW q \in Procs, pc'[q] \in {"c_ask", "c_write"}
             PROVE  /\ rid'[q] = rowRid'[row'[q]]
                    /\ pc'[q] = "c_write" /\ rid'[q] # NoRid => qStatus'[rid'[q]] \notin Alive
  BY DEF CancelKnows
<1> USE DEF Shape, TypeOK, DbTypeOK, ResolveTypeOK, ProcTypeOK, LocalShape
<1>1. ASSUME NEW j \in Jobs, Cancel(q, j)
      PROVE  /\ rid'[q] = rowRid'[row'[q]]
             /\ pc'[q] = "c_write" => rid'[q] = NoRid
  BY <1>1 DEF Cancel
<1>2. CASE CancelAsk(q)
  <2>1. /\ pc[q] = "c_ask" /\ pc'[q] = "c_write" /\ rid'[q] = rid[q] /\ row'[q] = row[q]
        /\ rowRid' = rowRid /\ rid[q] \in Rids /\ CancelJob(rid[q])
    BY <1>2 DEF CancelAsk, Return
  <2>2. qStatus'[rid[q]] \notin Alive
    BY <2>1 DEF CancelJob, Alive
  <2> QED
    BY <2>1, <2>2 DEF CancelKnows
<1>3. CASE Process(q) /\ ~ CancelAsk(q) /\ ~ \E j \in Jobs : Cancel(q, j)
  <2>1. FALSE
    BY <1>3 DEF Process, Queueing, Polling, Cancelling, Starting, QueueRender, CheckDatabase,
         CheckResolve, Claim, PrepareJob, AddAccepted, AddRefused, Finalize, DeleteAccepted,
         ReleaseClaim, Poll, PollAsk, PollWrite, PollEpisode, CancelWrite, Start, StartAsk,
         StartWrite, HandlerFails, Crash, Return
  <2> QED
    BY <2>1
<1>4. CASE ~ Process(q)
  <2>1. pc'[q] = pc[q] /\ rid'[q] = rid[q] /\ row'[q] = row[q] /\ rowRid' = rowRid
    BY <1>4, QuietWorld
  <2>2. row[q] \in Jobs /\ rid[q] = rowRid[row[q]]
    BY <2>1 DEF CancelKnows
  <2>3. ASSUME pc[q] = "c_write", rid[q] # NoRid PROVE qStatus'[rid[q]] \notin Alive
    <3>1. rid[q] \in Rids /\ qStatus[rid[q]] # "none" /\ qStatus[rid[q]] \notin Alive
      BY <2>2, <2>3 DEF CancelKnows, Truth
    <3> QED
      BY <3>1, DeadJobsStay
  <2> QED
    BY <2>1, <2>2, <2>3
<1> QED
  BY <1>1, <1>2, <1>3, <1>4

\* What a poll was told of a cancelled job stays true until it is written.
LEMMA PollKnowsNext ==
  ASSUME Shape, Truth, PollKnows, [Next]_vars
  PROVE  PollKnows'
<1> SUFFICES ASSUME NEW q \in Procs, pc'[q] = "p_write", live'[q] = "cancelled"
             PROVE  qStatus'[rid'[q]] \notin Alive
  BY DEF PollKnows
<1> USE DEF Shape, TypeOK, ResolveTypeOK, ProcTypeOK, LocalShape
<1>1. ASSUME pc[q] \in {"p_ask", "p_write"}, rid'[q] = rid[q], qStatus[rid[q]] \notin Alive
      PROVE  qStatus'[rid'[q]] \notin Alive
  <2>1. rid[q] \in Rids /\ qStatus[rid[q]] # "none"
    BY <1>1, SentinelAssumption DEF Truth
  <2> QED
    BY <1>1, <2>1, DeadJobsStay
<1>2. CASE PollAsk(q)
  <2>1. /\ pc[q] = "p_ask" /\ rid'[q] = rid[q] /\ rid[q] \in Rids
        /\ LiveStatus(rid[q]) = "cancelled"
    BY <1>2 DEF PollAsk, Return
  <2>2. qStatus[rid[q]] \notin Alive
    BY <2>1 DEF LiveStatus, Canonical, Alive
  <2> QED
    BY <1>1, <2>1, <2>2
<1>3. CASE Process(q) /\ ~ PollAsk(q)
  <2>1. FALSE
    BY <1>3 DEF Process, Queueing, Polling, Cancelling, Starting, QueueRender, CheckDatabase,
         CheckResolve, Claim, PrepareJob, AddAccepted, AddRefused, Finalize, DeleteAccepted,
         ReleaseClaim, Poll, PollWrite, PollEpisode, Cancel, CancelAsk, CancelWrite, Start,
         StartAsk, StartWrite, HandlerFails, Crash, Return
  <2> QED
    BY <2>1
<1> QED
  BY <1>1, <1>2, <1>3, OwnLocals DEF PollKnows

\* A row becomes cancelled after its job did, and no row gets a job afterwards.
LEMMA CancelledNext ==
  ASSUME Shape, Truth, CancelKnows, PollKnows, CancelledNotLive, [Next]_vars
  PROVE  CancelledNotLive'
<1> SUFFICES ASSUME NEW j \in Jobs, rowStatus'[j] = "cancelled", rowRid'[j] # NoRid
             PROVE  qStatus'[rowRid'[j]] \notin Alive
  BY DEF CancelledNotLive, Alive
<1> USE DEF Shape, TypeOK, DbTypeOK, ResolveTypeOK, ProcTypeOK, LocalShape
<1>1. rowRid'[j] = rowRid[j]
  <2>1. ASSUME NEW p \in Procs, Process(p), pc[p] = "q_finalize", row[p] = j
        PROVE  rowStatus'[j] # "cancelled" \/ rowRid'[j] = rowRid[j]
    BY <2>1 DEF Process, Queueing, Polling, Cancelling, Starting, QueueRender, CheckDatabase,
         CheckResolve, Claim, PrepareJob, AddAccepted, AddRefused, Finalize,
         FinalizeRenderOutputClaim, DeleteAccepted, ReleaseClaim, Poll, PollAsk, PollWrite,
         PollEpisode, Cancel, CancelAsk, CancelWrite, Start, StartAsk, StartWrite, HandlerFails,
         Crash
  <2>2. ASSUME rowRid'[j] # rowRid[j] PROVE FALSE
    <3>1. PICK p \in Procs : pc[p] = "q_finalize" /\ row[p] = j /\ pc'[p] = "idle"
      BY <2>2, RowsGetRid
    <3>2. Process(p)
      BY <3>1, OwnLocals
    <3> QED
      BY <2>1, <2>2, <3>1, <3>2
  <2> QED
    BY <2>2
<1>2. rowRid[j] \in Rids /\ qStatus[rowRid[j]] # "none"
  BY <1>1 DEF Truth
<1>3. ASSUME qStatus[rowRid[j]] \notin Alive PROVE qStatus'[rowRid'[j]] \notin Alive
  BY <1>1, <1>2, <1>3, DeadJobsStay
<1>4. CASE rowStatus[j] = "cancelled"
  BY <1>1, <1>3, <1>4 DEF CancelledNotLive, Alive
<1>5. ASSUME NEW p \in Procs, CancelWrite(p), rowStatus[j] # "cancelled"
      PROVE  qStatus[rowRid[j]] \notin Alive
  <2>1. pc[p] = "c_write" /\ row[p] = j
    BY <1>5 DEF CancelWrite, UpdateRenderJob
  <2> QED
    BY <1>2, <2>1, SentinelAssumption DEF CancelKnows
<1>6. ASSUME NEW p \in Procs, PollWrite(p), rowStatus[j] # "cancelled"
      PROVE  qStatus[rowRid[j]] \notin Alive
  <2>1. pc[p] = "p_write" /\ row[p] = j /\ live[p] = "cancelled" /\ rid[p] = rowRid[j]
    BY <1>6 DEF PollWrite, UpdateRenderJob
  <2> QED
    BY <2>1 DEF PollKnows
<1>7. ASSUME NEW p \in Procs, Process(p), ~ CancelWrite(p), ~ PollWrite(p)
      PROVE  rowStatus[j] = "cancelled"
  BY <1>7 DEF Process, Queueing, Polling, Cancelling, Starting, QueueRender, CheckDatabase,
       CheckResolve, Claim, ClaimRenderOutput, PrepareJob, AddAccepted, AddRefused, Finalize,
       FinalizeRenderOutputClaim, DeleteAccepted, ReleaseClaim, ReleaseRenderOutputClaim, Poll,
       PollAsk, PollEpisode, MarkEpisodeRendered, Cancel, CancelAsk, Start, StartAsk,
       StartWrite, TransitionToRendering, HandlerFails, Crash
<1>8. ArchiveEpisode \/ Environment \/ UNCHANGED vars => rowStatus[j] = "cancelled"
  BY DEF ArchiveEpisode, CommitVerifiedArchive, Environment, vars
<1> QED
  BY <1>3, <1>4, <1>5, <1>6, <1>7, <1>8 DEF Next

----------------------------------------------------------------------------
\* From the look through the queue to AddRenderJob() no rival appears.
LEMMA NoRivalNext ==
  ASSUME Shape, Alone, OutputsApart, CustomNameReported, NoRival, [Next]_vars
  PROVE  NoRival'
<1> SUFFICES ASSUME NEW q \in Procs, pc'[q] \in {"q_claim", "q_prepare", "q_add"},
                    NEW r \in Rids, qStatus'[r] \in Alive
             PROVE  PlanOutput[qPlan'[r]] # PlanOutput[plan'[q]]
  BY DEF NoRival
<1> USE DEF Shape, TypeOK, ResolveTypeOK, ProcTypeOK, LocalShape
<1>1. ASSUME pc[q] \in {"q_claim", "q_prepare", "q_add"}, plan'[q] = plan[q],
             qStatus[r] \in Alive
      PROVE  PlanOutput[qPlan'[r]] # PlanOutput[plan'[q]]
  <2>1. qPlan'[r] = qPlan[r]
    BY <1>1, JobsOnlyAdvance DEF Alive
  <2> QED
    BY <1>1, <2>1 DEF NoRival
<1>2. CASE CheckResolve(q)
  <2>1. /\ plan[q] \in Plans /\ plan' = plan /\ qStatus' = qStatus /\ qPlan' = qPlan
        /\ ~ QueueTargets(plan[q])
    BY <1>2 DEF CheckResolve, Return
  <2>2. qStatus[r] \in ResolveStatus /\ qPlan[r] \in Plans
    BY <2>1 DEF Alive, JobShape
  <2>3. ASSUME PlanOutput[qPlan[r]] = PlanOutput[plan[q]] PROVE FALSE
    <3>1. PlanEpisode[qPlan[r]] = PlanEpisode[plan[q]]
      BY <2>1, <2>2, <2>3 DEF OutputsApart
    <3> QED
      BY <2>1, <2>2, <2>3, <3>1 DEF QueueTargets, QueueOf
  <2> QED
    BY <2>1, <2>3
<1>3. CASE Claim(q) \/ PrepareJob(q)
  <2>1. /\ pc[q] \in {"q_claim", "q_prepare"} /\ plan'[q] = plan[q] /\ qStatus' = qStatus
    BY <1>3 DEF Claim, PrepareJob, Return
  <2> QED
    BY <1>1, <2>1
<1>4. CASE Process(q) /\ ~ CheckResolve(q) /\ ~ Claim(q) /\ ~ PrepareJob(q)
  <2>1. FALSE
    BY <1>4 DEF Process, Queueing, Polling, Cancelling, Starting, QueueRender, CheckDatabase,
         AddAccepted, AddRefused, Finalize, DeleteAccepted, ReleaseClaim, Poll, PollAsk,
         PollWrite, PollEpisode, Cancel, CancelAsk, CancelWrite, Start, StartAsk, StartWrite,
         HandlerFails, Crash, Return
  <2> QED
    BY <2>1
<1>5. CASE ~ Process(q)
  <2>1. pc'[q] = pc[q] /\ plan'[q] = plan[q] /\ (qStatus[r] = "none" => qStatus'[r] = "none")
    BY <1>5, QuietWorld
  <2>2. qStatus[r] \in Alive
    BY <2>1, LiveJobs DEF Alive
  <2> QED
    BY <1>1, <2>1, <2>2
<1> QED
  BY <1>2, <1>3, <1>4, <1>5

\* AddRenderJob() adds the only live job of the output.
LEMMA OneLiveNext ==
  ASSUME Shape, Alone, ListedBefore, NoRival, OneLiveJobPerOutput, [Next]_vars
  PROVE  OneLiveJobPerOutput'
<1> SUFFICES ASSUME NEW r \in Rids, NEW s \in Rids, qStatus'[r] \in Alive, qStatus'[s] \in Alive,
                    PlanOutput[qPlan'[r]] = PlanOutput[qPlan'[s]]
             PROVE  r = s
  BY DEF OneLiveJobPerOutput, Alive
<1> USE DEF Shape, TypeOK, ResolveTypeOK, ProcTypeOK, LocalShape
<1>1. ASSUME NEW p \in Procs, NEW x \in Rids, NEW y \in Rids, AddAccepted(p, x),
             qStatus'[x] \in Alive, qStatus'[y] \in Alive,
             PlanOutput[qPlan'[x]] = PlanOutput[qPlan'[y]]
      PROVE  x = y
  <2> SUFFICES ASSUME x # y PROVE FALSE
    OBVIOUS
  <2>1. /\ pc[p] = "q_add" /\ qPlan'[x] = settings[PlanEpisode[plan[p]]]
        /\ qStatus'[y] = qStatus[y] /\ qPlan'[y] = qPlan[y]
    BY <1>1 DEF AddAccepted, AddJob
  <2>2. qPlan'[x] = plan[p]
    BY <2>1 DEF ListedBefore
  <2>3. PlanOutput[qPlan[y]] # PlanOutput[plan[p]]
    BY <1>1, <2>1 DEF NoRival
  <2> QED
    BY <1>1, <2>1, <2>2, <2>3
<1>2. CASE qStatus[r] \in Alive /\ qStatus[s] \in Alive
  <2>1. qPlan'[r] = qPlan[r] /\ qPlan'[s] = qPlan[s]
    BY <1>2, JobsOnlyAdvance DEF Alive
  <2> QED
    BY <1>2, <2>1 DEF OneLiveJobPerOutput, Alive
<1> QED
  BY <1>1, <1>2, LiveJobs DEF Alive

\* All that holds when there is one process.
Serial ==
    /\ Truth /\ InEpisode
    /\ ListedBefore /\ HeldIsOwn /\ RowOwnsItsJob
    /\ CancelKnows /\ PollKnows /\ CancelledNotLive

\* One process keeps it.
LEMMA SerialHolds ==
  ASSUME Alone
  PROVE  Spec => []Serial
<1>1. Init => Serial
  <2>1. Init => Truth
    BY DEF Init, DbInit, Truth, RowNeverAhead
  <2>2. Init => /\ ListedBefore /\ HeldIsOwn /\ RowOwnsItsJob
                /\ CancelKnows /\ PollKnows /\ CancelledNotLive
    BY DEF Init, DbInit, ResolveInit, ListedBefore, HeldIsOwn, RowOwnsItsJob, CancelKnows,
         PollKnows, CancelledNotLive
  <2> QED
    BY <2>1, <2>2, InEpisodeInit DEF Serial
<1>2. Shape /\ Serial /\ [Next]_vars => Serial'
  <2> SUFFICES ASSUME Shape, Serial, [Next]_vars PROVE Serial'
    OBVIOUS
  <2>1. Truth'
    BY RowsStayTrue, AnswersStayTrue DEF Serial, Truth, RowNeverAhead
  <2>2. InEpisode'
    BY SettingsNext, ClaimsNext, HeldNext, RecordedNext, WrittenNext, RenderedNext
       DEF Serial, InEpisode
  <2>3. ListedBefore' /\ HeldIsOwn' /\ RowOwnsItsJob'
    BY ListedNext, OwnJobNext, OwnRowNext DEF Serial, InEpisode
  <2>4. CancelKnows' /\ PollKnows' /\ CancelledNotLive'
    BY CancelKnowsNext, PollKnowsNext, CancelledNext DEF Serial
  <2> QED
    BY <2>1, <2>2, <2>3, <2>4 DEF Serial
<1> QED
  BY <1>1, <1>2, ShapeInvariant, PTL DEF Spec

\* With one process the job id a row records is the id of the job that was
\* added for that row's plan, wherever the process dies in between.
THEOREM OwnJob ==
  ASSUME Alone
  PROVE  Spec => []RowOwnsItsJob
<1>1. Serial => RowOwnsItsJob
  BY DEF Serial
<1> QED
  BY <1>1, SerialHolds, PTL

\* With one process a row that says cancelled has no job that waits or renders.
THEOREM CancelledIsDead ==
  ASSUME Alone
  PROVE  Spec => []CancelledNotLive
<1>1. Serial => CancelledNotLive
  BY DEF Serial
<1> QED
  BY <1>1, SerialHolds, PTL

\* With one process, and listings that show where a job writes, Resolve never
\* has two live jobs for one file, although crashes leave jobs behind.
THEOREM OneLiveJob ==
  ASSUME Alone, OutputsApart, CustomNameReported
  PROVE  Spec => []OneLiveJobPerOutput
<1>1. Init => NoRival /\ OneLiveJobPerOutput
  BY DEF Init, ResolveInit, NoRival, OneLiveJobPerOutput
<1>2. Shape /\ Serial /\ NoRival /\ OneLiveJobPerOutput /\ [Next]_vars
      => (NoRival /\ OneLiveJobPerOutput)'
  BY NoRivalNext, OneLiveNext DEF Serial
<1> QED
  BY <1>1, <1>2, ShapeInvariant, SerialHolds, PTL DEF Spec

=============================================================================
