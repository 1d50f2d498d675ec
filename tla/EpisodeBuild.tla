---------------------------- MODULE EpisodeBuild ----------------------------
(***************************************************************************)
(* `build` and `build --render` of one episode, by several processes:      *)
(* preflight of the manifest (build/preflight.py), create_episode()        *)
(* (episode/manager.py), the assembly, the persisted provenance            *)
(* (build/manifest_provenance.py) and the render that the build-to-render  *)
(* workflow queues (workflows/build_render.py).                            *)
(*                                                                         *)
(* The assembly is two steps here, the claim and its resolution; module    *)
(* EpisodeAssembly has them in detail.  Likewise the queueing and the      *)
(* polling of renders are what module RenderPipeline leaves of them.       *)
(***************************************************************************)
EXTENDS RenderDatabase, ArchiveSources

CONSTANTS Episode,     \* the episode
          Builders,    \* build commands (bounds how many are ever run)
          RidOf,       \* the id Resolve would give a job: never one it gave before
          NoVersion    \* no manifest is loaded

ASSUME BuildAssumption ==
    /\ Episodes = {Episode}
    /\ Outputs \subseteq Workspace
    /\ NoVersion \notin Versions
    /\ Jobs \subseteq Nat
    /\ RidOf \in [Jobs -> Rids] /\ \A j, k \in Jobs : RidOf[j] = RidOf[k] => j = k

VARIABLES tracked,      \* the episodes row exists
          folder,       \* the working folder exists
          folderPath,   \* episodes.folder_path is set
          project,      \* the Resolve project exists
          projectPath,  \* episodes.project_path is set
          claim,        \* the builder whose token is the assembly claim, or none
          bpc,          \* where a builder is
          bver,         \* the manifest version it loaded
          bfolder,      \* it saw a folder_path when it looked the episode up
          finishing     \* a render job whose poll still has to mark the episode

buildVars == <<tracked, folder, folderPath, project, projectPath, claim, bpc, bver, bfolder, finishing>>

BuildSteps == {"idle", "lookup", "insert", "folder", "folder_path", "duplicate", "project_path",
               "claim", "assemble", "provenance", "copy", "record", "queue", "done"}

NoClaim == "none"

ASSUME ClaimAssumption == NoClaim \notin Builders

BuildTypeOK ==
    /\ DbTypeOK
    /\ SourcesTypeOK
    /\ {tracked, folder, folderPath, project, projectPath} \subseteq BOOLEAN
    /\ claim \in Builders \cup {NoClaim}
    /\ bpc \in [Builders -> BuildSteps]
    /\ bver \in [Builders -> Versions \cup {NoVersion}]
    /\ bfolder \in [Builders -> BOOLEAN]
    /\ finishing \in Jobs \cup {NoJob}

\* An untracked episode, the manifest an operator wrote for it, the media and
\* the evidence.
BuildInit ==
    /\ epStatus = [e \in Episodes |-> "created"]
    /\ archiveOf = [e \in Episodes |-> NoJob]
    /\ rowStatus = [j \in Jobs |-> "absent"]
    /\ rowPlan = [j \in Jobs |-> NoPlan]
    /\ rowRid = [j \in Jobs |-> NoRid]
    /\ disk = [f \in Files |-> IF f \in Workspace THEN Absent ELSE 1]
    /\ written = [f \in Files |-> IF disk[f] = Absent THEN 0 ELSE 1]
    /\ edits = 0
    /\ recorded = [sha |-> Absent, media |-> {}]
    /\ tracked = FALSE /\ folder = FALSE /\ folderPath = FALSE
    /\ project = FALSE /\ projectPath = FALSE
    /\ claim = NoClaim
    /\ bpc = [b \in Builders |-> "idle"]
    /\ bver = [b \in Builders |-> NoVersion]
    /\ bfolder = [b \in Builders |-> FALSE]
    /\ finishing = NoJob

Step(b, s) == bpc' = [bpc EXCEPT ![b] = s]

\* The command of builder b ends, with success or an error.
Done(b) ==
    /\ bpc' = [bpc EXCEPT ![b] = "done"]
    /\ bver' = [bver EXCEPT ![b] = NoVersion]
    /\ bfolder' = [bfolder EXCEPT ![b] = FALSE]

Loaded(b) == UNCHANGED <<bver, bfolder>>

episodeVars == <<tracked, folder, folderPath, project, projectPath>>

----------------------------------------------------------------------------
(* BuildPreflight.prepare() and BuildOrchestrator.build_prepared() *)

\* The manifest is found, loaded and validated; its content is the plan.
Prepare(b) ==
    /\ bpc[b] = "idle"
    /\ ValidManifest(disk[Manifest])
    /\ Step(b, "lookup")
    /\ bver' = [bver EXCEPT ![b] = disk[Manifest]]
    /\ UNCHANGED <<bfolder, episodeVars, claim, finishing, dbVars, sourceVars>>

\* get_episode_status(): the row that is kept for the rest of the command.
LookUp(b) ==
    /\ bpc[b] = "lookup"
    /\ Step(b, IF tracked THEN "claim" ELSE "insert")
    /\ bfolder' = [bfolder EXCEPT ![b] = tracked /\ folderPath]
    /\ UNCHANGED <<bver, episodeVars, claim, finishing, dbVars, sourceVars>>

----------------------------------------------------------------------------
(* create_episode() *)

\* The row first; a row that appeared since the lookup is an error.
InsertEpisode(b) ==
    /\ bpc[b] = "insert"
    /\ \/ ~ tracked /\ tracked' = TRUE /\ Step(b, "folder") /\ Loaded(b)
       \/ tracked /\ Done(b) /\ UNCHANGED tracked
    /\ UNCHANGED <<folder, folderPath, project, projectPath, claim, finishing, dbVars, sourceVars>>

\* _create_episode_folder(), or an OSError.
CreateFolder(b) ==
    /\ bpc[b] = "folder"
    /\ \/ folder' = TRUE /\ Step(b, "folder_path") /\ Loaded(b)
       \/ Done(b) /\ UNCHANGED folder
    /\ UNCHANGED <<tracked, folderPath, project, projectPath, claim, finishing, dbVars, sourceVars>>

\* Mutant: the path of the folder is recorded after the project, if at all.
RecordFolderLater(b) ==
    /\ bpc[b] = "folder_path"
    /\ Step(b, "duplicate")
    /\ Loaded(b)
    /\ UNCHANGED <<episodeVars, claim, finishing, dbVars, sourceVars>>

\* update_episode_paths(folder_path=...).
RecordFolder(b) ==
    /\ bpc[b] = "folder_path"
    /\ folderPath' = TRUE
    /\ Step(b, "duplicate")
    /\ Loaded(b)
    /\ UNCHANGED <<tracked, folder, project, projectPath, claim, finishing, dbVars, sourceVars>>

\* duplicate_project(): the template copied, or an error.
DuplicateProject(b) ==
    /\ bpc[b] = "duplicate"
    /\ \/ ~ project /\ project' = TRUE /\ Step(b, "project_path") /\ Loaded(b)
       \/ Done(b) /\ UNCHANGED project
    /\ UNCHANGED <<tracked, folder, folderPath, projectPath, claim, finishing, dbVars, sourceVars>>

\* update_episode_paths(project_path=...) and the row as it is now.
RecordProject(b) ==
    /\ bpc[b] = "project_path"
    /\ projectPath' = TRUE
    /\ Step(b, "claim")
    /\ bfolder' = [bfolder EXCEPT ![b] = folderPath]
    /\ UNCHANGED <<bver, tracked, folder, folderPath, project, claim, finishing, dbVars, sourceVars>>

----------------------------------------------------------------------------
(* build_episode() *)

\* The assembly claim: a fresh episode that nobody holds or, forced, one that
\* is not assembled yet.
ClaimAssembly(b) ==
    /\ bpc[b] = "claim"
    /\ \/ /\ \/ epStatus[Episode] = "created" /\ claim = NoClaim
             \/ epStatus[Episode] \in {"created", "failed"}
          /\ claim' = b
          /\ Step(b, "assemble")
          /\ Loaded(b)
       \/ Done(b) /\ UNCHANGED claim
    /\ UNCHANGED <<episodeVars, finishing, dbVars, sourceVars>>

\* Media, timeline and markers are in the project and the holder resolves its
\* claim, or the attempt fails; without a project it can only fail.
Assemble(b) ==
    /\ bpc[b] = "assemble"
    /\ \/ /\ claim = b /\ project
          /\ epStatus' = [epStatus EXCEPT ![Episode] = "assembled"]
          /\ claim' = NoClaim
          /\ Step(b, "provenance")
          /\ Loaded(b)
       \/ /\ claim = b
          /\ epStatus' = [epStatus EXCEPT ![Episode] = "failed"]
          /\ claim' = NoClaim
          /\ Done(b)
       \/ claim # b /\ Done(b) /\ UNCHANGED <<claim, epStatus>>
    /\ UNCHANGED <<episodeVars, finishing, archiveOf, rowStatus, rowPlan, rowRid, sourceVars>>

----------------------------------------------------------------------------
(* persist_manifest_provenance() *)

\* The project subfolder is there, the provenance directory is not in use and
\* every medium of the plan has one place below the approved roots.
CheckProvenance(b) ==
    /\ bpc[b] = "provenance"
    /\ IF /\ bfolder[b] /\ folder
          /\ disk[Copy] = Absent /\ disk[Provenance] = Absent
          /\ MediaOf[bver[b]] \subseteq Approved
       THEN Step(b, "copy") /\ Loaded(b)
       ELSE Done(b)
    /\ UNCHANGED <<episodeVars, claim, finishing, dbVars, sourceVars>>

\* _copy_manifest_bytes(): the manifest as it is on disk now, never over a file.
CopyManifest(b) ==
    /\ bpc[b] = "copy"
    /\ \/ /\ Regular(Manifest) /\ disk[Copy] = Absent
          /\ Replace(Copy, disk[Manifest])
          /\ Step(b, "record")
          /\ Loaded(b)
       \/ Done(b) /\ UNCHANGED <<disk, written>>
    /\ UNCHANGED <<edits, recorded, episodeVars, claim, finishing, dbVars>>

\* manifest_provenance.json: the hash of the copy and the media of the plan.
RecordProvenance(b) ==
    /\ bpc[b] = "record"
    /\ \/ /\ Regular(Copy)
          /\ Save(Provenance)
          /\ recorded' = [sha |-> disk[Copy], media |-> MediaOf[bver[b]]]
          /\ Step(b, "queue")
          /\ Loaded(b)
       \/ Done(b) /\ UNCHANGED <<disk, written, recorded>>
    /\ UNCHANGED <<edits, episodeVars, claim, finishing, dbVars>>

----------------------------------------------------------------------------
(* Rendering *)

\* AUTOINCREMENT: the row a claim inserts.
NextRow(j) == \A k \in Jobs : k < j => rowStatus[k] # "absent"

\* queue_render() up to its claim; also a command of its own, on its own.
\* The plan needs a recorded folder, its output is not on disk yet.
ClaimRender(j, pl) ==
    /\ NextRow(j)
    /\ folderPath /\ folder
    /\ project
    /\ epStatus[Episode] \in {"assembled", "render_queued", "rendered", "archived"}
    /\ disk[PlanOutput[pl]] = Absent
    /\ ClaimRenderOutput(j, pl)
    /\ UNCHANGED <<buildVars, sourceVars>>

\* Resolve accepts the job, or the claim is given back.
AcceptRender(j) ==
    /\ \/ FinalizeRenderOutputClaim(j, RidOf[j])
       \/ ReleaseRenderOutputClaim(j)
    /\ UNCHANGED <<buildVars, sourceVars>>

\* BuildRenderWorkflow.run(): the build that succeeded asks for its render.
QueueAfterBuild(b) ==
    /\ bpc[b] = "queue"
    /\ Done(b)
    /\ UNCHANGED <<episodeVars, claim, finishing, sourceVars>>
    /\ \/ \E j \in Jobs, pl \in Plans : NextRow(j) /\ disk[PlanOutput[pl]] = Absent /\ ClaimRenderOutput(j, pl)
       \/ UNCHANGED dbVars

\* Resolve writes the output of a queued job.
RenderWrites(j) ==
    /\ rowStatus[j] = "queued"
    /\ disk[PlanOutput[rowPlan[j]]] = Absent
    /\ Save(PlanOutput[rowPlan[j]])
    /\ UNCHANGED <<edits, recorded, buildVars, dbVars>>

\* A poll sees the job complete and writes the row...
PollRender(j) ==
    /\ finishing = NoJob
    /\ rowStatus[j] = "queued"
    /\ disk[PlanOutput[rowPlan[j]]] # Absent
    /\ UpdateRenderJob(j, "complete")
    /\ finishing' = j
    /\ UNCHANGED <<episodeVars, claim, bpc, bver, bfolder, sourceVars>>

\* ... and then the episode.
PollEpisode ==
    /\ finishing # NoJob
    /\ MarkEpisodeRendered(Episode)
    /\ finishing' = NoJob
    /\ UNCHANGED <<episodeVars, claim, bpc, bver, bfolder, sourceVars>>

\* A builder's process dies; what it stored stays as it is.
KillBuilder(b) ==
    /\ bpc[b] \notin {"idle", "done"}
    /\ Done(b)
    /\ UNCHANGED <<episodeVars, claim, finishing, dbVars, sourceVars>>

BuildStep(b) ==
    \/ Prepare(b) \/ LookUp(b)
    \/ InsertEpisode(b) \/ CreateFolder(b) \/ RecordFolder(b)
    \/ DuplicateProject(b) \/ RecordProject(b)
    \/ ClaimAssembly(b) \/ Assemble(b)
    \/ CheckProvenance(b) \/ CopyManifest(b) \/ RecordProvenance(b)
    \/ QueueAfterBuild(b) \/ KillBuilder(b)

RenderStep ==
    \/ \E j \in Jobs, pl \in Plans : ClaimRender(j, pl)
    \/ \E j \in Jobs : AcceptRender(j) \/ RenderWrites(j) \/ PollRender(j)
    \/ PollEpisode

=============================================================================
