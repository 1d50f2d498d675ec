------------------------ MODULE EpisodeArchiveProofs ------------------------
(***************************************************************************)
(* Theorems about EpisodeArchive for any files, plans, builders,           *)
(* archivers, edits and damage.                                            *)
(***************************************************************************)
EXTENDS EpisodeArchive, TLAPS, WellFoundedInduction

Stagings == [plan : ContentPlans, job : JobFacts, payload : FileSets, sealed : BOOLEAN]

\* The content of a file that can be read, or none.
Clean == Versions \cup {Absent}

\* An archiver read a render job and works on it.
Working == ArchiveSteps \ {"idle", "select", "done"}

\* Its plan holds the content.
Planned == {"final", "evidence", "stage", "copy", "check", "complete", "recheck", "publish"}

\* It has a staging directory.
Staging == {"copy", "check", "complete", "recheck", "publish"}

\* Its package is published, or it found one.
Settled == {"commit", "rows", "job", "register"}

\* An episode this far along is assembled.
Advanced == {"assembled", "render_queued", "rendered", "archived"}

Master(a) == PlanOutput[ajob[a].plan]

\* The manifest of the package that archiver a builds or found.
ManifestFor(a) ==
    [id |-> ArchiveId(aplan[a]), files |-> aplan[a].files, roles |-> aplan[a].roles, job |-> ajob[a]]

----------------------------------------------------------------------------
(* The inductive invariant: types and what the steps of a process have *)

\* The archivers' variables are functions.
ArchiverTypes ==
    /\ apc \in [Archivers -> ArchiveSteps]
    /\ ajob \in [Archivers -> JobFacts \cup {NoFacts}]
    /\ alisted \in [Archivers -> SUBSET Workspace]
    /\ aplan \in [Archivers -> ContentPlans]
    /\ afile \in [Archivers -> Files \cup {NoFile}]
    /\ staged \in [Archivers -> Stagings \cup {NoStaging}]
    /\ seen \in [Archivers -> SUBSET FileSets]

\* A builder on its way has a manifest, a row in use has a plan and, once
\* Resolve took the job, an id.
BuildShape ==
    /\ \A b \in Builders : bpc[b] \notin {"idle", "done"} => bver[b] \in Versions
    /\ \A j \in Jobs : rowStatus[j] \in {"absent", "claiming", "queued", "complete", "deleted"}
    /\ \A j \in Jobs : rowStatus[j] \in {"claiming", "queued", "complete"} => rowPlan[j] \in Plans
    /\ \A j \in Jobs : rowStatus[j] \in {"queued", "complete"} => rowRid[j] \in Rids

\* What archiver a has at each step.
JobShape(a) ==
    /\ apc[a] \in Working => ajob[a] \in JobFacts
    /\ apc[a] \in Staging => staged[a] \in Stagings

RowShape ==
    registered # NoRow => registered \in [id : ContentPlans, manifest : Manifests, job : Jobs]

Types ==
    /\ BuildTypeOK /\ ArchiverTypes /\ BuildShape
    /\ \A p \in published : p \in Packages
    /\ damaged \subseteq ContentPlans
    /\ \A a \in Archivers : JobShape(a)
    /\ RowShape

----------------------------------------------------------------------------
(* ... the episode *)

\* A build holds the assembly claim only before the episode is assembled, and
\* nothing is rendered, recorded or archived before.
Ladder ==
    /\ claim # NoClaim => epStatus[Episode] \in {"created", "failed"}
    /\ epStatus[Episode] \notin Advanced =>
          /\ \A j \in Jobs : rowStatus[j] = "absent"
          /\ \A b \in Builders : bpc[b] \notin {"provenance", "copy", "record", "queue"}
          /\ finishing = NoJob

\* How far create_episode() has come, and what a build that goes on knows of it.
Created ==
    \A b \in Builders :
       /\ bpc[b] = "folder_path" => folder
       /\ bpc[b] = "duplicate" => folder /\ folderPath
       /\ bpc[b] = "project_path" => folder /\ folderPath /\ project
       /\ bpc[b] \in {"copy", "record", "queue"} => folder /\ folderPath
       /\ bfolder[b] => folderPath

EpisodeInv == Ladder /\ Created /\ AssembledHasProject

----------------------------------------------------------------------------
(* ... a package under way *)

\* The inventory holds listed files only, the plan all of them and the master.
PlanShape(a) ==
    /\ apc[a] \in {"idle", "select", "enumerate"} => aplan[a] = NoContent
    /\ apc[a] \in {"hash", "plan"} =>
          \A f \in Files : aplan[a].files[f] \in Clean /\ (aplan[a].files[f] # Absent => f \in alisted[a])
    /\ apc[a] = "plan" => Master(a) \in alisted[a] /\ alisted[a] \subseteq Held(aplan[a].files)
    /\ apc[a] \in Planned => /\ <<Master(a), "render_master">> \in aplan[a].roles
                             /\ aplan[a].files[Master(a)] # Absent

\* The staging directory is for the plan and the job of its archiver, and is
\* whole once it is sealed.
StagingShape(a) ==
    /\ apc[a] \in Staging => /\ staged[a].plan = aplan[a] /\ staged[a].job = ajob[a]
                             /\ \A f \in Files : staged[a].payload[f] \in Clean
    /\ apc[a] \in {"recheck", "publish"} =>
          staged[a].sealed /\ staged[a].payload = staged[a].plan.files
    /\ apc[a] = "publish" =>
          \E d \in seen[a] : \A f \in Files :
             f \in Workspace \/ staged[a].payload[f] # Absent => d[f] = staged[a].payload[f]

AttemptInv == \A a \in Archivers : PlanShape(a) /\ StagingShape(a)

----------------------------------------------------------------------------
(* ... packages and their row *)

\* The sidecar stays what was sealed; damage takes files of the payload and
\* the roles of the manifest.
PackageShape(p) ==
    /\ p.id = p.sidecar.id
    /\ p.id = ArchiveId([files |-> p.sidecar.files, roles |-> p.sidecar.roles])
    /\ p.manifest = p.sidecar \/ p.manifest = [p.sidecar EXCEPT !.roles = {}]
    /\ \A f \in Files : p.sidecar.files[f] \in Clean
    /\ \A f \in Files : p.payload[f] = p.sidecar.files[f] \/ p.payload[f] = Absent
    /\ Held(p.sidecar.files) # {}
    /\ p.marker
    /\ p.id \notin damaged => Verified(p)

PackagesInv ==
    /\ \A p \in published : PackageShape(p)
    /\ \A p, q \in published : p.id = q.id => p = q
    /\ \A i \in damaged : At(i) # {}

\* A package with manifest m is there, unless it was damaged.
Stored(m) ==
    \E p \in published : p.id = m.id /\ (p.id \notin damaged => p.manifest = m)

RowInv ==
    /\ \A a \in Archivers : apc[a] \in Settled => Stored(ManifestFor(a))
    /\ registered # NoRow =>
          /\ epStatus[Episode] \in {"archived", "render_queued", "rendered"}
          /\ registered.job = archiveOf[Episode]
          /\ registered.job = registered.manifest.job.job
          /\ registered.id = registered.manifest.id
          /\ Stored(registered.manifest)

StoreInv == PackagesInv /\ RowInv

IInv == Types /\ EpisodeInv /\ AttemptInv /\ StoreInv

----------------------------------------------------------------------------
(* ... the provenance *)

\* Redline alone writes project/episode_manifest, no manifest names a medium
\* there, and the operator's manifest is not called manifest_provenance.json.
ProvenanceKept ==
    /\ Copy # Provenance
    /\ {Copy, Provenance} \cap (Editable \cup Removable \cup Linkable \cup Outputs) = {}
    /\ \A v \in Versions : {Copy, Provenance} \cap MediaOf[v] = {}

\* One builder copies the manifest and records it, once.
OneRecord ==
    /\ \A b \in Builders : bpc[b] = "record" => disk[Copy] # Absent /\ disk[Provenance] = Absent
    /\ \A b, c \in Builders : bpc[b] = "record" /\ bpc[c] = "record" => b = c
    /\ disk[Provenance] # Absent => disk[Copy] # Absent
    /\ recorded.media \subseteq Approved
    /\ \A b \in Builders : bpc[b] \in {"copy", "record"} => MediaOf[bver[b]] \subseteq Approved

\* Files that hold the copy hold the whole provenance, which stays.
WholeIn(files) ==
    files[Copy] # Absent =>
        /\ disk[Provenance] # Absent
        /\ files[Provenance] # Absent
        /\ files[Copy] = recorded.sha
        /\ \A m \in recorded.media : files[m] # Absent

WholeInv ==
    /\ OneRecord
    /\ \A a \in Archivers : apc[a] \in Planned => WholeIn(aplan[a].files)
    /\ \A p \in published : WholeIn(p.sidecar.files)

\* A package has a file at the output path of the job it archives.
MasterIn(p) ==
    LET master == PlanOutput[p.sidecar.job.plan] IN
    /\ <<master, "render_master">> \in p.sidecar.roles
    /\ p.sidecar.files[master] # Absent

MasterInv == \A p \in published : MasterIn(p)

----------------------------------------------------------------------------
(* Sets of natural numbers and files *)

\* A set of natural numbers that is not empty has a least element.
LEMMA Least ==
  ASSUME NEW T \in SUBSET Nat, T # {}
  PROVE  \E m \in T : \A k \in T : m <= k
<1>1. PICK x \in T : \A y \in T : ~ (<<y, x>> \in OpToRel(<, Nat))
  BY NatLessThanWellFounded, WFMin, Zenon
<1>2. \A y \in T : <<y, x>> \in OpToRel(<, Nat) <=> y < x
  BY DEF OpToRel
<1>3. \A y \in T : ~ (y < x)
  BY <1>1, <1>2, Zenon
<1>4. \A y \in T : x <= y
  BY <1>3
<1> QED
  BY <1>4

\* The file of a set that is read first is one of the set (Foremost).
LEMMA ForemostIn ==
  ASSUME NEW S \in SUBSET Files, S # {}
  PROVE  Foremost(S) \in S
<1> DEFINE T == {Rank[f] : f \in S}
<1>1. \A f \in S : Rank[f] \in Nat
  BY SourcesAssumption
<1>2. T \in SUBSET Nat /\ T # {}
  BY <1>1
<1>3. PICK m \in T : \A k \in T : m <= k
  BY <1>2, Least
<1>4. PICK h \in S : Rank[h] = m
  BY <1>3
<1>5. \A g \in S : Rank[h] <= Rank[g]
  BY <1>3, <1>4
<1>6. \E f \in S : \A g \in S : Rank[f] <= Rank[g]
  BY <1>5
<1> QED
  BY <1>6, Zenon DEF Foremost

\* A set function with one more file of known content.
LEMMA FilesUpdated ==
  ASSUME NEW files \in FileSets, NEW f, NEW c \in Contents
  PROVE  [files EXCEPT ![f] = c] \in FileSets
BY DEF FileSets

\* What an archive id or a role is made of is of the right type.
LEMMA ArchiveIdType ==
  ASSUME NEW plan, plan.files \in FileSets, plan.roles \in SUBSET (Files \X Roles)
  PROVE  ArchiveId(plan) \in ContentPlans
BY DEF ArchiveId, Only, ContentPlans, FileSets, Contents

\* A job an archiver read names an output of the workspace.
LEMMA MasterType ==
  ASSUME NEW facts \in JobFacts
  PROVE  facts.job \in Jobs /\ facts.plan \in Plans /\ PlanOutput[facts.plan] \in Workspace
BY FactsAssumption, PlanAssumption, BuildAssumption

\* The folders and files of an episode, and where they lie.
LEMMA FilesType == Workspace \subseteq Files /\ Media \subseteq Files /\ Evidence \subseteq Files
                   /\ Manifest \in Files /\ Copy \in Workspace /\ Provenance \in Workspace
                   /\ Outputs \subseteq Workspace
BY SourcesAssumption, BuildAssumption DEF Files

----------------------------------------------------------------------------
(* Types *)

\* Versions are contents, and different from no file and from a link.
LEMMA VersionType ==
  /\ MaxVersion \in Nat /\ MaxEdits \in Nat /\ 1 \in Versions
  /\ Absent \notin Versions /\ Link \notin Versions /\ Absent # Link
  /\ Clean \subseteq Contents /\ Versions \subseteq Contents
  /\ Absent \in Contents /\ Link \in Contents
BY SourcesAssumption DEF Clean, Contents, Versions

\* Saving, removing or linking a file keeps the types of the files.
LEMMA SaveTypes ==
  ASSUME SourcesTypeOK, NEW f \in Files, Save(f)
  PROVE  /\ disk' \in [Files -> Contents] /\ written' \in [Files -> 0..MaxVersion]
         /\ disk'[f] \in Versions
         /\ \A g \in Files \ {f} : disk'[g] = disk[g]
BY VersionType DEF SourcesTypeOK, Save, Contents, Versions

\* A file that is saved, removed or linked has a content.
LEMMA EditTypes ==
  ASSUME SourcesTypeOK, NEW f \in Files, Edit(f)
  PROVE  SourcesTypeOK'
<1>1. edits' \in 0..MaxEdits /\ recorded' = recorded
  BY VersionType DEF Edit, SourcesTypeOK
<1>2. CASE Save(f)
  BY <1>1, <1>2, SaveTypes DEF SourcesTypeOK
<1>3. CASE Replace(f, Absent) \/ Replace(f, Link)
  BY <1>1, <1>3, VersionType DEF SourcesTypeOK, Replace
<1> QED
  BY <1>2, <1>3 DEF Edit

\* Every transaction keeps the types of the rows.
LEMMA RowTypes ==
  ASSUME DbTypeOK, BuildShape, UNCHANGED <<bpc, bver>>,
         \/ \E j \in Jobs, pl \in Plans : ClaimRenderOutput(j, pl)
         \/ \E j \in Jobs : FinalizeRenderOutputClaim(j, RidOf[j]) \/ ReleaseRenderOutputClaim(j)
         \/ \E j \in Jobs : rowStatus[j] = "queued" /\ UpdateRenderJob(j, "complete")
         \/ MarkEpisodeRendered(Episode)
         \/ \E j \in Jobs : CommitVerifiedArchive(Episode, j)
  PROVE  DbTypeOK' /\ BuildShape'
<1> USE DEF DbTypeOK, BuildShape, RenderJobStatus, EpisodeStatus
<1>1. CASE \E j \in Jobs, pl \in Plans : ClaimRenderOutput(j, pl)
  BY <1>1 DEF ClaimRenderOutput
<1>2. CASE \E j \in Jobs : FinalizeRenderOutputClaim(j, RidOf[j])
  <2>1. PICK j \in Jobs : FinalizeRenderOutputClaim(j, RidOf[j])
    BY <1>2
  <2>2. RidOf[j] \in Rids
    BY BuildAssumption
  <2> QED
    BY <2>1, <2>2 DEF FinalizeRenderOutputClaim
<1>3. CASE \E j \in Jobs : ReleaseRenderOutputClaim(j)
  BY <1>3 DEF ReleaseRenderOutputClaim
<1>4. CASE \E j \in Jobs : rowStatus[j] = "queued" /\ UpdateRenderJob(j, "complete")
  BY <1>4 DEF UpdateRenderJob, RowExists
<1>5. CASE MarkEpisodeRendered(Episode)
  BY <1>5 DEF MarkEpisodeRendered
<1>6. CASE \E j \in Jobs : CommitVerifiedArchive(Episode, j)
  BY <1>6 DEF CommitVerifiedArchive
<1> QED
  BY <1>1, <1>2, <1>3, <1>4, <1>5, <1>6

\* Every step of a builder keeps the types of the build.
LEMMA BuilderTypes ==
  ASSUME BuildTypeOK, BuildShape, NEW b \in Builders, BuildStep(b)
  PROVE  BuildTypeOK' /\ BuildShape'
<1> USE DEF Step, Done, Loaded, episodeVars, dbVars, sourceVars
<1> DEFINE EpisodeOK == /\ {tracked, folder, folderPath, project, projectPath} \subseteq BOOLEAN
                        /\ claim \in Builders \cup {NoClaim}
                        /\ bpc \in [Builders -> BuildSteps]
                        /\ bver \in [Builders -> Versions \cup {NoVersion}]
                        /\ bfolder \in [Builders -> BOOLEAN]
                        /\ finishing \in Jobs \cup {NoJob}
           LoadedOK == \A c \in Builders : bpc[c] \notin {"idle", "done"} => bver[c] \in Versions
           RowsOK == /\ \A j \in Jobs : rowStatus[j] \in {"absent", "claiming", "queued", "complete", "deleted"}
                     /\ \A j \in Jobs : rowStatus[j] \in {"claiming", "queued", "complete"} => rowPlan[j] \in Plans
                     /\ \A j \in Jobs : rowStatus[j] \in {"queued", "complete"} => rowRid[j] \in Rids
<1>0. EpisodeOK /\ LoadedOK /\ RowsOK
  BY DEF BuildTypeOK, BuildShape
<1>1. DbTypeOK' /\ RowsOK'
  <2> USE <1>0 DEF BuildTypeOK
  <2>1. CASE UNCHANGED dbVars
    BY <2>1 DEF DbTypeOK
  <2>2. CASE Assemble(b)
    BY <2>2 DEF Assemble, DbTypeOK, EpisodeStatus
  <2>3. CASE QueueAfterBuild(b) /\ ~ UNCHANGED dbVars
    <3>1. \E j \in Jobs, pl \in Plans : ClaimRenderOutput(j, pl)
      BY <2>3 DEF QueueAfterBuild
    <3> QED
      BY <3>1 DEF ClaimRenderOutput, DbTypeOK, RenderJobStatus
  <2> QED
    BY <2>1, <2>2, <2>3 DEF BuildStep, Prepare, LookUp, InsertEpisode, CreateFolder, RecordFolder,
       DuplicateProject, RecordProject, ClaimAssembly, CheckProvenance, CopyManifest,
       RecordProvenance, KillBuilder
<1>2. SourcesTypeOK'
  <2> USE <1>0, VersionType, FilesType DEF BuildTypeOK
  <2>1. CASE UNCHANGED sourceVars
    BY <2>1 DEF SourcesTypeOK
  <2>2. CASE CopyManifest(b) /\ ~ UNCHANGED sourceVars
    BY <2>2 DEF CopyManifest, Replace, SourcesTypeOK, Regular
  <2>3. CASE RecordProvenance(b) /\ ~ UNCHANGED sourceVars
    <3>1. Save(Provenance) /\ recorded' = [sha |-> disk[Copy], media |-> MediaOf[bver[b]]]
          /\ edits' = edits /\ bpc[b] = "record"
      BY <2>3 DEF RecordProvenance
    <3>2. MediaOf[bver[b]] \in SUBSET Files
      BY <3>1, SourcesAssumption
    <3> QED
      BY <3>1, <3>2, SaveTypes DEF SourcesTypeOK
  <2> QED
    BY <2>1, <2>2, <2>3 DEF BuildStep, Prepare, LookUp, InsertEpisode, CreateFolder, RecordFolder,
       DuplicateProject, RecordProject, ClaimAssembly, Assemble, CheckProvenance,
       QueueAfterBuild, KillBuilder
<1>3. EpisodeOK' /\ LoadedOK'
  <2> USE <1>0 DEF BuildSteps
  <2>1. CASE Prepare(b)
    BY <2>1 DEF Prepare, ValidManifest
  <2>2. CASE LookUp(b)
    BY <2>2 DEF LookUp
  <2>3. CASE InsertEpisode(b)
    BY <2>3 DEF InsertEpisode
  <2>4. CASE CreateFolder(b)
    BY <2>4 DEF CreateFolder
  <2>5. CASE RecordFolder(b)
    BY <2>5 DEF RecordFolder
  <2>6. CASE DuplicateProject(b)
    BY <2>6 DEF DuplicateProject
  <2>7. CASE RecordProject(b)
    BY <2>7 DEF RecordProject
  <2>8. CASE ClaimAssembly(b)
    BY <2>8 DEF ClaimAssembly
  <2>9. CASE Assemble(b)
    BY <2>9 DEF Assemble
  <2>10. CASE CheckProvenance(b)
    BY <2>10 DEF CheckProvenance
  <2>11. CASE CopyManifest(b)
    BY <2>11 DEF CopyManifest
  <2>12. CASE RecordProvenance(b)
    BY <2>12 DEF RecordProvenance
  <2>13. CASE QueueAfterBuild(b)
    BY <2>13 DEF QueueAfterBuild
  <2>14. CASE KillBuilder(b)
    BY <2>14 DEF KillBuilder
  <2> QED
    BY <2>1, <2>2, <2>3, <2>4, <2>5, <2>6, <2>7, <2>8, <2>9, <2>10, <2>11, <2>12, <2>13, <2>14
    DEF BuildStep
<1> QED
  BY <1>1, <1>2, <1>3 DEF BuildTypeOK, BuildShape

\* So does every step of a render.
LEMMA RenderTypes ==
  ASSUME BuildTypeOK, BuildShape, RenderStep
  PROVE  BuildTypeOK' /\ BuildShape'
<1> USE DEF episodeVars, dbVars, sourceVars, buildVars, BuildTypeOK
<1>1. ASSUME NEW j \in Jobs, NEW pl \in Plans, ClaimRender(j, pl)
      PROVE  BuildTypeOK' /\ BuildShape'
  BY <1>1, RowTypes DEF ClaimRender, SourcesTypeOK
<1>2. ASSUME NEW j \in Jobs, AcceptRender(j)
      PROVE  BuildTypeOK' /\ BuildShape'
  BY <1>2, RowTypes DEF AcceptRender, SourcesTypeOK
<1>3. ASSUME NEW j \in Jobs, RenderWrites(j)
      PROVE  BuildTypeOK' /\ BuildShape'
  <2>1. PlanOutput[rowPlan[j]] \in Files
    BY <1>3, FilesType, PlanAssumption DEF RenderWrites, BuildShape
  <2>2. SourcesTypeOK'
    BY <1>3, <2>1, SaveTypes DEF RenderWrites, SourcesTypeOK
  <2> QED
    BY <1>3, <2>2 DEF RenderWrites, DbTypeOK, BuildShape
<1>4. ASSUME NEW j \in Jobs, PollRender(j)
      PROVE  BuildTypeOK' /\ BuildShape'
  BY <1>4, RowTypes DEF PollRender, SourcesTypeOK
<1>5. CASE PollEpisode
  BY <1>5, RowTypes DEF PollEpisode, SourcesTypeOK
<1> QED
  BY <1>1, <1>2, <1>3, <1>4, <1>5 DEF RenderStep

\* What an archiver's step can have done to the variables of archivers; an
\* archiver of another name keeps its own.
ArchiverKeeps(a) ==
    \A c \in Archivers \ {a} :
        /\ apc'[c] = apc[c] /\ ajob'[c] = ajob[c] /\ alisted'[c] = alisted[c]
        /\ aplan'[c] = aplan[c] /\ afile'[c] = afile[c] /\ staged'[c] = staged[c]

\* An archiver that raises has nothing left.
LEMMA RaiseTypes ==
  ASSUME ArchiverTypes, NEW a \in Archivers, Raise(a)
  PROVE  /\ apc' \in [Archivers -> ArchiveSteps]
         /\ ajob' \in [Archivers -> JobFacts \cup {NoFacts}]
         /\ alisted' \in [Archivers -> SUBSET Workspace]
         /\ aplan' \in [Archivers -> ContentPlans]
         /\ afile' \in [Archivers -> Files \cup {NoFile}]
         /\ staged' \in [Archivers -> Stagings \cup {NoStaging}]
         /\ ArchiverKeeps(a)
         /\ apc'[a] = "done"
<1>1. NoContent \in ContentPlans
  BY VersionType DEF NoContent, ContentPlans, FileSets
<1> QED
  BY <1>1 DEF Raise, Leave, ArchiverTypes, ArchiverKeeps, ArchiveSteps

\* Every step of an archiver keeps the types of its variables and leaves the
\* other archivers alone.
LEMMA AttemptTypes ==
  ASSUME Types, NEW a \in Archivers, ArchiverStep(a)
  PROVE  /\ apc' \in [Archivers -> ArchiveSteps]
         /\ ajob' \in [Archivers -> JobFacts \cup {NoFacts}]
         /\ alisted' \in [Archivers -> SUBSET Workspace]
         /\ aplan' \in [Archivers -> ContentPlans]
         /\ afile' \in [Archivers -> Files \cup {NoFile}]
         /\ staged' \in [Archivers -> Stagings \cup {NoStaging}]
         /\ ArchiverKeeps(a)
         /\ JobShape(a)'
<1> DEFINE Goal == /\ apc' \in [Archivers -> ArchiveSteps]
                   /\ ajob' \in [Archivers -> JobFacts \cup {NoFacts}]
                   /\ alisted' \in [Archivers -> SUBSET Workspace]
                   /\ aplan' \in [Archivers -> ContentPlans]
                   /\ afile' \in [Archivers -> Files \cup {NoFile}]
                   /\ staged' \in [Archivers -> Stagings \cup {NoStaging}]
                   /\ ArchiverKeeps(a)
                   /\ JobShape(a)'
<1> SUFFICES Goal
  OBVIOUS
<1>0. ArchiverTypes /\ BuildTypeOK /\ BuildShape /\ JobShape(a)
  BY DEF Types
<1>1. CASE Raise(a)
  BY <1>0, <1>1, RaiseTypes DEF JobShape, Working, Staging
<1> USE <1>0 DEF packageVars, ArchiverKeeps, JobShape, Working, Staging, ArchiveSteps, Go, ArchiverTypes
<1>2. CASE SelectRenderJob(a) /\ ~ Raise(a)
  <2>1. PICK j \in Jobs : Selectable(j) /\ ajob' = [ajob EXCEPT ![a] = Facts(j)]
    BY <1>2 DEF SelectRenderJob
  <2>2. Facts(j) \in JobFacts
    BY <2>1, FactsAssumption DEF Facts, BuildShape, Selectable
  <2> QED
    BY <1>2, <2>1, <2>2 DEF SelectRenderJob
<1>3. CASE Enumerate(a) /\ ~ Raise(a)
  BY <1>3, FilesType DEF Enumerate, Entries
<1>4. CASE HashFile(a) /\ ~ Raise(a)
  <2> DEFINE f == Foremost(Unhashed(a))
  <2>1. Regular(f) /\ aplan' = [aplan EXCEPT ![a].files[f] = disk[f]]
        /\ UNCHANGED <<apc, ajob, alisted, afile, packageVars>>
    BY <1>4 DEF HashFile
  <2>2. [aplan[a].files EXCEPT ![f] = disk[f]] \in FileSets
    BY <2>1, FilesUpdated, VersionType DEF ContentPlans, Regular
  <2>3. aplan' \in [Archivers -> ContentPlans]
    BY <2>1, <2>2 DEF ContentPlans
  <2> HIDE DEF f
  <2> QED
    BY <2>1, <2>3
<1>5. CASE Settle(a) /\ ~ Raise(a)
  BY <1>5 DEF Settle
<1>6. CASE PlanContent(a) /\ ~ Raise(a)
  <2> DEFINE new == ContentPlan(aplan[a].files, ExternalOf(a), RolesOf(a))
  <2>1. /\ apc[a] = "plan"
        /\ LegacyEpisode(a) => ValidManifest(disk[Manifest])
        /\ aplan' = [aplan EXCEPT ![a] = new]
        /\ Go(a, "final")
        /\ UNCHANGED <<ajob, alisted, afile, packageVars>>
    BY <1>6 DEF PlanContent
  <2>2. PlannedMedia(a) \subseteq Files
    BY <2>1, SourcesAssumption DEF PlannedMedia, BuildTypeOK, SourcesTypeOK, ValidManifest
  <2>3. PlanOutput[ajob[a].plan] \in Files
    BY <2>1, MasterType, FilesType
  <2>4. RolesOf(a) \subseteq Files \X Roles
    <3>1. Copy \in Files /\ Provenance \in Files /\ Manifest \in Files
      BY FilesType
    <3>2. {"render_master", "source_media", "episode_manifest", "manifest_provenance"} \subseteq Roles
      BY DEF Roles
    <3> QED
      BY <2>2, <2>3, <3>1, <3>2 DEF RolesOf
  <2>5. new.files \in FileSets
    BY DEF ContentPlan, FileSets, BuildTypeOK, SourcesTypeOK, ContentPlans
  <2>6. new \in ContentPlans
    BY <2>4, <2>5 DEF ContentPlan, ContentPlans
  <2> HIDE DEF new
  <2> QED
    BY <2>1, <2>6
<1>7. CASE RejectFinal(a) /\ ~ Raise(a)
  BY <1>7 DEF RejectFinal
<1>8. CASE ResolveEvidence(a) /\ ~ Raise(a)
  <2> DEFINE files == [f \in Files |-> IF f \in Evidence THEN disk[f] ELSE aplan[a].files[f]]
  <2>0. aplan[a] \in ContentPlans /\ files \in FileSets
    BY DEF ContentPlans, FileSets, BuildTypeOK, SourcesTypeOK
  <2>1. PackagePlan(aplan[a]) \in ContentPlans
    BY <2>0 DEF PackagePlan, ContentPlans
  <2> QED
    BY <1>8, <2>1 DEF ResolveEvidence
<1>9. CASE Stage(a) /\ ~ Raise(a)
  <2>1. [plan |-> aplan[a], job |-> ajob[a], payload |-> [f \in Files |-> Absent], sealed |-> FALSE]
        \in Stagings
    BY <1>9, VersionType DEF Stage, Stagings, FileSets
  <2> QED
    BY <1>9, <2>1 DEF Stage, BeginStaging
<1>10. CASE Copying(a) /\ ~ Raise(a)
  <2> DEFINE f == Foremost(ToCopy(a))
  <2>1. /\ apc[a] = "copy" /\ f \in ToCopy(a) /\ Regular(f)
        /\ staged' = [staged EXCEPT ![a].payload[f] = disk[f]]
        /\ afile' = [afile EXCEPT ![a] = f]
        /\ Go(a, "check")
        /\ UNCHANGED <<ajob, alisted, aplan>>
    BY <1>10 DEF Copying, CopyFile
  <2>2. staged[a] \in Stagings
    BY <2>1
  <2>3. f \in Files
    BY <2>1, <2>2 DEF ToCopy, Held, Stagings, ContentPlans, FileSets
  <2>4. [staged[a].payload EXCEPT ![f] = disk[f]] \in FileSets
    BY <2>1, <2>2, FilesUpdated, VersionType DEF Stagings, Regular
  <2> HIDE DEF f
  <2>5. [staged[a] EXCEPT !.payload[f] = disk[f]] \in Stagings
    BY <2>2, <2>4 DEF Stagings
  <2>6. staged' = [staged EXCEPT ![a] = [staged[a] EXCEPT !.payload[f] = disk[f]]]
    BY <2>1
  <2> QED
    BY <2>1, <2>3, <2>5, <2>6
<1>11. CASE CheckCopy(a) /\ ~ Raise(a)
  BY <1>11 DEF CheckCopy
<1>12. CASE Complete(a) /\ ~ Raise(a)
  <2>1. apc[a] = "complete" /\ Seal(a) /\ Go(a, "recheck") /\ UNCHANGED <<ajob, alisted, aplan, afile>>
    BY <1>12 DEF Complete
  <2>2. [staged[a] EXCEPT !.sealed = TRUE] \in Stagings
    BY <2>1 DEF Stagings
  <2> QED
    BY <2>1, <2>2 DEF Seal
<1>13. CASE Recheck(a) /\ ~ Raise(a)
  BY <1>13 DEF Recheck
<1>14. CASE PublishPackage(a) /\ ~ Raise(a)
  BY <1>14 DEF PublishPackage, Publish
<1>15. CASE Commit(a) \/ RecoverRegister(a)
  <2>1. NoContent \in ContentPlans
    BY VersionType DEF NoContent, ContentPlans, FileSets
  <2> QED
    BY <1>15, <2>1 DEF Commit, RecoverRegister, Leave
<1>16. ASSUME NEW p \in published, RecoverVerify(a, p)
       PROVE  Goal
  <2>1. p.manifest \in Manifests
    BY DEF Types, Packages
  <2>2. p.manifest.job \in JobFacts /\ [files |-> p.manifest.files, roles |-> p.manifest.roles] \in ContentPlans
    BY <2>1 DEF Manifests, ContentPlans
  <2> QED
    BY <1>16, <2>2 DEF RecoverVerify
<1>17. CASE BeginArchive(a)
  BY <1>17 DEF BeginArchive
<1>18. CASE (RecoverRows(a) \/ RecoverJob(a)) /\ ~ Raise(a)
  BY <1>18 DEF RecoverRows, RecoverJob
<1> QED
  BY <1>1, <1>2, <1>3, <1>4, <1>5, <1>6, <1>7, <1>8, <1>9, <1>10, <1>11, <1>12, <1>13, <1>14, <1>15,
     <1>16, <1>17, <1>18 DEF ArchiverStep, KillArchiver

\* The one step of archiver a that makes a package visible.
Publishes(a) == /\ apc[a] = "publish" /\ apc' = [apc EXCEPT ![a] = "commit"]
                /\ Publish(a)
                /\ UNCHANGED <<ajob, alisted, aplan, afile, dbVars, registered>>

\* Those that register one.
Registers(a) == /\ apc[a] \in {"commit", "register"}
                /\ Register(a, ArchiveId(aplan[a]), ManifestFor(a))
                /\ Leave(a)
                /\ UNCHANGED packageVars

\* What an archiver's step does to the rest of the system: nothing, or it
\* publishes a package, or it registers one.
LEMMA StepParts ==
  ASSUME NEW a \in Archivers, ArchiverStep(a)
  PROVE  /\ UNCHANGED <<sourceVars, buildVars>>
         /\ \/ UNCHANGED <<dbVars, registered, published, damaged>>
            \/ Publishes(a)
            \/ Registers(a)
<1> USE DEF Elsewhere, Raise, packageVars
<1>1. CASE \/ BeginArchive(a) \/ SelectRenderJob(a) \/ Enumerate(a) \/ HashFile(a) \/ Settle(a)
           \/ PlanContent(a) \/ RejectFinal(a) \/ ResolveEvidence(a) \/ CheckCopy(a) \/ Recheck(a)
           \/ RecoverRows(a) \/ RecoverJob(a) \/ KillArchiver(a)
  BY <1>1 DEF BeginArchive, SelectRenderJob, Enumerate, HashFile, Settle, PlanContent, RejectFinal,
     ResolveEvidence, CheckCopy, Recheck, RecoverRows, RecoverJob, KillArchiver
<1>2. CASE Stage(a) \/ Copying(a) \/ Complete(a)
  BY <1>2 DEF Stage, BeginStaging, Copying, CopyFile, Complete, Seal
<1>3. CASE PublishPackage(a)
  BY <1>3 DEF PublishPackage, Publishes, Go
<1>4. CASE Commit(a) \/ RecoverRegister(a)
  BY <1>4 DEF Commit, RecoverRegister, Registers, ManifestFor
<1>5. CASE \E p \in published : RecoverVerify(a, p)
  BY <1>5 DEF RecoverVerify
<1> QED
  BY <1>1, <1>2, <1>3, <1>4, <1>5 DEF ArchiverStep

\* The package archiver a publishes.
LEMMA PackageType ==
  ASSUME Types, NEW a \in Archivers, apc[a] = "publish"
  PROVE  /\ staged[a] \in Stagings
         /\ ManifestOf(a) \in Manifests
         /\ PackageOf(a) \in Packages
<1>1. staged[a] \in Stagings
  BY DEF Types, JobShape, Staging
<1>2. /\ staged[a].plan.files \in FileSets /\ staged[a].plan.roles \in SUBSET (Files \X Roles)
      /\ staged[a].job \in JobFacts /\ staged[a].payload \in FileSets /\ staged[a].sealed \in BOOLEAN
  BY <1>1 DEF Stagings, ContentPlans
<1>3. ArchiveId(staged[a].plan) \in ContentPlans
  BY <1>2, ArchiveIdType
<1>4. ManifestOf(a) \in Manifests
  BY <1>2, <1>3 DEF ManifestOf, Manifests
<1> QED
  BY <1>1, <1>2, <1>3, <1>4 DEF PackageOf, Packages

\* What an attempt seals is a manifest.
LEMMA ManifestType ==
  ASSUME Types, NEW a \in Archivers, apc[a] \in Working
  PROVE  ManifestFor(a) \in Manifests
<1>1. /\ aplan[a].files \in FileSets /\ aplan[a].roles \in SUBSET (Files \X Roles) /\ ajob[a] \in JobFacts
  BY DEF Types, ArchiverTypes, ContentPlans, JobShape
<1>2. ArchiveId(aplan[a]) \in ContentPlans
  BY <1>1, ArchiveIdType
<1> QED
  BY <1>1, <1>2 DEF ManifestFor, Manifests

\* Damage leaves a package a package, under its id.
LEMMA DamageType ==
  ASSUME NEW p \in Packages, NEW q \in DamagedForms(p)
  PROVE  q \in Packages /\ q.id = p.id
<1> DEFINE f == Foremost(Held(p.payload))
<1>1. CASE q = [p EXCEPT !.payload[f] = Absent]
  <2>1. [p.payload EXCEPT ![f] = Absent] \in FileSets
    BY FilesUpdated, VersionType DEF Packages
  <2>2. q = [p EXCEPT !.payload = [p.payload EXCEPT ![f] = Absent]]
    BY <1>1 DEF Packages
  <2> HIDE DEF f
  <2> QED
    BY <2>1, <2>2 DEF Packages
<1>2. CASE q = [p EXCEPT !.stray = TRUE]
  BY <1>2 DEF Packages
<1>3. CASE q = [p EXCEPT !.manifest.roles = {}]
  <2>1. [p.manifest EXCEPT !.roles = {}] \in Manifests
    BY DEF Packages, Manifests
  <2>2. q = [p EXCEPT !.manifest = [p.manifest EXCEPT !.roles = {}]]
    BY <1>3 DEF Packages
  <2> QED
    BY <2>1, <2>2 DEF Packages
<1> QED
  BY <1>1, <1>2, <1>3 DEF DamagedForms

\* Types hold at first.
LEMMA TypesInit == Init => Types
<1> SUFFICES ASSUME Init PROVE Types
  OBVIOUS
<1>1. NoContent \in ContentPlans
  BY VersionType DEF NoContent, ContentPlans, FileSets
<1>2. ArchiverTypes
  BY <1>1 DEF Init, PackageInit, ArchiverTypes, ArchiveSteps
<1>3. DbTypeOK
  BY DEF Init, BuildInit, DbTypeOK, EpisodeStatus
<1>4. SourcesTypeOK
  <2>1. disk \in [Files -> Contents]
    BY VersionType DEF Init, BuildInit
  <2>2. 0 \in 0..MaxVersion /\ 1 \in 0..MaxVersion /\ 0 \in 0..MaxEdits
    BY VersionType DEF Versions
  <2> QED
    BY <2>1, <2>2, VersionType DEF Init, BuildInit, SourcesTypeOK
<1>5. BuildTypeOK /\ BuildShape
  BY <1>3, <1>4 DEF Init, BuildInit, BuildTypeOK, BuildShape, BuildSteps
<1> QED
  BY <1>2, <1>5 DEF Init, PackageInit, Types, JobShape, Working, Staging, RowShape

\* Every step keeps the types of what is published and registered.
LEMMA StoreTypes ==
  ASSUME Types, NEW a \in Archivers, ArchiverStep(a)
  PROVE  /\ \A p \in published' : p \in Packages
         /\ damaged' \subseteq ContentPlans
         /\ RowShape'
         /\ DbTypeOK' /\ BuildShape'
<1>0. DbTypeOK /\ BuildShape
  BY DEF Types, BuildTypeOK
<1>1. CASE UNCHANGED <<dbVars, registered, published, damaged>>
  BY <1>0, <1>1, StepParts DEF Types, RowShape, DbTypeOK, BuildShape, dbVars, buildVars
<1>2. CASE Publishes(a)
  <2>1. PackageOf(a) \in Packages
    BY <1>2, PackageType DEF Publishes
  <2> QED
    BY <1>0, <1>2, <2>1, StepParts DEF Publishes, Publish, Types, RowShape, DbTypeOK, BuildShape, dbVars, buildVars
<1>3. CASE Registers(a)
  <2>1. apc[a] \in Working
    BY <1>3 DEF Registers, Working, ArchiveSteps
  <2>2. ManifestFor(a) \in Manifests /\ ajob[a] \in JobFacts
    BY <2>1, ManifestType DEF Types, JobShape
  <2>3. ManifestFor(a).id = ArchiveId(aplan[a])
    BY DEF ManifestFor
  <2>4. ArchiveId(aplan[a]) \in ContentPlans /\ ajob[a].job \in Jobs
    BY <2>2, <2>3, MasterType DEF Manifests
  <2>5. RowShape'
    BY <1>3, <2>2, <2>4 DEF Registers, Register, RowShape
  <2>6. UNCHANGED <<bpc, bver>> /\ CommitVerifiedArchive(Episode, ajob[a].job)
    BY <1>3, StepParts DEF Registers, Register, buildVars
  <2>7. DbTypeOK' /\ BuildShape'
    BY <1>0, <2>4, <2>6, RowTypes
  <2> QED
    BY <1>3, <2>5, <2>7 DEF Registers, packageVars, Types
<1> QED
  BY <1>1, <1>2, <1>3, StepParts

\* What a step of Next can be.
LEMMA StepKinds ==
  ASSUME Next
  PROVE  \/ \E a \in Archivers : ArchiverStep(a)
         \/ /\ OthersArchive
            /\ \/ \E b \in Builders : BuildStep(b)
               \/ RenderStep
               \/ \E f \in Files : Edit(f) /\ UNCHANGED <<dbVars, buildVars>>
         \/ \E p \in published : Damage(p) /\ UNCHANGED archiverVars /\ Elsewhere
BY DEF Next

\* What an archiver has seen are disks.
LEMMA SeenTypes ==
  ASSUME ArchiverTypes, disk' \in FileSets, Observe
  PROVE  seen' \in [Archivers -> SUBSET FileSets]
BY DEF Observe, ArchiverTypes

\* Every step keeps the types.
LEMMA TypesNext == Types /\ [Next]_vars => Types'
<1> SUFFICES ASSUME Types, [Next]_vars PROVE Types'
  OBVIOUS
<1> USE DEF FileSets
<1>1. CASE UNCHANGED vars
  BY <1>1 DEF Types, vars, dbVars, sourceVars, buildVars, packageVars, archiverVars, BuildTypeOK,
     DbTypeOK, SourcesTypeOK, ArchiverTypes, BuildShape, JobShape, RowShape
<1>2. ASSUME Next, NEW a \in Archivers, ArchiverStep(a)
      PROVE  Types'
  <2>1. BuildTypeOK' /\ BuildShape'
    BY <1>2, StoreTypes, StepParts DEF Types, BuildTypeOK, SourcesTypeOK, sourceVars, buildVars
  <2>2. \A c \in Archivers : JobShape(c)'
    BY <1>2, AttemptTypes DEF ArchiverKeeps, JobShape, Types
  <2>3. ArchiverTypes'
    BY <1>2, <2>1, AttemptTypes, SeenTypes DEF Types, Next, ArchiverTypes, BuildTypeOK, SourcesTypeOK
  <2> QED
    BY <1>2, <2>1, <2>2, <2>3, StoreTypes DEF Types
<1>3. ASSUME Next, OthersArchive,
             \/ \E b \in Builders : BuildStep(b)
             \/ RenderStep
             \/ \E f \in Files : Edit(f) /\ UNCHANGED <<dbVars, buildVars>>
      PROVE  Types'
  <2>1. BuildTypeOK' /\ BuildShape'
    <3>1. CASE \E b \in Builders : BuildStep(b)
      BY <3>1, BuilderTypes DEF Types
    <3>2. CASE RenderStep
      BY <3>2, RenderTypes DEF Types
    <3>3. CASE \E f \in Files : Edit(f) /\ UNCHANGED <<dbVars, buildVars>>
      BY <3>3, EditTypes DEF Types, BuildTypeOK, DbTypeOK, BuildShape, dbVars, buildVars
    <3> QED
      BY <1>3, <3>1, <3>2, <3>3
  <2>2. seen' \in [Archivers -> SUBSET FileSets]
    BY <1>3, <2>1, SeenTypes DEF Types, Next, BuildTypeOK, SourcesTypeOK
  <2> QED
    BY <1>3, <2>1, <2>2 DEF Types, OthersArchive, packageVars, archiverVars, ArchiverTypes, JobShape, RowShape
<1>4. ASSUME Next, NEW p \in published, Damage(p), UNCHANGED archiverVars, Elsewhere
      PROVE  Types'
  <2>1. PICK q \in DamagedForms(p) : published' = (published \ {p}) \cup {q}
    BY <1>4 DEF Damage
  <2>2. q \in Packages /\ p.id \in ContentPlans
    BY <2>1, DamageType DEF Types, Packages
  <2>3. BuildTypeOK' /\ BuildShape'
    BY <1>4 DEF Types, Elsewhere, dbVars, sourceVars, buildVars, BuildTypeOK, DbTypeOK, SourcesTypeOK, BuildShape
  <2>4. seen' \in [Archivers -> SUBSET FileSets]
    BY <1>4, <2>3, SeenTypes DEF Types, Next, BuildTypeOK, SourcesTypeOK
  <2> QED
    BY <1>4, <2>1, <2>2, <2>3, <2>4 DEF Damage, Elsewhere, archiverVars, Types, ArchiverTypes, JobShape, RowShape
<1> QED
  BY <1>1, <1>2, <1>3, <1>4, StepKinds

----------------------------------------------------------------------------
(* The episode *)

\* Nothing is created at first.
LEMMA EpisodeInit == Init => EpisodeInv
BY BuildAssumption DEF Init, BuildInit, EpisodeInv, Ladder, Created, AssembledHasProject, Advanced

\* All plans are of the one episode.
LEMMA OneEpisode ==
  /\ Episode \in Episodes
  /\ \A e \in Episodes : e = Episode
  /\ \A pl \in Plans : PlanEpisode[pl] = Episode
BY BuildAssumption, PlanAssumption

\* A builder's step keeps the order of building and rendering, and what
\* create_episode() has made stays.
LEMMA BuilderEpisode ==
  ASSUME Types, EpisodeInv, NEW b \in Builders, BuildStep(b)
  PROVE  EpisodeInv'
<1>0. /\ epStatus \in [Episodes -> EpisodeStatus] /\ bpc \in [Builders -> BuildSteps]
      /\ rowStatus \in [Jobs -> RenderJobStatus \cup {"absent", "deleted"}]
      /\ claim \in Builders \cup {NoClaim}
      /\ bfolder \in [Builders -> BOOLEAN]
  BY DEF Types, BuildTypeOK, DbTypeOK
<1> USE <1>0, OneEpisode, ClaimAssumption
    DEF Step, Done, Loaded, episodeVars, dbVars, EpisodeInv, Ladder, Created, AssembledHasProject, Advanced
<1>1. CASE Prepare(b)
  BY <1>1 DEF Prepare
<1>2. CASE LookUp(b)
  BY <1>2 DEF LookUp
<1>3. CASE InsertEpisode(b)
  BY <1>3 DEF InsertEpisode
<1>4. CASE CreateFolder(b)
  BY <1>4 DEF CreateFolder
<1>5. CASE RecordFolder(b)
  BY <1>5 DEF RecordFolder
<1>6. CASE DuplicateProject(b)
  BY <1>6 DEF DuplicateProject
<1>7. CASE RecordProject(b)
  BY <1>7 DEF RecordProject
<1>8. CASE ClaimAssembly(b)
  BY <1>8 DEF ClaimAssembly
<1>9. CASE Assemble(b)
  <2>1. CASE claim = b /\ project /\ epStatus' = [epStatus EXCEPT ![Episode] = "assembled"]
             /\ claim' = NoClaim /\ Step(b, "provenance")
    BY <1>9, <2>1 DEF Assemble
  <2>2. CASE claim = b /\ epStatus' = [epStatus EXCEPT ![Episode] = "failed"]
             /\ claim' = NoClaim /\ Done(b)
    BY <1>9, <2>2 DEF Assemble
  <2>3. CASE claim # b /\ Done(b) /\ UNCHANGED <<claim, epStatus>>
    BY <1>9, <2>3 DEF Assemble
  <2> QED
    BY <1>9, <2>1, <2>2, <2>3 DEF Assemble
<1>10. CASE CheckProvenance(b)
  BY <1>10 DEF CheckProvenance
<1>11. CASE CopyManifest(b)
  BY <1>11 DEF CopyManifest
<1>12. CASE RecordProvenance(b)
  BY <1>12 DEF RecordProvenance
<1>13. CASE QueueAfterBuild(b)
  BY <1>13 DEF QueueAfterBuild, ClaimRenderOutput
<1>14. CASE KillBuilder(b)
  BY <1>14 DEF KillBuilder
<1> QED
  BY <1>1, <1>2, <1>3, <1>4, <1>5, <1>6, <1>7, <1>8, <1>9, <1>10, <1>11, <1>12, <1>13, <1>14
  DEF BuildStep

\* Renders begin and end only for an episode that is assembled, and leave it
\* assembled.
LEMMA RenderEpisode ==
  ASSUME Types, EpisodeInv, RenderStep
  PROVE  EpisodeInv'
<1>0. /\ epStatus \in [Episodes -> EpisodeStatus]
      /\ rowStatus \in [Jobs -> RenderJobStatus \cup {"absent", "deleted"}]
  BY DEF Types, BuildTypeOK, DbTypeOK
<1> USE <1>0, OneEpisode
    DEF episodeVars, buildVars, dbVars, EpisodeInv, Ladder, Created, AssembledHasProject, Advanced
<1>1. ASSUME NEW j \in Jobs, NEW pl \in Plans, ClaimRender(j, pl)
      PROVE  EpisodeInv'
  BY <1>1 DEF ClaimRender, ClaimRenderOutput
<1>2. ASSUME NEW j \in Jobs, AcceptRender(j)
      PROVE  EpisodeInv'
  <2>1. rowStatus[j] = "claiming"
    BY <1>2 DEF AcceptRender, FinalizeRenderOutputClaim, ReleaseRenderOutputClaim
  <2>2. epStatus[Episode] \in Advanced
    BY <2>1
  <2>3. PlanEpisode[rowPlan[j]] = Episode
    BY <2>1 DEF Types, BuildShape
  <2> QED
    BY <1>2, <2>2, <2>3 DEF AcceptRender, FinalizeRenderOutputClaim, ReleaseRenderOutputClaim
<1>3. ASSUME NEW j \in Jobs, RenderWrites(j)
      PROVE  EpisodeInv'
  BY <1>3 DEF RenderWrites
<1>4. ASSUME NEW j \in Jobs, PollRender(j)
      PROVE  EpisodeInv'
  BY <1>4 DEF PollRender, UpdateRenderJob
<1>5. CASE PollEpisode
  BY <1>5 DEF PollEpisode, MarkEpisodeRendered
<1> QED
  BY <1>1, <1>2, <1>3, <1>4, <1>5 DEF RenderStep

\* Every step keeps the ladder of statuses and what is created by each rung.
LEMMA EpisodeNext == Types /\ EpisodeInv /\ [Next]_vars => EpisodeInv'
<1> SUFFICES ASSUME Types, EpisodeInv, [Next]_vars PROVE EpisodeInv'
  OBVIOUS
<1>1. CASE UNCHANGED <<dbVars, buildVars>>
  BY <1>1 DEF dbVars, buildVars, EpisodeInv, Ladder, Created, AssembledHasProject
<1>2. ASSUME NEW a \in Archivers, ArchiverStep(a)
      PROVE  EpisodeInv'
  <2>1. CASE Registers(a)
    <3>1. /\ epStatus[Episode] = "rendered" /\ epStatus' = [epStatus EXCEPT ![Episode] = "archived"]
          /\ rowStatus' = rowStatus /\ UNCHANGED buildVars
      BY <1>2, <2>1, StepParts DEF Registers, Register, CommitVerifiedArchive
    <3>2. epStatus'[Episode] = "archived"
      BY <3>1, OneEpisode DEF Types, BuildTypeOK, DbTypeOK
    <3> QED
      BY <3>1, <3>2 DEF buildVars, EpisodeInv, Ladder, Created, AssembledHasProject, Advanced
  <2>2. CASE UNCHANGED dbVars
    BY <1>1, <1>2, <2>2, StepParts
  <2> QED
    BY <1>2, <2>1, <2>2, StepParts DEF Publishes
<1>3. CASE Next /\ UNCHANGED archiverVars /\ Elsewhere
  BY <1>1, <1>3 DEF Elsewhere
<1>4. CASE UNCHANGED vars
  BY <1>1, <1>4 DEF vars
<1> QED
  BY <1>1, <1>2, <1>3, <1>4, BuilderEpisode, RenderEpisode, StepKinds

\* Every variable keeps its type (the rows, files, claims, packages and the
\* locals of every command), for any number of builders and archivers.
THEOREM TypeCorrect == Spec => []TypeOK
<1>1. Types => TypeOK
  BY DEF Types, TypeOK, PackageTypeOK, ArchiverTypes, RowShape, Stagings, FileSets
<1> QED
  BY <1>1, TypesInit, TypesNext, PTL DEF Spec

\* However create_episode() was interrupted and whichever command went on with
\* what it left, an assembled episode has its project, one with a render job
\* its recorded folder, and one whose project is recorded all of that.
THEOREM ProjectIsThere == Spec => []AssembledHasProject
<1>1. Types /\ EpisodeInv => AssembledHasProject
  BY DEF EpisodeInv
<1> QED
  BY <1>1, TypesInit, TypesNext, EpisodeInit, EpisodeNext, PTL DEF Spec

----------------------------------------------------------------------------
(* A package under way *)

\* No archiver is under way at first.
LEMMA AttemptInit == Init => AttemptInv
BY DEF Init, AttemptInv, PlanShape, StagingShape, Planned, Staging

\* The disk as it is after a step is one that an archiver under way has seen.
LEMMA SeenGrows ==
  ASSUME Observe, NEW a \in Archivers, apc'[a] = "publish"
  PROVE  seen[a] \subseteq seen'[a] /\ disk' \in seen'[a]
BY DEF Observe, Building

\* A step of others is none of archiver c's business.
LEMMA AttemptKept ==
  ASSUME NEW c \in Archivers, PlanShape(c), StagingShape(c), Observe,
         apc'[c] = apc[c], ajob'[c] = ajob[c], alisted'[c] = alisted[c],
         aplan'[c] = aplan[c], staged'[c] = staged[c]
  PROVE  PlanShape(c)' /\ StagingShape(c)'
<1>1. PlanShape(c)'
  BY DEF PlanShape, Master, Held
<1>2. StagingShape(c)'
  BY SeenGrows DEF StagingShape
<1> QED
  BY <1>1, <1>2

\* What the copies agree with when a package is looked at before its rename:
\* the workspace, the files copied one by one and the evidence, on disk now.
LEMMA AgreesWithDisk ==
  ASSUME Types, NEW a \in Archivers, staged[a] \in Stagings, SourcesAndPayloadAgree(a),
         NEW f \in Files, f \in Workspace \/ staged[a].payload[f] # Absent
  PROVE  disk[f] = staged[a].payload[f]
<1> DEFINE files == staged[a].plan.files
<1>1. files \in FileSets /\ staged[a].payload = files
  BY DEF Stagings, ContentPlans, SourcesAndPayloadAgree, PayloadComplete
<1>2. DOMAIN files = Files
  BY <1>1 DEF FileSets
<1>3. ContentUnchanged(staged[a].plan) /\ SupplementsUnchanged(staged[a].plan)
  BY DEF SourcesAndPayloadAgree
<1>4. CASE f \in Workspace
  <2>1. Only(files, Workspace)[f] = Inventory(Workspace)[f]
    BY <1>3 DEF ContentUnchanged
  <2> QED
    BY <1>1, <1>4, <2>1 DEF Only, Inventory
<1>5. CASE f \in Evidence /\ files[f] # Absent
  BY <1>1, <1>2, <1>3, <1>5 DEF SupplementsUnchanged, Held, Stable
<1>6. CASE f \notin Workspace \cup Evidence /\ files[f] # Absent
  BY <1>1, <1>2, <1>3, <1>6 DEF ContentUnchanged, External, Held, Stable
<1> QED
  BY <1>1, <1>4, <1>5, <1>6

\* Every step of an archiver keeps what its inventory, its plan and its staging
\* directory hold.
LEMMA AttemptStep ==
  ASSUME Types, NEW a \in Archivers, PlanShape(a), StagingShape(a), ArchiverStep(a), Observe
  PROVE  PlanShape(a)' /\ StagingShape(a)'
<1> DEFINE Goal == PlanShape(a)' /\ StagingShape(a)'
<1> SUFFICES Goal
  OBVIOUS
<1>0. ArchiverTypes /\ SourcesTypeOK /\ JobShape(a)
  BY DEF Types, BuildTypeOK
<1>1. CASE apc'[a] = "done"
  BY <1>1 DEF PlanShape, StagingShape, Planned, Staging
<1>2. CASE Raise(a)
  BY <1>0, <1>1, <1>2, RaiseTypes
<1> USE <1>0 DEF packageVars, Go, ArchiverTypes
<1> USE DEF PlanShape, StagingShape, Planned, Staging, Master
<1>3. CASE BeginArchive(a) \/ (SelectRenderJob(a) /\ ~ Raise(a))
  BY <1>3 DEF BeginArchive, SelectRenderJob
<1>4. CASE Enumerate(a) /\ ~ Raise(a)
  BY <1>4 DEF Enumerate, NoContent, Clean
<1>5. CASE HashFile(a) /\ ~ Raise(a)
  <2> DEFINE f == Foremost(Unhashed(a))
  <2>1. /\ apc[a] = "hash" /\ apc' = apc /\ Regular(f)
        /\ aplan' = [aplan EXCEPT ![a].files[f] = disk[f]]
        /\ UNCHANGED <<ajob, alisted, staged>>
    BY <1>5 DEF HashFile
  <2>2. f \in Unhashed(a)
    <3>1. Unhashed(a) \in SUBSET Files /\ Unhashed(a) # {}
      BY <1>5, FilesType DEF HashFile, Unhashed
    <3> QED
      BY <3>1, ForemostIn
  <2>3. f \in alisted[a] /\ f \in Files /\ disk[f] \in Versions
    BY <2>1, <2>2, FilesType DEF Unhashed, Regular
  <2> HIDE DEF f
  <2>4. aplan[a].files \in FileSets /\ aplan'[a].files = [aplan[a].files EXCEPT ![f] = disk[f]]
    BY <2>1 DEF ContentPlans
  <2>5. \A g \in Files : aplan'[a].files[g] = IF g = f THEN disk[f] ELSE aplan[a].files[g]
    BY <2>4 DEF FileSets
  <2> QED
    BY <2>1, <2>3, <2>5 DEF Clean
<1>6. CASE Settle(a) /\ ~ Raise(a)
  BY <1>6 DEF Settle, Unhashed
<1>7. CASE PlanContent(a) /\ ~ Raise(a)
  <2> DEFINE new == ContentPlan(aplan[a].files, ExternalOf(a), RolesOf(a))
  <2>1. /\ apc[a] = "plan"
        /\ \A f \in ExternalOf(a) : Regular(f)
        /\ aplan' = [aplan EXCEPT ![a] = new]
        /\ Go(a, "final")
        /\ UNCHANGED <<ajob, alisted, afile, packageVars>>
    BY <1>7 DEF PlanContent
  <2>2. Master(a) \in alisted[a] /\ Master(a) \in Files /\ aplan[a].files[Master(a)] # Absent
    BY <2>1, FilesType DEF Held
  <2>3. new.files[Master(a)] # Absent
    <3>1. CASE Master(a) \in ExternalOf(a)
      BY <2>1, <2>2, <3>1, VersionType DEF ContentPlan, Regular
    <3>2. CASE Master(a) \notin ExternalOf(a)
      BY <2>2, <3>2 DEF ContentPlan
    <3> QED
      BY <3>1, <3>2
  <2>4. <<Master(a), "render_master">> \in new.roles
    BY DEF ContentPlan, RolesOf
  <2> HIDE DEF new
  <2> QED
    BY <2>1, <2>3, <2>4
<1>8. CASE RejectFinal(a) /\ ~ Raise(a)
  BY <1>8 DEF RejectFinal
<1>9. CASE ResolveEvidence(a) /\ ~ Raise(a)
  <2>1. apc[a] = "evidence" /\ aplan' = [aplan EXCEPT ![a] = PackagePlan(aplan[a])]
        /\ Go(a, "stage") /\ UNCHANGED <<ajob, alisted, afile, packageVars>>
    BY <1>9 DEF ResolveEvidence
  <2>2. Master(a) \in Workspace /\ Master(a) \in Files /\ Master(a) \notin Evidence
    BY <2>1, MasterType, FilesType, LocationAssumption DEF JobShape, Working, ArchiveSteps
  <2>3. PackagePlan(aplan[a]).files[Master(a)] = aplan[a].files[Master(a)]
        /\ PackagePlan(aplan[a]).roles = aplan[a].roles
    BY <2>2 DEF PackagePlan, ContentPlans
  <2> QED
    BY <2>1, <2>3
<1>10. CASE Stage(a) /\ ~ Raise(a)
  BY <1>10 DEF Stage, BeginStaging, Clean
<1>11. CASE Copying(a) /\ ~ Raise(a)
  <2> DEFINE f == Foremost(ToCopy(a))
  <2>1. /\ apc[a] = "copy" /\ f \in ToCopy(a) /\ Regular(f)
        /\ staged' = [staged EXCEPT ![a].payload[f] = disk[f]]
        /\ Go(a, "check")
        /\ UNCHANGED <<ajob, alisted, aplan>>
    BY <1>11 DEF Copying, CopyFile
  <2>2. staged[a] \in Stagings
    BY <2>1 DEF JobShape
  <2> HIDE DEF f
  <2>3. /\ staged'[a].plan = staged[a].plan /\ staged'[a].job = staged[a].job
        /\ staged'[a].payload = [staged[a].payload EXCEPT ![f] = disk[f]]
    BY <2>1, <2>2 DEF Stagings
  <2>4. \A g \in Files : staged'[a].payload[g] \in {staged[a].payload[g], disk[f]}
    BY <2>2, <2>3 DEF Stagings, FileSets
  <2> QED
    BY <2>1, <2>3, <2>4 DEF Clean, Regular
<1>12. CASE CheckCopy(a) /\ ~ Raise(a)
  BY <1>12 DEF CheckCopy
<1>13. CASE Complete(a) /\ ~ Raise(a)
  <2>1. apc[a] = "complete" /\ SourcesAndPayloadAgree(a) /\ Seal(a) /\ Go(a, "recheck")
        /\ UNCHANGED <<ajob, alisted, aplan, afile>>
    BY <1>13 DEF Complete
  <2>2. staged[a] \in Stagings
    BY <2>1 DEF JobShape
  <2>3. staged'[a] = [staged[a] EXCEPT !.sealed = TRUE]
    BY <2>1 DEF Seal
  <2>4. staged[a].payload = staged[a].plan.files
    BY <2>1 DEF SourcesAndPayloadAgree, PayloadComplete
  <2> QED
    BY <2>1, <2>2, <2>3, <2>4 DEF Stagings
<1>14. CASE Recheck(a) /\ ~ Raise(a)
  <2>1. apc[a] = "recheck" /\ SourcesAndPayloadAgree(a) /\ Go(a, "publish")
        /\ UNCHANGED <<ajob, alisted, aplan, afile, staged>>
    BY <1>14 DEF Recheck
  <2>2. staged[a] \in Stagings
    BY <2>1 DEF JobShape
  <2>3. disk' = disk
    BY StepParts DEF sourceVars
  <2>4. disk \in seen'[a]
    BY <2>1, <2>3, SeenGrows
  <2>5. \A f \in Files : f \in Workspace \/ staged[a].payload[f] # Absent => disk[f] = staged[a].payload[f]
    BY <2>1, <2>2, AgreesWithDisk
  <2> QED
    BY <2>1, <2>4, <2>5
<1>15. CASE PublishPackage(a) /\ ~ Raise(a)
  BY <1>15 DEF PublishPackage, Publish
<1>16. CASE Commit(a) \/ RecoverRegister(a)
  BY <1>1, <1>16 DEF Commit, RecoverRegister, Leave
<1>17. CASE \E p \in published : RecoverVerify(a, p)
  BY <1>17 DEF RecoverVerify
<1>18. CASE (RecoverRows(a) \/ RecoverJob(a)) /\ ~ Raise(a)
  BY <1>18 DEF RecoverRows, RecoverJob
<1> QED
  BY <1>2, <1>3, <1>4, <1>5, <1>6, <1>7, <1>8, <1>9, <1>10, <1>11, <1>12, <1>13, <1>14, <1>15,
     <1>16, <1>17, <1>18 DEF ArchiverStep, KillArchiver

\* Every step keeps what an archiver has planned and staged by each place.
LEMMA AttemptNext == Types /\ AttemptInv /\ [Next]_vars => AttemptInv'
<1> SUFFICES ASSUME Types, AttemptInv, [Next]_vars PROVE AttemptInv'
  OBVIOUS
<1>1. CASE UNCHANGED vars
  BY <1>1 DEF vars, packageVars, archiverVars, sourceVars, AttemptInv, PlanShape, StagingShape, Master, Held
<1>2. ASSUME Next, NEW a \in Archivers, ArchiverStep(a)
      PROVE  AttemptInv'
  <2>1. PlanShape(a)' /\ StagingShape(a)'
    BY <1>2, AttemptStep DEF AttemptInv, Next
  <2>2. ASSUME NEW c \in Archivers, c # a
        PROVE  PlanShape(c)' /\ StagingShape(c)'
    BY <1>2, <2>2, AttemptTypes, AttemptKept DEF ArchiverKeeps, AttemptInv, Next
  <2> QED
    BY <2>1, <2>2 DEF AttemptInv
<1>3. CASE Next /\ UNCHANGED <<archiverVars, staged>>
  BY <1>3, AttemptKept DEF archiverVars, AttemptInv, Next
<1> QED
  BY <1>1, <1>2, <1>3, StepKinds DEF OthersArchive, packageVars, Damage

\* A package is a snapshot: the workspace whole, and every medium and piece of
\* evidence in it, as they were on disk at one moment of the attempt, although
\* they were read one by one while others saved and removed files.
THEOREM Snapshot == Spec => ConsistentSnapshot
<1> DEFINE A == \A a \in Archivers : Building(a) /\ apc'[a] = "commit" =>
                  \A p \in published' \ published : \E d \in seen[a] :
                      /\ \A f \in Workspace : d[f] = p.payload[f]
                      /\ \A f \in Held(p.payload) : d[f] = p.payload[f]
<1>1. Types /\ AttemptInv /\ [Next]_vars => [A]_vars
  <2> SUFFICES ASSUME Types, AttemptInv, Next, NEW a \in Archivers, Building(a), apc'[a] = "commit",
                      NEW p \in published' \ published
               PROVE  \E d \in seen[a] : /\ \A f \in Workspace : d[f] = p.payload[f]
                                         /\ \A f \in Held(p.payload) : d[f] = p.payload[f]
    BY DEF vars
  <2>1. PICK c \in Archivers : ArchiverStep(c)
    BY StepKinds DEF Building, OthersArchive, archiverVars
  <2>2. c = a
    BY <2>1, AttemptTypes DEF ArchiverKeeps, Building
  <2>3. Publishes(a)
    BY <2>1, <2>2, StepParts DEF Registers, Leave, Types, ArchiverTypes
  <2>4. p = PackageOf(a) /\ staged[a] \in Stagings
    BY <2>3, PackageType DEF Publishes, Publish
  <2>5. p.payload = staged[a].payload
    BY <2>4 DEF PackageOf
  <2>6. PICK d \in seen[a] : \A f \in Files :
             f \in Workspace \/ staged[a].payload[f] # Absent => d[f] = staged[a].payload[f]
    BY <2>3 DEF Publishes, AttemptInv, StagingShape
  <2>7. DOMAIN staged[a].payload = Files
    BY <2>4 DEF Stagings, FileSets
  <2> QED
    BY <2>5, <2>6, <2>7, FilesType DEF Held
<1>2. Spec => [][A]_vars
  BY <1>1, TypesInit, TypesNext, AttemptInit, AttemptNext, PTL DEF Spec
<1> QED
  BY <1>2 DEF ConsistentSnapshot

----------------------------------------------------------------------------
(* Packages and their row *)

\* What is published is sealed, of readable content and not empty.
LEMMA PublishedWhole ==
  ASSUME Types, AttemptInv, NEW a \in Archivers, apc[a] = "publish"
  PROVE  /\ PackageOf(a) \in Packages
         /\ PackageOf(a).id = ArchiveId(aplan[a])
         /\ PackageOf(a).manifest = ManifestFor(a)
         /\ PackageOf(a).sidecar = ManifestFor(a)
         /\ PackageOf(a).payload = aplan[a].files
         /\ \A f \in Files : aplan[a].files[f] \in Clean
         /\ Held(aplan[a].files) # {}
         /\ Verified(PackageOf(a))
<1>1. /\ staged[a] \in Stagings /\ staged[a].plan = aplan[a] /\ staged[a].job = ajob[a]
      /\ \A f \in Files : staged[a].payload[f] \in Clean
      /\ staged[a].sealed /\ staged[a].payload = aplan[a].files
  BY DEF Types, JobShape, Staging, AttemptInv, StagingShape
<1>2. ManifestOf(a) = ManifestFor(a)
  BY <1>1 DEF ManifestOf, ManifestFor
<1>3. Master(a) \in Files /\ aplan[a].files[Master(a)] # Absent
  BY MasterType, FilesType DEF Types, JobShape, Working, ArchiveSteps, AttemptInv, PlanShape, Planned, Master
<1>4. DOMAIN aplan[a].files = Files
  BY <1>1 DEF Stagings, FileSets
<1>5. Held(aplan[a].files) # {}
  BY <1>3, <1>4 DEF Held
<1>6. \A f \in Held(aplan[a].files) : aplan[a].files[f] \in Versions
  BY <1>1, <1>4 DEF Held, Clean
<1>7. /\ PackageOf(a).id = ArchiveId(aplan[a]) /\ PackageOf(a).payload = aplan[a].files
      /\ PackageOf(a).manifest = ManifestFor(a) /\ PackageOf(a).sidecar = ManifestFor(a)
      /\ PackageOf(a).marker = TRUE /\ PackageOf(a).stray = FALSE
  BY <1>1, <1>2 DEF PackageOf
<1>8. ManifestFor(a).id = ArchiveId(aplan[a]) /\ ManifestFor(a).files = aplan[a].files
  BY DEF ManifestFor
<1>9. Verified(PackageOf(a))
  BY <1>5, <1>6, <1>7, <1>8 DEF Verified, RootIntact, SidecarMatches, ManifestWellFormed, PayloadMatchesManifest
<1> QED
  BY <1>1, <1>5, <1>7, <1>9, PackageType

\* Damage takes away, and never repairs: what is left is a package that no
\* longer verifies.
LEMMA DamageHurts ==
  ASSUME NEW p \in Packages, PackageShape(p), NEW q \in DamagedForms(p), q # p
  PROVE  /\ ~ Verified(q)
         /\ q.sidecar = p.sidecar /\ q.id = p.id /\ q.marker = p.marker
         /\ q.manifest = p.sidecar \/ q.manifest = [p.sidecar EXCEPT !.roles = {}]
         /\ \A f \in Files : q.payload[f] = p.sidecar.files[f] \/ q.payload[f] = Absent
<1> DEFINE f == Foremost(Held(p.payload))
<1>0. p.sidecar \in Manifests /\ p.manifest \in Manifests /\ p.payload \in FileSets
  BY DEF Packages
<1>1. CASE q = [p EXCEPT !.payload[f] = Absent]
  <2> HIDE DEF f
  <2>1. q = [p EXCEPT !.payload = [p.payload EXCEPT ![f] = Absent]]
    BY <1>1 DEF Packages
  <2>2. q.payload = [p.payload EXCEPT ![f] = Absent] /\ q.manifest = p.manifest /\ q.sidecar = p.sidecar
        /\ q.id = p.id /\ q.marker = p.marker
    BY <2>1 DEF Packages
  <2>3. q.payload # p.payload
    BY <2>1, <2>2 DEF Packages
  <2>4. f \in Files /\ p.payload[f] # Absent
    BY <1>0, <2>2, <2>3 DEF FileSets
  <2>5. q.payload[f] = Absent /\ p.sidecar.files[f] # Absent
    BY <1>0, <2>2, <2>4 DEF FileSets, PackageShape
  <2>6. q.manifest.files = p.sidecar.files
    BY <1>0, <2>2 DEF PackageShape, Manifests
  <2>7. ~ Verified(q)
    BY <2>5, <2>6 DEF Verified, PayloadMatchesManifest
  <2>8. \A g \in Files : q.payload[g] = p.payload[g] \/ q.payload[g] = Absent
    BY <1>0, <2>2 DEF FileSets
  <2> QED
    BY <2>2, <2>7, <2>8 DEF PackageShape
<1>2. CASE q = [p EXCEPT !.stray = TRUE]
  <2>1. q.stray = TRUE /\ q.payload = p.payload /\ q.manifest = p.manifest /\ q.sidecar = p.sidecar
        /\ q.id = p.id /\ q.marker = p.marker
    BY <1>2 DEF Packages
  <2> QED
    BY <2>1 DEF PackageShape, Verified, RootIntact
<1>3. CASE q = [p EXCEPT !.manifest.roles = {}]
  <2>1. q = [p EXCEPT !.manifest = [p.manifest EXCEPT !.roles = {}]]
    BY <1>3 DEF Packages
  <2>2. q.manifest = [p.manifest EXCEPT !.roles = {}] /\ q.payload = p.payload /\ q.sidecar = p.sidecar
        /\ q.id = p.id /\ q.marker = p.marker
    BY <2>1 DEF Packages
  <2>3. q.manifest # p.manifest
    BY <2>1, <2>2 DEF Packages
  <2>4. p.manifest = p.sidecar
    BY <1>0, <2>2, <2>3 DEF PackageShape, Manifests
  <2>5. ~ Verified(q)
    BY <2>2, <2>3, <2>4 DEF Verified, SidecarMatches
  <2> QED
    BY <2>2, <2>4, <2>5 DEF PackageShape
<1> QED
  BY <1>1, <1>2, <1>3 DEF DamagedForms

\* A verified package has the manifest it was sealed with.
LEMMA VerifiedManifest ==
  ASSUME NEW p \in Packages, PackageShape(p), Verified(p)
  PROVE  /\ p.manifest = p.sidecar /\ p.payload = p.sidecar.files
         /\ p.manifest.id = p.id
         /\ p.id = ArchiveId([files |-> p.manifest.files, roles |-> p.manifest.roles])
BY DEF PackageShape, Verified, SidecarMatches, ManifestWellFormed, PayloadMatchesManifest

\* There are no packages and no row at first.
LEMMA PackagesInit == Init => StoreInv
BY DEF Init, BuildInit, PackageInit, StoreInv, PackagesInv, RowInv, Settled

\* A stored manifest stays stored while packages are only added.
LEMMA StoredStays ==
  ASSUME NEW m, Stored(m), published \subseteq published', damaged' = damaged
  PROVE  Stored(m)'
BY DEF Stored

\* A package keeps its shape as long as nothing is damaged.
LEMMA ShapeStays ==
  ASSUME NEW p, PackageShape(p), damaged' = damaged
  PROVE  PackageShape(p)'
BY DEF PackageShape, Verified, RootIntact, SidecarMatches, ManifestWellFormed, PayloadMatchesManifest, Held, ArchiveId, Only

\* Publishing adds one whole package under an id that no package has.
LEMMA PublishStep ==
  ASSUME Types, AttemptInv, PackagesInv, NEW a \in Archivers, Publishes(a)
  PROVE  /\ PackagesInv'
         /\ published' = published \cup {PackageOf(a)}
         /\ damaged' = damaged
         /\ Stored(ManifestFor(a))'
<1> DEFINE new == PackageOf(a)
<1>1. /\ new \in Packages /\ new.id = ArchiveId(aplan[a]) /\ new.manifest = ManifestFor(a)
      /\ new.sidecar = ManifestFor(a) /\ new.payload = aplan[a].files
      /\ \A f \in Files : aplan[a].files[f] \in Clean
      /\ Held(aplan[a].files) # {} /\ Verified(new)
  BY PublishedWhole DEF Publishes
<1>2. published' = published \cup {new} /\ damaged' = damaged /\ aplan' = aplan /\ ajob' = ajob
  BY DEF Publishes, Publish
<1>3. \A p \in published : p.id # new.id
  BY <1>1 DEF Publishes, Publish, At, AttemptInv, StagingShape, Staging
<1>4. ManifestFor(a).id = ArchiveId(aplan[a]) /\ ManifestFor(a).files = aplan[a].files
      /\ ManifestFor(a).roles = aplan[a].roles
  BY DEF ManifestFor
<1>5. PackageShape(new)
  <2>1. new.id = ArchiveId([files |-> new.sidecar.files, roles |-> new.sidecar.roles])
    BY <1>1, <1>4 DEF ArchiveId
  <2>2. new.marker
    BY <1>1 DEF Verified, RootIntact
  <2> HIDE DEF new
  <2> QED
    BY <1>1, <1>4, <2>1, <2>2 DEF PackageShape
<1> HIDE DEF new
<1>6. \A p \in published' : PackageShape(p)'
  BY <1>2, <1>5, ShapeStays DEF PackagesInv
<1>7. \A p, q \in published' : p.id = q.id => p = q
  BY <1>2, <1>3 DEF PackagesInv
<1>8. \A i \in damaged' : At(i)' # {}
  BY <1>2 DEF PackagesInv, At
<1>9. Stored(ManifestFor(a))'
  <2>1. ManifestFor(a)' = ManifestFor(a)
    BY <1>2 DEF ManifestFor, ArchiveId, Only
  <2> QED
    BY <1>1, <1>2, <1>4, <2>1 DEF Stored
<1> QED
  BY <1>2, <1>6, <1>7, <1>8, <1>9 DEF PackagesInv, new

\* Damage replaces one package by what is left of it.
LEMMA DamageStep ==
  ASSUME Types, PackagesInv, NEW p \in published, Damage(p)
  PROVE  /\ PackagesInv'
         /\ \A m : Stored(m) => Stored(m)'
         /\ \E q : ~ Verified(q) /\ q.id = p.id /\ published' = (published \ {p}) \cup {q}
<1>1. PICK q \in DamagedForms(p) : q # p /\ published' = (published \ {p}) \cup {q}
  BY DEF Damage
<1>2. damaged' = damaged \cup {p.id}
  BY DEF Damage
<1>3. /\ ~ Verified(q) /\ q.sidecar = p.sidecar /\ q.id = p.id /\ q.marker = p.marker
      /\ q.manifest = p.sidecar \/ q.manifest = [p.sidecar EXCEPT !.roles = {}]
      /\ \A f \in Files : q.payload[f] = p.sidecar.files[f] \/ q.payload[f] = Absent
  BY <1>1, DamageHurts DEF Types, PackagesInv
<1>4. PackageShape(q)'
  BY <1>2, <1>3 DEF PackagesInv, PackageShape, Held, ArchiveId, Only
<1>5. ASSUME NEW r \in published, r # p
      PROVE  PackageShape(r)'
  <2>1. r.id # p.id
    BY <1>5 DEF PackagesInv
  <2>2. PackageShape(r)
    BY DEF PackagesInv
  <2> QED
    BY <1>2, <2>1, <2>2
    DEF PackageShape, Verified, RootIntact, SidecarMatches, ManifestWellFormed, PayloadMatchesManifest, Held, ArchiveId, Only
<1>6. \A r \in published' : PackageShape(r)'
  BY <1>1, <1>4, <1>5
<1>7. \A r, s \in published' : r.id = s.id => r = s
  BY <1>1, <1>3 DEF PackagesInv
<1>8. \A i \in damaged' : At(i)' # {}
  <2>1. ASSUME NEW i \in damaged'
        PROVE  \E r \in published' : r.id = i
    BY <1>1, <1>2, <1>3 DEF PackagesInv, At
  <2> QED
    BY <2>1 DEF At
<1>9. ASSUME NEW m, Stored(m)
      PROVE  Stored(m)'
  <2>1. PICK r \in published : r.id = m.id /\ (r.id \notin damaged => r.manifest = m)
    BY <1>9 DEF Stored
  <2>2. CASE r = p
    BY <1>1, <1>2, <1>3, <2>1, <2>2 DEF Stored
  <2>3. CASE r # p
    BY <1>1, <1>2, <2>1, <2>3 DEF Stored
  <2> QED
    BY <2>2, <2>3
<1> QED
  BY <1>1, <1>3, <1>6, <1>7, <1>8, <1>9 DEF PackagesInv

\* An archiver that has a package to register has the manifest it is stored
\* with.
LEMMA SettledStep ==
  ASSUME Types, AttemptInv, StoreInv, NEW a \in Archivers, ArchiverStep(a), ~ Publishes(a),
         apc'[a] \in Settled
  PROVE  Stored(ManifestFor(a)')
<1> USE DEF Settled, Go, Types, ArchiverTypes
<1>1. CASE apc'[a] = "done"
  BY <1>1
<1>2. CASE (RecoverRows(a) \/ RecoverJob(a)) /\ apc'[a] # "done"
  <2>1. apc[a] \in {"rows", "job"} /\ UNCHANGED <<ajob, aplan>>
    BY <1>2, RaiseTypes DEF RecoverRows, RecoverJob
  <2>2. ManifestFor(a)' = ManifestFor(a)
    BY <2>1 DEF ManifestFor, ArchiveId, Only
  <2> QED
    BY <2>1, <2>2 DEF StoreInv, RowInv
<1>3. ASSUME NEW p \in published, RecoverVerify(a, p)
      PROVE  Stored(ManifestFor(a)')
  <2>1. /\ Verified(p) /\ p \in Packages /\ PackageShape(p)
        /\ ajob'[a] = p.manifest.job
        /\ aplan'[a] = [files |-> p.manifest.files, roles |-> p.manifest.roles]
    BY <1>3 DEF RecoverVerify, StoreInv, PackagesInv
  <2>2. p.manifest.id = p.id /\ p.id = ArchiveId([files |-> p.manifest.files, roles |-> p.manifest.roles])
    BY <2>1, VerifiedManifest
  <2>3. ManifestFor(a)' = [id |-> p.manifest.id, files |-> p.manifest.files,
                           roles |-> p.manifest.roles, job |-> p.manifest.job]
    BY <2>1, <2>2 DEF ManifestFor, ArchiveId, Only
  <2>4. ManifestFor(a)' = p.manifest
    BY <2>1, <2>3 DEF Packages, Manifests
  <2> QED
    BY <2>2, <2>4 DEF Stored
<1>4. CASE PublishPackage(a)
  <2>1. CASE Raise(a)
    BY <1>1, <2>1, RaiseTypes
  <2>2. CASE ~ Raise(a)
    BY <1>4, <2>2 DEF PublishPackage, Publishes, Elsewhere
  <2> QED
    BY <2>1, <2>2
<1>5. CASE Raise(a)
  BY <1>1, <1>5, RaiseTypes
<1>6. CASE /\ ~ Raise(a)
           /\ \/ BeginArchive(a) \/ SelectRenderJob(a) \/ Enumerate(a) \/ HashFile(a) \/ Settle(a)
              \/ PlanContent(a) \/ RejectFinal(a) \/ ResolveEvidence(a) \/ Stage(a) \/ Copying(a)
              \/ CheckCopy(a) \/ Complete(a) \/ Recheck(a)
  BY <1>6 DEF BeginArchive, SelectRenderJob, Enumerate, HashFile, Settle, PlanContent, RejectFinal,
     ResolveEvidence, Stage, Copying, CheckCopy, Complete, Recheck
<1>7. CASE Commit(a) \/ RecoverRegister(a)
  BY <1>1, <1>7 DEF Commit, RecoverRegister, Leave
<1> QED
  BY <1>2, <1>3, <1>4, <1>5, <1>6, <1>7 DEF ArchiverStep, KillArchiver

\* Registering names a stored package and the job sealed in it.
LEMMA RegisterStep ==
  ASSUME Types, StoreInv, NEW a \in Archivers, Registers(a)
  PROVE  registered' # NoRow =>
            /\ epStatus'[Episode] = "archived"
            /\ registered'.job = archiveOf'[Episode]
            /\ registered'.job = registered'.manifest.job.job
            /\ registered'.id = registered'.manifest.id
            /\ Stored(registered'.manifest)
<1>1. /\ registered' = [id |-> ArchiveId(aplan[a]), manifest |-> ManifestFor(a), job |-> ajob[a].job]
      /\ epStatus' = [epStatus EXCEPT ![Episode] = "archived"]
      /\ archiveOf' = [archiveOf EXCEPT ![Episode] = ajob[a].job]
  BY DEF Registers, Register, CommitVerifiedArchive
<1>2. epStatus'[Episode] = "archived" /\ archiveOf'[Episode] = ajob[a].job
  BY <1>1, OneEpisode DEF Types, BuildTypeOK, DbTypeOK
<1>3. Stored(ManifestFor(a))
  BY DEF Registers, StoreInv, RowInv, Settled
<1>4. ManifestFor(a).id = ArchiveId(aplan[a]) /\ ManifestFor(a).job = ajob[a]
  BY DEF ManifestFor
<1> QED
  BY <1>1, <1>2, <1>3, <1>4

\* An archived episode is rendered again at most: no build takes it back.
LEMMA ArchivedStays ==
  ASSUME Types, EpisodeInv, epStatus[Episode] \in {"archived", "render_queued", "rendered"},
         (\E b \in Builders : BuildStep(b)) \/ RenderStep
  PROVE  /\ epStatus'[Episode] \in {"archived", "render_queued", "rendered"}
         /\ archiveOf' = archiveOf
<1>0. epStatus \in [Episodes -> EpisodeStatus] /\ claim = NoClaim
  BY DEF Types, BuildTypeOK, DbTypeOK, EpisodeInv, Ladder
<1>1. ASSUME NEW b \in Builders, BuildStep(b)
      PROVE  epStatus' = epStatus /\ archiveOf' = archiveOf
  <2>1. CASE Assemble(b)
    BY <1>0, <2>1, ClaimAssumption DEF Assemble
  <2>2. CASE QueueAfterBuild(b)
    BY <2>2 DEF QueueAfterBuild, ClaimRenderOutput, dbVars
  <2> QED
    BY <1>1, <2>1, <2>2 DEF BuildStep, Prepare, LookUp, InsertEpisode, CreateFolder, RecordFolder,
       DuplicateProject, RecordProject, ClaimAssembly, CheckProvenance, CopyManifest,
       RecordProvenance, KillBuilder, dbVars
<1>2. CASE RenderStep
  BY <1>0, <1>2, OneEpisode DEF RenderStep, ClaimRender, ClaimRenderOutput, AcceptRender, FinalizeRenderOutputClaim,
     ReleaseRenderOutputClaim, RenderWrites, PollRender, UpdateRenderJob, PollEpisode, MarkEpisodeRendered, dbVars
<1> QED
  BY <1>1, <1>2

\* Every step keeps what packages are and what the row says of them.
LEMMA StoreNext == Types /\ EpisodeInv /\ AttemptInv /\ StoreInv /\ [Next]_vars => StoreInv'
<1> SUFFICES ASSUME Types, EpisodeInv, AttemptInv, StoreInv, [Next]_vars PROVE StoreInv'
  OBVIOUS
<1>0. PackagesInv /\ RowInv
  BY DEF StoreInv
<1>1. CASE UNCHANGED <<published, damaged, apc, aplan, ajob, registered, epStatus, archiveOf>>
  <2>1. PackagesInv'
    BY <1>0, <1>1, ShapeStays DEF PackagesInv, At
  <2>2. \A m : Stored(m) => Stored(m)'
    BY <1>1, StoredStays
  <2>3. \A a \in Archivers : ManifestFor(a)' = ManifestFor(a)
    BY <1>1 DEF ManifestFor, ArchiveId, Only
  <2>4. RowInv'
    BY <1>0, <1>1, <2>2, <2>3 DEF RowInv, Stored
  <2> QED
    BY <2>1, <2>4 DEF StoreInv
<1>2. ASSUME NEW a \in Archivers, ArchiverStep(a)
      PROVE  StoreInv'
  <2>0. ASSUME NEW c \in Archivers, c # a
        PROVE  ManifestFor(c)' = ManifestFor(c) /\ apc'[c] = apc[c]
    BY <1>2, <2>0, AttemptTypes DEF ArchiverKeeps, ManifestFor, ArchiveId, Only
  <2>1. PackagesInv' /\ \A m : Stored(m) => Stored(m)'
    <3>1. CASE Publishes(a)
      <4>1. PackagesInv' /\ published \subseteq published' /\ damaged' = damaged
        BY <1>0, <3>1, PublishStep
      <4> QED
        BY <4>1, StoredStays
    <3>2. CASE UNCHANGED <<published, damaged>>
      <4>1. PackagesInv'
        BY <1>0, <3>2, ShapeStays DEF PackagesInv, At
      <4> QED
        BY <3>2, <4>1, StoredStays
    <3> QED
      BY <1>2, <3>1, <3>2, StepParts DEF Registers, packageVars
  <2>2. ASSUME NEW c \in Archivers, apc'[c] \in Settled
        PROVE  Stored(ManifestFor(c))'
    <3>1. CASE c # a
      <4>1. Stored(ManifestFor(c))
        BY <1>0, <2>0, <2>2, <3>1 DEF RowInv
      <4>2. ManifestFor(c)' = ManifestFor(c)
        BY <2>0, <3>1
      <4> QED
        BY <2>1, <4>1, <4>2 DEF Stored
    <3>2. CASE c = a /\ Publishes(a)
      BY <1>0, <3>2, PublishStep
    <3>3. CASE c = a /\ ~ Publishes(a)
      <4>1. Stored(ManifestFor(c)')
        BY <1>2, <2>2, <3>3, SettledStep
      <4> QED
        BY <2>1, <4>1 DEF Stored
    <3> QED
      BY <3>1, <3>2, <3>3
  <2>3. registered' # NoRow =>
          /\ epStatus'[Episode] \in {"archived", "render_queued", "rendered"}
          /\ registered'.job = archiveOf'[Episode]
          /\ registered'.job = registered'.manifest.job.job
          /\ registered'.id = registered'.manifest.id
          /\ Stored(registered'.manifest)
    <3>1. CASE Registers(a)
      BY <3>1, RegisterStep
    <3>2. CASE UNCHANGED <<dbVars, registered>>
      BY <1>0, <3>2 DEF RowInv, dbVars
    <3> QED
      BY <1>2, <3>1, <3>2, StepParts DEF Publishes
  <2>4. RowInv'
    BY <2>1, <2>2, <2>3 DEF RowInv, Stored
  <2> QED
    BY <2>1, <2>4 DEF StoreInv
<1>3. ASSUME OthersArchive, (\E b \in Builders : BuildStep(b)) \/ RenderStep
      PROVE  StoreInv'
  <2>1. UNCHANGED <<published, damaged, apc, aplan, ajob, registered>>
    BY <1>3 DEF OthersArchive, packageVars, archiverVars
  <2>2. PackagesInv'
    BY <1>0, <2>1, ShapeStays DEF PackagesInv, At
  <2>3. \A m : Stored(m) => Stored(m)'
    BY <2>1, StoredStays
  <2>4. \A a \in Archivers : ManifestFor(a)' = ManifestFor(a)
    BY <2>1 DEF ManifestFor, ArchiveId, Only
  <2>5. RowInv'
    BY <1>0, <1>3, <2>1, <2>3, <2>4, ArchivedStays DEF RowInv, Stored
  <2> QED
    BY <2>2, <2>5 DEF StoreInv
<1>4. ASSUME NEW f \in Files, Edit(f), UNCHANGED <<dbVars, buildVars>>, OthersArchive
      PROVE  StoreInv'
  BY <1>1, <1>4 DEF OthersArchive, packageVars, archiverVars, dbVars
<1>5. ASSUME NEW p \in published, Damage(p), UNCHANGED archiverVars, Elsewhere
      PROVE  StoreInv'
  <2>1. PackagesInv' /\ \A m : Stored(m) => Stored(m)'
    BY <1>0, <1>5, DamageStep
  <2>2. UNCHANGED <<apc, aplan, ajob, registered, epStatus, archiveOf>>
    BY <1>5 DEF archiverVars, Elsewhere, dbVars
  <2>3. \A a \in Archivers : ManifestFor(a)' = ManifestFor(a)
    BY <2>2 DEF ManifestFor, ArchiveId, Only
  <2>4. RowInv'
    BY <1>0, <2>1, <2>2, <2>3 DEF RowInv, Stored
  <2> QED
    BY <2>1, <2>4 DEF StoreInv
<1>6. CASE UNCHANGED vars
  BY <1>1, <1>6 DEF vars, packageVars, archiverVars, dbVars
<1> QED
  BY <1>2, <1>3, <1>4, <1>5, <1>6, StepKinds

\* The inductive invariant holds in every state.
THEOREM Invariance == Spec => []IInv
<1>1. Init => IInv
  BY TypesInit, EpisodeInit, AttemptInit, PackagesInit DEF IInv
<1>2. IInv /\ [Next]_vars => IInv'
  BY TypesNext, EpisodeNext, AttemptNext, StoreNext DEF IInv
<1> QED
  BY <1>1, <1>2, PTL DEF Spec

\* No half-built package is ever visible: what lies at a final path verifies
\* unless it was damaged there, and no id has two packages, whichever archivers
\* died or raced for it.
THEOREM PackagesSealed == Spec => []PublishedIsSealed
<1>1. IInv => PublishedIsSealed
  BY DEF IInv, StoreInv, PackagesInv, PackageShape, PublishedIsSealed
<1> QED
  BY <1>1, Invariance, PTL

\* The archives row, written by create_archive() or by recovery after a crash,
\* names a published package with that very manifest and the job sealed in it.
THEOREM RowMatchesPackage == Spec => []RegisteredMatchesPackage
<1>1. IInv => RegisteredMatchesPackage
  <2> SUFFICES ASSUME IInv, registered # NoRow
               PROVE  /\ epStatus[Episode] \in {"archived", "render_queued", "rendered"}
                      /\ registered.job = archiveOf[Episode]
                      /\ registered.job = registered.manifest.job.job
                      /\ At(registered.id) # {}
                      /\ registered.id \notin damaged => VerifyArchive
    BY DEF RegisteredMatchesPackage
  <2>1. /\ epStatus[Episode] \in {"archived", "render_queued", "rendered"}
        /\ registered.job = archiveOf[Episode]
        /\ registered.job = registered.manifest.job.job
        /\ registered.id = registered.manifest.id
        /\ Stored(registered.manifest)
    BY DEF IInv, StoreInv, RowInv
  <2>2. PICK p \in published : p.id = registered.id /\ (p.id \notin damaged => p.manifest = registered.manifest)
    BY <2>1 DEF Stored
  <2>3. p.id \notin damaged => Verified(p)
    BY DEF IInv, StoreInv, PackagesInv, PackageShape
  <2> QED
    BY <2>1, <2>2, <2>3 DEF At, VerifyArchive
<1> QED
  BY <1>1, Invariance, PTL

----------------------------------------------------------------------------
(* The abstract package store *)

Taken == {p.id : p \in published}
Intact == {p.id : p \in {q \in published : Verified(q)}}
Row == IF registered = NoRow THEN NoRow ELSE registered.id

\* Every step publishes, registers or damages one package, or leaves the store alone.
LEMMA StoreRefines ==
  ASSUME IInv, [Next]_vars
  PROVE  [Store!StoreNext]_(Store!storeVars)
<1> USE DEF Store!StoreNext, Store!storeVars, Store!Publish, Store!Register, Store!Damage
<1>0. /\ Types /\ AttemptInv /\ PackagesInv /\ RowInv
  BY DEF IInv, StoreInv
<1>1. CASE UNCHANGED <<published, registered>>
  BY <1>1 DEF Verified, RootIntact, SidecarMatches, ManifestWellFormed, PayloadMatchesManifest, Held
<1>2. ASSUME NEW a \in Archivers, Publishes(a)
      PROVE  [Store!StoreNext]_(Store!storeVars)
  <2> DEFINE new == PackageOf(a)
  <2>1. published' = published \cup {new} /\ registered' = registered
    BY <1>0, <1>2, PublishStep DEF Publishes
  <2>2. Verified(new) /\ new.id = ArchiveId(aplan[a])
    BY <1>0, <1>2, PublishedWhole DEF Publishes
  <2>3. \A p \in published : p.id # new.id
    BY <1>0, <1>2, <2>2 DEF Publishes, Publish, At, AttemptInv, StagingShape, Staging
  <2> HIDE DEF new
  <2>4. Taken' = Taken \cup {new.id} /\ new.id \notin Taken
    BY <2>1, <2>3 DEF Taken
  <2>5. \A p : Verified(p)' <=> Verified(p)
    BY DEF Verified, RootIntact, SidecarMatches, ManifestWellFormed, PayloadMatchesManifest, Held
  <2>6. Intact' = Intact \cup {new.id}
    BY <2>1, <2>2, <2>5 DEF Intact
  <2>7. Row' = Row
    BY <2>1 DEF Row
  <2>8. new.id \in Taken'
    BY <2>4
  <2> QED
    BY <2>4, <2>6, <2>7, <2>8, Zenon DEF Taken, Intact, Row
<1>3. ASSUME NEW a \in Archivers, Registers(a)
      PROVE  [Store!StoreNext]_(Store!storeVars)
  <2>1. published' = published /\ registered = NoRow
    BY <1>3 DEF Registers, Register, packageVars
  <2>2. Taken' = Taken /\ Row = NoRow
    BY <2>1 DEF Taken, Row
  <2>3. Intact' = Intact
    BY <2>1 DEF Intact, Verified, RootIntact, SidecarMatches, ManifestWellFormed, PayloadMatchesManifest, Held
  <2>4. CASE registered' = NoRow
    <3>1. Row' = Row
      BY <2>1, <2>4 DEF Row
    <3> QED
      BY <2>2, <2>3, <3>1 DEF Taken, Intact, Row
  <2>5. CASE registered' # NoRow
    <3>1. registered'.id = registered'.manifest.id /\ Stored(registered'.manifest)
      BY <1>3, <2>5, RegisterStep, <1>0 DEF StoreInv
    <3>2. registered'.id \in Taken
      BY <3>1 DEF Stored, Taken
    <3>3. Row' = registered'.id
      BY <2>5 DEF Row
    <3>4. registered'.id \in Taken'
      BY <2>2, <3>2
    <3> QED
      BY <2>2, <2>3, <3>2, <3>3, <3>4, Zenon DEF Taken, Intact, Row
  <2> QED
    BY <2>4, <2>5
<1>4. ASSUME NEW p \in published, Damage(p), Elsewhere
      PROVE  [Store!StoreNext]_(Store!storeVars)
  <2>1. PICK q : ~ Verified(q) /\ q.id = p.id /\ published' = (published \ {p}) \cup {q}
    BY <1>0, <1>4, DamageStep
  <2>2. Taken' = Taken
    BY <2>1 DEF Taken
  <2>3. \A r : Verified(r)' <=> Verified(r)
    BY DEF Verified, RootIntact, SidecarMatches, ManifestWellFormed, PayloadMatchesManifest, Held
  <2>4. Intact' = Intact \ {p.id}
    <3>1. \A r \in published : r.id = p.id => r = p
      BY <1>0 DEF PackagesInv
    <3> QED
      BY <2>1, <2>3, <3>1 DEF Intact
  <2>5. Row' = Row
    BY <1>4 DEF Elsewhere, Row
  <2>6. CASE p.id \in Intact
    BY <2>2, <2>4, <2>5, <2>6, Zenon DEF Taken, Intact, Row
  <2>7. CASE p.id \notin Intact
    <3>1. Intact' = Intact
      BY <2>4, <2>7
    <3> QED
      BY <2>2, <2>5, <3>1 DEF Taken, Intact, Row
  <2> QED
    BY <2>6, <2>7
<1>5. CASE UNCHANGED vars
  BY <1>1, <1>5 DEF vars, packageVars
<1>6. CASE OthersArchive
  BY <1>1, <1>6 DEF OthersArchive, packageVars
<1> QED
  BY <1>1, <1>2, <1>3, <1>4, <1>5, <1>6, StepKinds, StepParts

\* Publishing, recovery and damage implement the package store: a package
\* appears at once under an id nobody has, only damage makes it fail, and one
\* row at most is registered, for a package that is there.
THEOREM Refinement == Spec => ImplementsStore
<1>1. Init => Store!StoreInit
  BY DEF Init, PackageInit, Store!StoreInit
<1>2. IInv /\ [Next]_vars => [Store!StoreNext]_(Store!storeVars)
  BY StoreRefines
<1> QED
  BY <1>1, <1>2, Invariance, PTL DEF Spec, ImplementsStore, Store!StoreSpec

----------------------------------------------------------------------------
(* The provenance in a package *)

\* Somebody else's file is neither the copy of the manifest nor its record.
LEMMA ElsewhereOnDisk ==
  ASSUME ProvenanceKept, Types,
         \/ \E f \in Files : Edit(f)
         \/ \E j \in Jobs : RenderWrites(j)
  PROVE  disk'[Copy] = disk[Copy] /\ disk'[Provenance] = disk[Provenance] /\ recorded' = recorded
<1>0. SourcesTypeOK /\ Copy \in Files /\ Provenance \in Files
  BY FilesType DEF Types, BuildTypeOK
<1>1. ASSUME NEW f \in Files, Edit(f)
      PROVE  disk'[Copy] = disk[Copy] /\ disk'[Provenance] = disk[Provenance] /\ recorded' = recorded
  <2>1. f # Copy /\ f # Provenance
    BY <1>1 DEF Edit, ProvenanceKept
  <2>2. CASE Save(f)
    BY <1>0, <1>1, <2>1, <2>2, SaveTypes DEF Edit
  <2>3. CASE Replace(f, Absent) \/ Replace(f, Link)
    BY <1>0, <1>1, <2>1, <2>3 DEF Edit, Replace, SourcesTypeOK
  <2> QED
    BY <1>1, <2>2, <2>3 DEF Edit
<1>2. ASSUME NEW j \in Jobs, RenderWrites(j)
      PROVE  disk'[Copy] = disk[Copy] /\ disk'[Provenance] = disk[Provenance] /\ recorded' = recorded
  <2>1. PlanOutput[rowPlan[j]] \in Outputs
    BY <1>2, PlanAssumption DEF RenderWrites, Types, BuildShape
  <2>2. PlanOutput[rowPlan[j]] \in Files /\ PlanOutput[rowPlan[j]] # Copy /\ PlanOutput[rowPlan[j]] # Provenance
    BY <2>1, FilesType DEF ProvenanceKept
  <2> QED
    BY <1>0, <1>2, <2>2, SaveTypes DEF RenderWrites
<1> QED
  BY <1>1, <1>2

\* At most one builder copies the manifest, and what it records then stays.
LEMMA RecordStep ==
  ASSUME ProvenanceKept, Types, OneRecord, [Next]_vars
  PROVE  /\ OneRecord'
         /\ disk[Provenance] # Absent => disk'[Provenance] # Absent /\ recorded' = recorded
<1> DEFINE Goal == /\ OneRecord'
                   /\ disk[Provenance] # Absent => disk'[Provenance] # Absent /\ recorded' = recorded
<1> SUFFICES Goal
  OBVIOUS
<1>0. /\ disk \in [Files -> Contents] /\ bpc \in [Builders -> BuildSteps]
      /\ bver \in [Builders -> Versions \cup {NoVersion}]
      /\ SourcesTypeOK /\ Copy \in Files /\ Provenance \in Files
  BY FilesType DEF Types, BuildTypeOK, SourcesTypeOK
<1> USE <1>0 DEF OneRecord, Approved
<1>1. CASE UNCHANGED <<disk, recorded, bpc, bver>>
  BY <1>1
<1>2. ASSUME NEW b \in Builders, BuildStep(b)
      PROVE  Goal
  <2> USE DEF Step, Done, Loaded
  <2>1. CASE CopyManifest(b) /\ ~ UNCHANGED disk
    <3>1. /\ Regular(Manifest) /\ disk[Copy] = Absent /\ disk' = [disk EXCEPT ![Copy] = disk[Manifest]]
          /\ bpc' = [bpc EXCEPT ![b] = "record"] /\ bpc[b] = "copy" /\ bver' = bver /\ recorded' = recorded
      BY <2>1 DEF CopyManifest, Replace
    <3>2. disk'[Copy] # Absent
      BY <3>1, VersionType DEF Regular
    <3>3. Copy # Provenance => disk'[Provenance] = disk[Provenance]
      BY <3>1
    <3>4. disk[Provenance] = Absent
      BY <3>1
    <3> QED
      BY <3>1, <3>2, <3>3, <3>4 DEF ProvenanceKept
  <2>2. CASE CopyManifest(b) /\ UNCHANGED disk
    <3>1. UNCHANGED recorded /\ bver' \in {bver, [bver EXCEPT ![b] = NoVersion]}
          /\ (bpc' = [bpc EXCEPT ![b] = "done"])
      <4>1. ~ (Regular(Manifest) /\ disk[Copy] = Absent /\ Replace(Copy, disk[Manifest]))
        BY <2>2, VersionType DEF Replace, Regular
      <4> QED
        BY <2>2, <4>1 DEF CopyManifest
    <3> QED
      BY <2>2, <3>1
  <2>3. CASE RecordProvenance(b)
    <3>1. CASE Done(b) /\ UNCHANGED <<disk, recorded>>
      BY <3>1
    <3>2. CASE /\ Regular(Copy) /\ Save(Provenance) /\ bpc[b] = "record"
               /\ recorded' = [sha |-> disk[Copy], media |-> MediaOf[bver[b]]]
               /\ bpc' = [bpc EXCEPT ![b] = "queue"] /\ bver' = bver
      <4>1. disk'[Copy] = disk[Copy] /\ disk'[Provenance] \in Versions
        BY <3>2, SaveTypes DEF ProvenanceKept
      <4>2. \A c \in Builders : bpc'[c] # "record"
        BY <3>2
      <4>3. disk[Provenance] = Absent /\ disk[Copy] # Absent /\ MediaOf[bver[b]] \subseteq Approved
        BY <3>2
      <4>4. recorded'.media = MediaOf[bver[b]]
        BY <3>2
      <4> QED
        BY <3>2, <4>1, <4>2, <4>3, <4>4
    <3> QED
      BY <2>3, <3>1, <3>2 DEF RecordProvenance
  <2>4. CASE CheckProvenance(b)
    BY <2>4 DEF CheckProvenance, sourceVars
  <2>5. CASE QueueAfterBuild(b) \/ KillBuilder(b) \/ Assemble(b) \/ ClaimAssembly(b)
    BY <2>5 DEF QueueAfterBuild, KillBuilder, Assemble, ClaimAssembly, sourceVars
  <2>6. CASE \/ Prepare(b) \/ LookUp(b) \/ InsertEpisode(b) \/ CreateFolder(b) \/ RecordFolder(b)
             \/ DuplicateProject(b) \/ RecordProject(b)
    BY <2>6 DEF Prepare, LookUp, InsertEpisode, CreateFolder, RecordFolder, DuplicateProject,
       RecordProject, sourceVars
  <2> QED
    BY <1>2, <2>1, <2>2, <2>3, <2>4, <2>5, <2>6 DEF BuildStep
<1>3. CASE RenderStep
  <2>1. CASE \E j \in Jobs : RenderWrites(j)
    BY <2>1, ElsewhereOnDisk DEF RenderWrites, buildVars
  <2> QED
    BY <1>1, <1>3, <2>1 DEF RenderStep, ClaimRender, AcceptRender, PollRender, PollEpisode, sourceVars, buildVars
<1>4. ASSUME NEW f \in Files, Edit(f), UNCHANGED <<dbVars, buildVars>>
      PROVE  Goal
  BY <1>4, ElsewhereOnDisk DEF buildVars
<1>5. CASE UNCHANGED <<sourceVars, buildVars>>
  BY <1>1, <1>5 DEF sourceVars, buildVars
<1> QED
  BY <1>2, <1>3, <1>4, <1>5, StepKinds, StepParts DEF Elsewhere, vars

\* What files hold of the provenance stays whole.
LEMMA WholeKept ==
  ASSUME NEW files, WholeIn(files),
         disk[Provenance] # Absent => disk'[Provenance] # Absent /\ recorded' = recorded
  PROVE  WholeIn(files)'
BY DEF WholeIn

\* The plan of an episode holds its provenance whole or, for one built before
\* there was any, not at all.
LEMMA PlanWhole ==
  ASSUME ProvenanceKept, Types, OneRecord, NEW a \in Archivers, PlanShape(a),
         PlanContent(a), ~ Raise(a)
  PROVE  WholeIn(aplan'[a].files) /\ UNCHANGED <<disk, recorded>>
<1> DEFINE files == aplan[a].files
           new == [f \in Files |-> IF f \in ExternalOf(a) THEN disk[f] ELSE files[f]]
<1>1. /\ apc[a] = "plan"
      /\ IF LegacyEpisode(a) THEN ValidManifest(disk[Manifest]) ELSE CanonicalProvenance(a)
      /\ \A f \in ExternalOf(a) : Regular(f)
      /\ aplan' = [aplan EXCEPT ![a] = ContentPlan(files, ExternalOf(a), RolesOf(a))]
      /\ UNCHANGED <<disk, recorded>>
  BY DEF PlanContent, Elsewhere, sourceVars
<1>2. aplan'[a].files = new
  BY <1>1 DEF ContentPlan, Types, ArchiverTypes
<1>3. Copy \in Files /\ Provenance \in Files /\ files \in FileSets
      /\ (\A f \in Files : files[f] # Absent => f \in alisted[a]) /\ alisted[a] \subseteq Held(files)
  BY <1>1, FilesType DEF PlanShape, Types, ArchiverTypes, ContentPlans
<1>4. CASE LegacyEpisode(a)
  <2>1. Copy \notin alisted[a] /\ files[Copy] = Absent
    BY <1>3, <1>4 DEF LegacyEpisode
  <2>2. Copy \notin ExternalOf(a)
    <3>1. PlannedMedia(a) = MediaOf[disk[Manifest]] /\ disk[Manifest] \in Versions
      BY <1>1, <1>4 DEF PlannedMedia, ValidManifest
    <3> QED
      BY <1>4, <3>1, LocationAssumption, FilesType DEF ExternalOf, ProvenanceKept
  <2>3. new[Copy] = Absent
    BY <1>3, <2>1, <2>2
  <2> QED
    BY <1>1, <1>2, <2>3 DEF WholeIn
<1>5. CASE ~ LegacyEpisode(a)
  <2>1. /\ {Copy, Provenance} \subseteq alisted[a] /\ Regular(Provenance)
        /\ recorded.sha = files[Copy]
    BY <1>1, <1>5 DEF CanonicalProvenance
  <2>2. PlannedMedia(a) = recorded.media /\ ExternalOf(a) = recorded.media \ alisted[a]
    BY <1>5 DEF PlannedMedia, ExternalOf
  <2>3. new[Copy] = files[Copy] /\ new[Provenance] = files[Provenance] /\ files[Provenance] # Absent
    BY <1>3, <2>1, <2>2 DEF Held, FileSets
  <2>4. ASSUME NEW m \in recorded.media
        PROVE  new[m] # Absent
    <3>1. m \in Files
      BY FilesType DEF OneRecord, Approved
    <3>2. CASE m \in alisted[a]
      BY <1>3, <2>2, <3>1, <3>2 DEF Held, FileSets
    <3>3. CASE m \notin alisted[a]
      BY <1>1, <2>2, <3>1, <3>3, VersionType DEF Regular
    <3> QED
      BY <3>2, <3>3
  <2>5. disk[Provenance] # Absent
    BY <2>1, VersionType DEF Regular
  <2> QED
    BY <1>1, <1>2, <2>1, <2>3, <2>4, <2>5 DEF WholeIn
<1> QED
  BY <1>4, <1>5

\* Evidence takes nothing of it away.
LEMMA EvidenceWhole ==
  ASSUME Types, OneRecord, NEW a \in Archivers, WholeIn(aplan[a].files)
  PROVE  WholeIn(PackagePlan(aplan[a]).files)
<1>1. \A f \in Files \ Evidence : PackagePlan(aplan[a]).files[f] = aplan[a].files[f]
  BY DEF PackagePlan, Types, ArchiverTypes, ContentPlans
<1>2. Copy \in Files \ Evidence /\ Provenance \in Files \ Evidence /\ recorded.media \subseteq Files \ Evidence
  BY FilesType, LocationAssumption DEF OneRecord, Approved
<1> QED
  BY <1>1, <1>2 DEF WholeIn

\* There is no provenance and no plan at first.
LEMMA WholeInit == Init => WholeInv /\ MasterInv
BY FilesType DEF Init, BuildInit, PackageInit, WholeInv, MasterInv, OneRecord, Planned

\* Every step keeps provenance whole, on disk, in plans and in packages, and the
\* master among what is planned.
LEMMA WholeNext ==
  ASSUME ProvenanceKept, IInv, WholeInv, MasterInv, [Next]_vars
  PROVE  WholeInv' /\ MasterInv'
<1>0. Types /\ AttemptInv /\ PackagesInv /\ OneRecord
  BY DEF IInv, StoreInv, WholeInv
<1>1. OneRecord' /\ (disk[Provenance] # Absent => disk'[Provenance] # Absent /\ recorded' = recorded)
  BY <1>0, RecordStep
<1>2. \A files : WholeIn(files) => WholeIn(files)'
  BY <1>1, WholeKept
<1>3. ASSUME NEW a \in Archivers, apc'[a] \in Planned
      PROVE  WholeIn(aplan[a].files)'
  <2>1. CASE apc'[a] = apc[a] /\ aplan'[a] = aplan[a]
    <3>1. WholeIn(aplan[a].files)
      BY <1>3, <2>1 DEF WholeInv
    <3> QED
      BY <1>1, <2>1, <3>1 DEF WholeIn
  <2>2. CASE ArchiverStep(a)
    <3> USE DEF Planned, Go
    <3>0. apc'[a] # "done" /\ ~ Raise(a)
      BY <1>0, <1>3, RaiseTypes DEF Types
    <3>1. WholeIn(aplan'[a].files)
      <4>1. CASE PlanContent(a)
        BY <1>0, <3>0, <4>1, PlanWhole DEF AttemptInv
      <4>2. CASE ResolveEvidence(a)
        <5>1. apc[a] = "evidence" /\ aplan' = [aplan EXCEPT ![a] = PackagePlan(aplan[a])]
          BY <3>0, <4>2 DEF ResolveEvidence
        <5>2. WholeIn(PackagePlan(aplan[a]).files)
          BY <1>0, <5>1, EvidenceWhole DEF WholeInv
        <5> QED
          BY <1>0, <5>1, <5>2 DEF Types, ArchiverTypes
      <4>3. CASE RejectFinal(a) \/ Stage(a) \/ Copying(a) \/ CheckCopy(a) \/ Complete(a) \/ Recheck(a)
        <5>1. apc[a] \in Planned /\ aplan' = aplan
          BY <3>0, <4>3 DEF RejectFinal, Stage, Copying, CheckCopy, Complete, Recheck
        <5> QED
          BY <5>1 DEF WholeInv
      <4>4. CASE \/ BeginArchive(a) \/ SelectRenderJob(a) \/ Enumerate(a) \/ HashFile(a) \/ Settle(a)
                 \/ PublishPackage(a) \/ RecoverRows(a) \/ RecoverJob(a)
        <5>1. CASE HashFile(a)
          BY <1>0, <1>3, <3>0, <5>1 DEF HashFile
        <5> QED
          BY <1>0, <1>3, <3>0, <4>4, <5>1
          DEF BeginArchive, SelectRenderJob, Enumerate, Settle, PublishPackage, RecoverRows, RecoverJob,
              Types, ArchiverTypes
      <4>5. CASE Commit(a) \/ RecoverRegister(a) \/ \E p \in published : RecoverVerify(a, p)
        BY <1>0, <1>3, <3>0, <4>5 DEF Commit, RecoverRegister, RecoverVerify, Leave, Types, ArchiverTypes
      <4> QED
        BY <2>2, <3>0, <4>1, <4>2, <4>3, <4>4, <4>5 DEF ArchiverStep, KillArchiver
    <3> QED
      BY <1>1, <3>1 DEF WholeIn
  <2>3. ASSUME NEW c \in Archivers, ArchiverStep(c), c # a
        PROVE  apc'[a] = apc[a] /\ aplan'[a] = aplan[a]
    BY <1>0, <2>3, AttemptTypes DEF ArchiverKeeps
  <2> QED
    BY <2>1, <2>2, <2>3, StepKinds DEF OthersArchive, archiverVars, vars
<1>4. ASSUME NEW p \in published'
      PROVE  WholeIn(p.sidecar.files)' /\ MasterIn(p)
  <2>1. CASE \E q \in published : p.sidecar = q.sidecar
    <3>1. PICK q \in published : p.sidecar = q.sidecar
      BY <2>1
    <3>2. WholeIn(q.sidecar.files) /\ MasterIn(q)
      BY DEF WholeInv, MasterInv
    <3>3. WholeIn(q.sidecar.files)'
      BY <1>2, <3>2
    <3> QED
      BY <3>1, <3>2, <3>3 DEF MasterIn
  <2>2. ASSUME NEW a \in Archivers, Publishes(a), p = PackageOf(a)
        PROVE  WholeIn(p.sidecar.files)' /\ MasterIn(p)
    <3>1. p.sidecar = ManifestFor(a) /\ apc[a] = "publish"
      BY <1>0, <2>2, PublishedWhole DEF Publishes
    <3>2. p.sidecar.files = aplan[a].files /\ p.sidecar.roles = aplan[a].roles /\ p.sidecar.job = ajob[a]
      BY <3>1 DEF ManifestFor
    <3>3. WholeIn(p.sidecar.files)
      BY <3>1, <3>2 DEF WholeInv, Planned
    <3>4. MasterIn(p)
      BY <1>0, <3>1, <3>2 DEF MasterIn, AttemptInv, PlanShape, Planned, Master
    <3> QED
      BY <1>2, <3>3, <3>4
  <2>3. ASSUME NEW q \in published, Damage(q)
        PROVE  \E r \in published : p.sidecar = r.sidecar
    <3>1. PICK r \in DamagedForms(q) : r # q /\ published' = (published \ {q}) \cup {r}
      BY <2>3 DEF Damage
    <3>2. r.sidecar = q.sidecar
      BY <1>0, <3>1, DamageHurts DEF Types, PackagesInv
    <3> QED
      BY <3>1, <3>2
  <2>4. CASE p \in published
    BY <2>1, <2>4
  <2>5. ASSUME NEW a \in Archivers, ArchiverStep(a), p \notin published
        PROVE  Publishes(a) /\ p = PackageOf(a)
    BY <2>5, StepParts DEF Publishes, Publish, Registers, packageVars
  <2> QED
    BY <2>1, <2>2, <2>3, <2>4, <2>5, StepKinds DEF OthersArchive, packageVars, vars
<1> QED
  BY <1>1, <1>3, <1>4 DEF WholeInv, MasterInv, MasterIn

\* A package is enough to make its episode again: it has a file at the output
\* path of the render job it archives and, if the episode has provenance, all
\* of it, whoever died or saved while it was built.  Nobody but Redline writes
\* where the provenance is.
THEOREM ArchiveWhole ==
  ASSUME ProvenanceKept
  PROVE  Spec => []ArchiveIsWhole
<1>1. IInv /\ WholeInv /\ MasterInv => ArchiveIsWhole
  <2> SUFFICES ASSUME IInv, WholeInv, MasterInv, NEW p \in published, p.id \notin damaged
               PROVE  /\ <<PlanOutput[p.manifest.job.plan], "render_master">> \in p.manifest.roles
                      /\ p.payload[PlanOutput[p.manifest.job.plan]] # Absent
                      /\ p.payload[Copy] # Absent => ProvenanceIsWhole(p)
    BY DEF ArchiveIsWhole
  <2>1. p \in Packages /\ PackageShape(p) /\ Verified(p)
    BY DEF IInv, Types, StoreInv, PackagesInv, PackageShape
  <2>2. p.manifest = p.sidecar /\ p.payload = p.sidecar.files
    BY <2>1, VerifiedManifest
  <2>3. MasterIn(p) /\ WholeIn(p.sidecar.files)
    BY DEF MasterInv, WholeInv
  <2> QED
    BY <2>2, <2>3 DEF MasterIn, WholeIn, ProvenanceIsWhole
<1>2. Init => IInv /\ WholeInv /\ MasterInv
  BY TypesInit, EpisodeInit, AttemptInit, PackagesInit, WholeInit DEF IInv
<1>3. (IInv /\ WholeInv /\ MasterInv) /\ [Next]_vars => (IInv /\ WholeInv /\ MasterInv)'
  BY WholeNext, TypesNext, EpisodeNext, AttemptNext, StoreNext DEF IInv
<1> QED
  BY <1>1, <1>2, <1>3, PTL DEF Spec

=============================================================================
