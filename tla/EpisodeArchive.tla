--------------------------- MODULE EpisodeArchive ---------------------------
(***************************************************************************)
(* The whole life of one episode: built (EpisodeBuild), rendered, and      *)
(* archived by ArchiveManager (archive/manager.py): create_archive(),      *)
(* recover_archive() and verify_archive() run by several processes, while  *)
(* somebody may still edit the files, queue another render or damage a     *)
(* published package.  Any process may die at any step.                    *)
(***************************************************************************)
EXTENDS EpisodeBuild, ArchivePackage

CONSTANTS NoFacts,   \* no render job selected
          NoFile,    \* no file copied last
          NoRow,     \* no archives row
          MaxCalls   \* bound: build, archive and recovery commands begun

\* A complete job has a row with a plan and an id of Resolve's.
ASSUME FactsAssumption == JobFacts = [job : Jobs, plan : Plans, rid : Rids]

VARIABLES apc,          \* where an archiver is
          ajob,         \* what it read of the selected render job
          alisted,      \* the workspace entries it enumerated
          aplan,        \* the inventory and, then, the plan it made
          afile,        \* the file it copied last
          registered,   \* the archives row: id, manifest and render job
          seen          \* history: the disk at every moment since it enumerated

archiverVars == <<apc, ajob, alisted, aplan, afile>>
vars == <<dbVars, sourceVars, buildVars, packageVars, archiverVars, registered, seen>>

ArchiveSteps == {"idle", "select", "enumerate", "hash", "plan", "final", "evidence", "stage",
                 "copy", "check", "complete", "recheck", "publish", "commit",
                 "rows", "job", "register", "done"}

NoContent == [files |-> [f \in Files |-> Absent], roles |-> {}]

\* Types of all variables.
TypeOK ==
    /\ BuildTypeOK
    /\ PackageTypeOK
    /\ apc \in [Archivers -> ArchiveSteps]
    /\ ajob \in [Archivers -> JobFacts \cup {NoFacts}]
    /\ alisted \in [Archivers -> SUBSET Workspace]
    /\ \A a \in Archivers : aplan[a] \in ContentPlans
    /\ afile \in [Archivers -> Files \cup {NoFile}]
    /\ \A a \in Archivers : seen[a] \subseteq FileSets
    /\ registered # NoRow =>
          registered.id \in ContentPlans /\ registered.manifest \in Manifests /\ registered.job \in Jobs

Init ==
    /\ BuildInit
    /\ PackageInit
    /\ apc = [a \in Archivers |-> "idle"]
    /\ ajob = [a \in Archivers |-> NoFacts]
    /\ alisted = [a \in Archivers |-> {}]
    /\ aplan = [a \in Archivers |-> NoContent]
    /\ afile = [a \in Archivers |-> NoFile]
    /\ registered = NoRow
    /\ seen = [a \in Archivers |-> {}]

Go(a, s) == apc' = [apc EXCEPT ![a] = s]

\* The call returns or raises; an unpublished staging directory stays behind.
Leave(a) ==
    /\ apc' = [apc EXCEPT ![a] = "done"]
    /\ ajob' = [ajob EXCEPT ![a] = NoFacts]
    /\ alisted' = [alisted EXCEPT ![a] = {}]
    /\ aplan' = [aplan EXCEPT ![a] = NoContent]
    /\ afile' = [afile EXCEPT ![a] = NoFile]

Raise(a) ==
    /\ Leave(a)
    /\ staged' = [staged EXCEPT ![a] = NoStaging]
    /\ UNCHANGED <<published, damaged>>

Elsewhere == UNCHANGED <<dbVars, sourceVars, buildVars, registered>>

\* The columns of the render job that metadata/render_job.json keeps.
Facts(j) == [job |-> j, plan |-> rowPlan[j], rid |-> rowRid[j]]

----------------------------------------------------------------------------
(* create_archive(): eligibility *)

\* _select_render_job(): no active job; the one asked for or the only one
\* complete, with its output on disk.
Selectable(j) ==
    /\ \A k \in Jobs : rowStatus[k] \notin Active
    /\ rowStatus[j] = "complete"
    /\ disk[PlanOutput[rowPlan[j]]] # Absent

\* No archives row, a rendered episode with a folder and no assembly claim.
Eligible ==
    /\ registered = NoRow
    /\ epStatus[Episode] = "rendered"
    /\ folderPath /\ folder
    /\ claim = NoClaim

\* The episode and its archives row are read.  They are two reads, but one
\* transaction writes both, and the commit looks at both again.
BeginArchive(a) ==
    /\ apc[a] = "idle"
    /\ Eligible
    /\ Go(a, "select")
    /\ UNCHANGED <<ajob, alisted, aplan, afile, packageVars>>
    /\ Elsewhere

\* Then the render jobs; the episode may have moved on by now.
SelectRenderJob(a) ==
    /\ apc[a] = "select"
    /\ \/ /\ \E j \in Jobs : Selectable(j) /\ ajob' = [ajob EXCEPT ![a] = Facts(j)]
          /\ Go(a, "enumerate")
          /\ UNCHANGED <<alisted, aplan, afile, packageVars>>
       \/ Raise(a)
    /\ Elsewhere

----------------------------------------------------------------------------
(* build_source_inventory() *)

\* The first walk of the workspace.
Enumerate(a) ==
    /\ apc[a] = "enumerate"
    /\ IF Enumerable(Workspace)
       THEN /\ alisted' = [alisted EXCEPT ![a] = Entries(Workspace)]
            /\ Go(a, "hash")
            /\ UNCHANGED <<ajob, aplan, afile, packageVars>>
       ELSE Raise(a)
    /\ Elsewhere

Unhashed(a) == alisted[a] \ Held(aplan[a].files)

\* hash_stable_file() of one listed file after the other.
HashFile(a) ==
    /\ apc[a] = "hash"
    /\ Unhashed(a) # {}
    /\ LET f == Foremost(Unhashed(a)) IN
       IF Regular(f)
       THEN /\ aplan' = [aplan EXCEPT ![a].files[f] = disk[f]]
            /\ UNCHANGED <<apc, ajob, alisted, afile, packageVars>>
       ELSE Raise(a)
    /\ Elsewhere

\* Mutant: nobody asks whether the inventory holds the render output.
SettleWithoutMaster(a) ==
    /\ apc[a] = "hash"
    /\ Unhashed(a) = {}
    /\ IF Enumerable(Workspace) /\ Entries(Workspace) = alisted[a]
       THEN Go(a, "plan") /\ UNCHANGED <<ajob, alisted, aplan, afile, packageVars>>
       ELSE Raise(a)
    /\ Elsewhere

\* _reconcile_final_tree_state(), and the render output is in the inventory.
Settle(a) ==
    /\ apc[a] = "hash"
    /\ Unhashed(a) = {}
    /\ IF /\ Enumerable(Workspace)
          /\ Entries(Workspace) = alisted[a]
          /\ PlanOutput[ajob[a].plan] \in alisted[a]
       THEN Go(a, "plan") /\ UNCHANGED <<ajob, alisted, aplan, afile, packageVars>>
       ELSE Raise(a)
    /\ Elsewhere

----------------------------------------------------------------------------
(* _build_content_plan() *)

\* _discover_canonical_provenance(): the record and the one manifest it names,
\* read after they were hashed, agree.
CanonicalProvenance(a) ==
    /\ {Copy, Provenance} \subseteq alisted[a]
    /\ Regular(Provenance)
    /\ recorded.sha = aplan[a].files[Copy]

\* No canonical provenance at all: an episode built before there was one.
LegacyEpisode(a) == {Copy, Provenance} \cap alisted[a] = {}

\* The media a plan needs: of the provenance, or of the manifest handed in.
PlannedMedia(a) == IF LegacyEpisode(a) THEN MediaOf[disk[Manifest]] ELSE recorded.media

\* A required medium that the workspace does not hold is an external artifact
\* (_build_source_media_artifact()), as is a legacy manifest.
ExternalOf(a) ==
    (PlannedMedia(a) \ alisted[a]) \cup (IF LegacyEpisode(a) THEN {Manifest} ELSE {})

\* The overlay on workspace files and the classes of external artifacts.
RolesOf(a) ==
    {<<PlanOutput[ajob[a].plan], "render_master">>}
        \cup {<<f, "source_media">> : f \in PlannedMedia(a)}
        \cup (IF LegacyEpisode(a) THEN {<<Manifest, "episode_manifest">>}
              ELSE {<<Copy, "episode_manifest">>, <<Provenance, "manifest_provenance">>})

\* With canonical provenance a manifest_path is optional and must be the same
\* manifest; without, it is required and validated.
PlanContent(a) ==
    /\ apc[a] = "plan"
    /\ \/ /\ IF LegacyEpisode(a) THEN ValidManifest(disk[Manifest]) ELSE CanonicalProvenance(a)
          /\ \A f \in ExternalOf(a) : Regular(f)
          /\ aplan' = [aplan EXCEPT ![a] = ContentPlan(aplan[a].files, ExternalOf(a), RolesOf(a))]
          /\ Go(a, "final")
          /\ UNCHANGED <<ajob, alisted, afile, packageVars>>
       \/ Raise(a)
    /\ Elsewhere

\* _reject_existing_final_package(): whatever is there, nothing is built.
RejectFinal(a) ==
    /\ apc[a] = "final"
    /\ IF At(ArchiveId(aplan[a])) = {}
       THEN Go(a, "evidence") /\ UNCHANGED <<ajob, alisted, aplan, afile, packageVars>>
       ELSE Raise(a)
    /\ Elsewhere

\* _resolve_configured_evidence() and build_package_plan().
ResolveEvidence(a) ==
    /\ apc[a] = "evidence"
    /\ IF EvidenceResolvable
       THEN /\ aplan' = [aplan EXCEPT ![a] = PackagePlan(aplan[a])]
            /\ Go(a, "stage")
            /\ UNCHANGED <<ajob, alisted, afile, packageVars>>
       ELSE Raise(a)
    /\ Elsewhere

----------------------------------------------------------------------------
(* build_archive_package() *)

Stage(a) ==
    /\ apc[a] = "stage"
    /\ \/ /\ BeginStaging(a, aplan[a], ajob[a])
          /\ Go(a, "copy")
          /\ UNCHANGED <<ajob, alisted, aplan, afile>>
       \/ At(ArchiveId(aplan[a])) # {} /\ Raise(a)
    /\ Elsewhere

\* The workspace, then the external artifacts, then the supplements.
Copying(a) ==
    /\ apc[a] = "copy"
    /\ LET f == Foremost(ToCopy(a)) IN
       \/ /\ CopyFile(a, f)
          /\ afile' = [afile EXCEPT ![a] = f]
          /\ Go(a, "check")
          /\ UNCHANGED <<ajob, alisted, aplan>>
       \/ ~ Regular(f) /\ Raise(a)
    /\ Elsewhere

\* Source and copy hashed again, or ArchiveSourceChangedError.
CheckCopy(a) ==
    /\ apc[a] = "check"
    /\ IF CopyVerified(a, afile[a])
       THEN /\ Go(a, IF ToCopy(a) = {} THEN "complete" ELSE "copy")
            /\ UNCHANGED <<ajob, alisted, aplan, afile, packageVars>>
       ELSE Raise(a)
    /\ Elsewhere

\* Everything is compared again and the package is sealed.
Complete(a) ==
    /\ apc[a] = "complete"
    /\ IF SourcesAndPayloadAgree(a)
       THEN Seal(a) /\ Go(a, "recheck") /\ UNCHANGED <<ajob, alisted, aplan, afile>>
       ELSE Raise(a)
    /\ Elsewhere

\* _verify_sealed_staging_package(): and again before the rename.
Recheck(a) ==
    /\ apc[a] = "recheck"
    /\ IF staged[a].sealed /\ SourcesAndPayloadAgree(a)
       THEN Go(a, "publish") /\ UNCHANGED <<ajob, alisted, aplan, afile, packageVars>>
       ELSE Raise(a)
    /\ Elsewhere

\* The final path is looked at once more and the directory renamed.
PublishPackage(a) ==
    /\ apc[a] = "publish"
    /\ \/ /\ Publish(a)
          /\ Go(a, "commit")
          /\ UNCHANGED <<ajob, alisted, aplan, afile>>
       \/ At(ArchiveId(aplan[a])) # {} /\ Raise(a)
    /\ Elsewhere

\* commit_verified_archive(): the row, and rendered -> archived.
Register(a, id, manifest) ==
    /\ registered = NoRow
    /\ CommitVerifiedArchive(Episode, ajob[a].job)
    /\ registered' = [id |-> id, manifest |-> manifest, job |-> ajob[a].job]

\* The commit, or ArchiveVerifiedUnregisteredError: the package stays.
Commit(a) ==
    /\ apc[a] = "commit"
    /\ \/ Register(a, ArchiveId(aplan[a]),
                   [id |-> ArchiveId(aplan[a]), files |-> aplan[a].files,
                    roles |-> aplan[a].roles, job |-> ajob[a]])
       \/ UNCHANGED <<dbVars, registered>>
    /\ Leave(a)
    /\ UNCHANGED <<packageVars, sourceVars, buildVars>>

----------------------------------------------------------------------------
(* recover_archive() *)

\* The package at the canonical path verifies and its sealed snapshots read
\* as they must; what they say of the job is kept.
RecoverVerify(a, p) ==
    /\ apc[a] = "idle"
    /\ p \in published /\ Verified(p)
    /\ ajob' = [ajob EXCEPT ![a] = p.manifest.job]
    /\ aplan' = [aplan EXCEPT ![a] = [files |-> p.manifest.files, roles |-> p.manifest.roles]]
    /\ Go(a, "rows")
    /\ UNCHANGED <<alisted, afile, packageVars>>
    /\ Elsewhere

\* _validate_current_render_job_for_recovery(): the sealed job as it is now.
JobUnchanged(a) == rowStatus[ajob[a].job] = "complete" /\ Facts(ajob[a].job) = ajob[a]

\* A row, matching or not, or another status ends it.
RecoverRows(a) ==
    /\ apc[a] = "rows"
    /\ IF registered = NoRow /\ epStatus[Episode] = "rendered"
       THEN Go(a, "job") /\ UNCHANGED <<ajob, alisted, aplan, afile, packageVars>>
       ELSE Raise(a)
    /\ Elsewhere

\* Mutant: recovery registers the job that is complete now.
RecoverLatestJob(a) ==
    /\ apc[a] = "job"
    /\ \E j \in Jobs : rowStatus[j] = "complete" /\ ajob' = [ajob EXCEPT ![a] = Facts(j)]
    /\ Go(a, "register")
    /\ UNCHANGED <<alisted, aplan, afile, packageVars>>
    /\ Elsewhere

\* So does another job.
RecoverJob(a) ==
    /\ apc[a] = "job"
    /\ IF JobUnchanged(a)
       THEN Go(a, "register") /\ UNCHANGED <<ajob, alisted, aplan, afile, packageVars>>
       ELSE Raise(a)
    /\ Elsewhere

RecoverRegister(a) ==
    /\ apc[a] = "register"
    /\ \/ Register(a, ArchiveId(aplan[a]),
                   [id |-> ArchiveId(aplan[a]), files |-> aplan[a].files,
                    roles |-> aplan[a].roles, job |-> ajob[a]])
       \/ UNCHANGED <<dbVars, registered>>
    /\ Leave(a)
    /\ UNCHANGED <<packageVars, sourceVars, buildVars>>

\* verify_archive() raises nothing for the archives row.
VerifyArchive ==
    \E p \in published :
        p.id = registered.id /\ Verified(p) /\ p.manifest = registered.manifest

----------------------------------------------------------------------------

KillArchiver(a) ==
    /\ apc[a] \notin {"idle", "done"}
    /\ Raise(a)
    /\ Elsewhere

ArchiverStep(a) ==
    \/ BeginArchive(a) \/ SelectRenderJob(a) \/ Enumerate(a) \/ HashFile(a) \/ Settle(a)
    \/ PlanContent(a) \/ RejectFinal(a) \/ ResolveEvidence(a)
    \/ Stage(a) \/ Copying(a) \/ CheckCopy(a)
    \/ Complete(a) \/ Recheck(a) \/ PublishPackage(a) \/ Commit(a)
    \/ (\E p \in published : RecoverVerify(a, p))
    \/ RecoverRows(a) \/ RecoverJob(a) \/ RecoverRegister(a)
    \/ KillArchiver(a)

OthersArchive == UNCHANGED <<packageVars, archiverVars, registered>>

\* An archiver whose package is still to be published.
Building(a) == apc[a] \notin {"idle", "select", "commit", "rows", "job", "register", "done"}

Observe == seen' = [a \in Archivers |-> IF Building(a)' THEN seen[a] \cup {disk'} ELSE {}]

\* Bound: nobody edits while two archivers build.
EditsOne == \A a, c \in Archivers : Building(a) /\ Building(c) => a = c

\* Bound: every process runs one command, and MaxCalls of them run one.
Calls == Cardinality({b \in Builders : bpc[b] # "idle"})
         + Cardinality({a \in Archivers : apc[a] # "idle"})

Next ==
    /\ \/ \E a \in Archivers : ArchiverStep(a)
       \/ (\E b \in Builders : BuildStep(b)) /\ OthersArchive
       \/ RenderStep /\ OthersArchive
       \/ \E f \in Files : Edit(f) /\ EditsOne /\ UNCHANGED <<dbVars, buildVars>> /\ OthersArchive
       \/ \E p \in published : Damage(p) /\ UNCHANGED archiverVars /\ Elsewhere
    /\ Calls' <= MaxCalls
    /\ Observe

Spec == Init /\ [][Next]_vars

----------------------------------------------------------------------------
(* Properties *)

\* A package holds the workspace exactly as it was at one moment, no file
\* more or less, and every medium and piece of evidence in it had, at that
\* moment, the bytes it has in the package: the copies are a snapshot although
\* they were hashed and copied one by one while files could change.
ConsistentSnapshot ==
    [][\A a \in Archivers : Building(a) /\ apc'[a] = "commit" =>
          \A p \in published' \ published : \E d \in seen[a] :
              /\ \A f \in Workspace : d[f] = p.payload[f]
              /\ \A f \in Held(p.payload) : d[f] = p.payload[f]]_vars

\* What lies at a final path was sealed, verifies unless it was damaged there,
\* and is the only package of its id: no half-built package is ever visible.
PublishedIsSealed ==
    /\ \A p \in published : p.id \notin damaged => Verified(p)
    /\ \A p, q \in published : p.id = q.id => p = q

\* The archives row, written by create_archive() or by recover_archive() after
\* a crash, names a published package with that very manifest, and the render
\* job it archives is the one sealed in the package.
RegisteredMatchesPackage ==
    registered # NoRow =>
        /\ epStatus[Episode] \in {"archived", "render_queued", "rendered"}
        /\ registered.job = archiveOf[Episode]
        /\ registered.job = registered.manifest.job.job
        /\ At(registered.id) # {}
        /\ registered.id \notin damaged => VerifyArchive

\* The provenance in package p is whole: the record, the manifest whose hash it
\* names and every medium of the build.
ProvenanceIsWhole(p) ==
    /\ p.payload[Provenance] # Absent
    /\ \A m \in recorded.media : p.payload[m] # Absent
    /\ p.payload[Copy] = recorded.sha

\* A package is enough to make its episode again: the master is a file it has
\* at the output path of the render job it archives, and an episode that has
\* provenance has it there whole, whatever was saved or removed while the
\* package was built and whoever died between the copy and its record.  The
\* path is all that ties the master to its job: no hash of a render is kept,
\* so what another job rendered to that path later passes as its output.
ArchiveIsWhole ==
    \A p \in published :
        p.id \notin damaged =>
            LET master == PlanOutput[p.manifest.job.plan] IN
            /\ <<master, "render_master">> \in p.manifest.roles
            /\ p.payload[master] # Absent
            /\ p.payload[Copy] # Absent => ProvenanceIsWhole(p)

\* However create_episode() was interrupted and whichever command went on with
\* what it left, an episode that was assembled has its project, one with a
\* render job has its folder, recorded, and one whose project is recorded has
\* all of that.
AssembledHasProject ==
    /\ epStatus[Episode] \in {"assembled", "render_queued", "rendered", "archived"} => project
    /\ (\E j \in Jobs : rowStatus[j] # "absent") => folderPath /\ folder
    /\ projectPath => folderPath /\ folder /\ project

\* Publishing, recovery and damage are steps of the abstract package store.
Store == INSTANCE PackageStore WITH
    taken <- {p.id : p \in published},
    intact <- {p.id : p \in {q \in published : Verified(q)}},
    row <- IF registered = NoRow THEN NoRow ELSE registered.id

ImplementsStore == Store!StoreSpec

=============================================================================
