--------------------------- MODULE ArchivePackage ---------------------------
(***************************************************************************)
(* Archive packages on disk (archive/package.py): a private staging        *)
(* directory per attempt, filled file by file, sealed with a manifest, its *)
(* SHA-256 and the marker PACKAGE_COMPLETE, then renamed to the path that  *)
(* the archive id names; and the verification of a published package.      *)
(***************************************************************************)
EXTENDS ArchiveSources

CONSTANTS Archivers,   \* calls that create or recover archives (bounds how many)
          JobFacts,    \* what metadata/render_job.json can say of a job
          MaxDamage,   \* bound: packages damaged on disk and edits before
          NoStaging    \* no staging directory that anybody still uses

VARIABLES published,   \* packages below <archive_root>/episodes
          staged,      \* the staging directory an attempt works in
          damaged      \* history: ids of packages damaged since publication

packageVars == <<published, staged, damaged>>

FileSets == [Files -> Contents]
ContentPlans == [files : FileSets, roles : SUBSET (Files \X Roles)]

\* archive_manifest.json, as _build_manifest() writes it.
Manifests == [id : ContentPlans, files : FileSets, roles : SUBSET (Files \X Roles), job : JobFacts]

\* A package: the directory's name, payload/, the control files beside it
\* and whether anything else lies there.
Packages ==
    [id : ContentPlans, payload : FileSets, manifest : Manifests, sidecar : Manifests,
     marker : BOOLEAN, stray : BOOLEAN]

PackageTypeOK ==
    /\ \A p \in published : p \in Packages
    /\ \A a \in Archivers : staged[a] # NoStaging =>
          /\ staged[a].plan \in ContentPlans
          /\ staged[a].job \in JobFacts
          /\ staged[a].payload \in FileSets
          /\ staged[a].sealed \in BOOLEAN
    /\ \A i \in damaged : i \in ContentPlans

PackageInit ==
    /\ published = {}
    /\ staged = [a \in Archivers |-> NoStaging]
    /\ damaged = {}

At(id) == {p \in published : p.id = id}

----------------------------------------------------------------------------
(* Building *)

\* build_staged_package() up to the first copy: a new staging directory,
\* unless the final path exists.
BeginStaging(a, plan, job) ==
    /\ At(ArchiveId(plan)) = {}
    /\ staged' = [staged EXCEPT ![a] =
          [plan |-> plan, job |-> job, payload |-> [f \in Files |-> Absent], sealed |-> FALSE]]
    /\ UNCHANGED <<published, damaged>>

Copied(a) == Held(staged[a].payload)
ToCopy(a) == Held(staged[a].plan.files) \ Copied(a)

\* _copy_file_chunked(): whatever stable bytes the source has now.
CopyFile(a, f) ==
    /\ f \in ToCopy(a)
    /\ Regular(f)
    /\ staged' = [staged EXCEPT ![a].payload[f] = disk[f]]
    /\ UNCHANGED <<published, damaged>>

\* The source and the copy both still are what was planned.
CopyVerified(a, f) ==
    /\ Stable(f, staged[a].plan.files[f])
    /\ staged[a].payload[f] = staged[a].plan.files[f]

\* _expected_payload_contents() and _reconcile_payload_contents().
PayloadComplete(a) == staged[a].payload = staged[a].plan.files

\* Mutant: only the copied files are looked at again, not the whole workspace.
PayloadAgrees(a) ==
    /\ PayloadComplete(a)
    /\ \A f \in Copied(a) : Stable(f, staged[a].plan.files[f])

\* The three checks of build_staged_package() before it seals, made again by
\* _verify_sealed_staging_package() before the rename.
SourcesAndPayloadAgree(a) ==
    /\ PayloadComplete(a)
    /\ ContentUnchanged(staged[a].plan)
    /\ SupplementsUnchanged(staged[a].plan)

\* _build_manifest() with the entries of both kinds.
ManifestOf(a) ==
    [id |-> ArchiveId(staged[a].plan), files |-> staged[a].plan.files,
     roles |-> staged[a].plan.roles, job |-> staged[a].job]

\* archive_manifest.json, archive_manifest.sha256 and the marker are written.
Seal(a) ==
    /\ ~ staged[a].sealed
    /\ staged' = [staged EXCEPT ![a].sealed = TRUE]
    /\ UNCHANGED <<published, damaged>>

PackageOf(a) ==
    [id |-> ArchiveId(staged[a].plan), payload |-> staged[a].payload,
     manifest |-> ManifestOf(a), sidecar |-> ManifestOf(a),
     marker |-> staged[a].sealed, stray |-> FALSE]

\* Mutant: the final path is not looked at again before the rename.
PublishUnchecked(a) ==
    /\ published' = published \cup {PackageOf(a)}
    /\ staged' = [staged EXCEPT ![a] = NoStaging]
    /\ UNCHANGED damaged

\* Mutant: the rename replaces what lies at the final path.
PublishOver(a) ==
    /\ published' = (published \ At(ArchiveId(staged[a].plan))) \cup {PackageOf(a)}
    /\ staged' = [staged EXCEPT ![a] = NoStaging]
    /\ UNCHANGED damaged

\* publish_package(): the rename, which never replaces a package.
Publish(a) ==
    /\ At(ArchiveId(staged[a].plan)) = {}
    /\ published' = published \cup {PackageOf(a)}
    /\ staged' = [staged EXCEPT ![a] = NoStaging]
    /\ UNCHANGED damaged

----------------------------------------------------------------------------
(* Verifying *)

\* The root holds the permitted entries only and the marker is there.
RootIntact(p) == p.marker /\ ~ p.stray

\* _parse_manifest_sha256_sidecar() against the bytes of the manifest.
SidecarMatches(p) == p.sidecar = p.manifest

\* _validate_sealed_manifest_structure(): a manifest for this archive id that
\* lists an artifact and no path twice.
ManifestWellFormed(p) == p.manifest.id = p.id /\ Held(p.manifest.files) # {}

\* _expected_payload_contents_from_manifest(): nothing missing, nothing more,
\* nothing different, no link.
PayloadMatchesManifest(p) ==
    /\ p.payload = p.manifest.files
    /\ \A f \in Held(p.payload) : p.payload[f] \in Versions

\* verify_archive_package(): the checks in their order.
Verified(p) ==
    /\ RootIntact(p)
    /\ SidecarMatches(p)
    /\ ManifestWellFormed(p)
    /\ PayloadMatchesManifest(p)

\* Damage that a lost, an added and a rewritten file do to package p; which file
\* is lost, the marker or one of the payload, makes no difference to anybody.
DamagedForms(p) ==
    {[p EXCEPT !.payload[Foremost(Held(p.payload))] = Absent],
     [p EXCEPT !.stray = TRUE], [p EXCEPT !.manifest.roles = {}]}

\* Somebody or some disk damages a published package.
Damage(p) ==
    /\ p \in published
    /\ Cardinality(damaged) + edits < MaxDamage
    /\ \E q \in DamagedForms(p) : q # p /\ published' = (published \ {p}) \cup {q}
    /\ damaged' = damaged \cup {p.id}
    /\ UNCHANGED staged

=============================================================================
