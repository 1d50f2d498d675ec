\* One episode with three commands of two builders and two archivers, each of which
\* may die and leave the rest to another, while somebody saves or removes a medium,
\* or removes the master.
SPECIFICATION Spec
CONSTANTS
  p1 = p1
  m1 = m1
  copy = copy
  provenance = provenance
  clip = clip
  log = log
  Manifest = manifest
  Episode = e1
  Episodes = {e1}
  Plans = {p1}
  Outputs = {m1}
  Jobs = {1, 2}
  r1 = r1
  r2 = r2
  Rids = {r1, r2}
  PlanEpisode <- MCPlanEpisode
  PlanOutput <- MCPlanOutput
  NoPlan = NoPlan
  NoJob = NoJob
  NoRid = NoRid
  Workspace <- MCWorkspace
  Media = {clip}
  Evidence = {log}
  Copy = copy
  Provenance = provenance
  MediaOf <- MCMediaOf
  Foreign <- MCForeign
  Editable = {clip}
  Removable = {m1, clip}
  Linkable = {}
  Rank <- MCRank
  MaxEdits = 1
  MaxVersion = 2
  Absent = Absent
  Link = Link
  Builders = {b1, b2}
  RidOf <- MCRidOf
  NoVersion = NoVersion
  Archivers = {a1, a2}
  JobFacts <- MCFacts
  MaxDamage = 1
  MaxCalls = 3
  NoStaging = NoStaging
  NoFacts = NoFacts
  NoFile = NoFile
  NoRow = NoRow
INVARIANTS PublishedIsSealed RegisteredMatchesPackage ArchiveIsWhole AssembledHasProject
PROPERTIES ConsistentSnapshot ImplementsStore
SYMMETRY MCSymmetry
CHECK_DEADLOCK FALSE
