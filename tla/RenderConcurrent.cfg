SPECIFICATION Spec
CONSTANTS
  NoPlan = NoPlan
  NoJob = NoJob
  NoRid = NoRid
  e1 = e1
  e2 = e2
  pl1 = pl1
  pl2 = pl2
  o1 = o1
  o2 = o2
  pl3 = pl3
  o3 = o3
  Procs = {p1, p2}
  Killable = {p1, p2}
  Episodes = {e1}
  Plans = {pl1, pl2}
  Outputs = {o1, o2}
  PlanEpisode <- MCTwoPresets
  PlanOutput <- MCTwoFiles
  Jobs = {j1, j2}
  Rids = {r1, r2}
  CustomNameReported = FALSE
SYMMETRY MCSymmetry
INVARIANTS OneActiveRowPerOutput RowNeverAhead RenderedIsReal NoSilentOrphan
\* Commands come from operators: when every output exists and nothing is live
\* no command has anything left to change.
CHECK_DEADLOCK FALSE
