\* One process, which may die at any step; two projects.
SPECIFICATION Spec
CONSTANTS
  NoPlan = NoPlan
  NoJob = NoJob
  NoRid = NoRid
  e1 = e1
  e2 = e2
  pl1 = pl1
  pl2 = pl2
  o1 = o1
  o2 = o2
  pl3 = pl3
  o3 = o3
  Procs = {p1}
  Killable = {p1}
  Episodes = {e1, e2}
  Plans = {pl1, pl2, pl3}
  Outputs = {o1, o2, o3}
  PlanEpisode <- MCTwoEpisodes
  PlanOutput <- MCThreeFiles
  Jobs = {j1, j2}
  Rids = {r1, r2}
  CustomNameReported = TRUE
SYMMETRY MCSymmetry
INVARIANTS TypeOK RowOwnsItsJob OneLiveJobPerOutput CancelledNotLive
\* Commands come from operators: when every output exists and nothing is live
\* no command has anything left to change.
CHECK_DEADLOCK FALSE
