\* One living poller beside a process that may die at any step.
SPECIFICATION PollingSpec
CONSTANTS
  NoPlan = NoPlan
  NoJob = NoJob
  NoRid = NoRid
  e1 = e1
  e2 = e2
  pl1 = pl1
  pl2 = pl2
  pl3 = pl3
  o1 = o1
  o2 = o2
  o3 = o3
  Procs = {p1, p2}
  Killable = {p1}
  Episodes = {e1}
  Plans = {pl1}
  Outputs = {o1}
  PlanEpisode <- MCOneEpisode
  PlanOutput <- MCOneFile
  Jobs = {j1, j2}
  Rids = {r1}
  CustomNameReported = FALSE
PROPERTIES RowConverges
\* Commands come from operators: when every output exists and nothing is live
\* no command has anything left to change.
CHECK_DEADLOCK FALSE
