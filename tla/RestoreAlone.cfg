\* Attempts one after the other while nobody else writes.
SPECIFICATION Spec
CONSTANTS
  NoSnapshot = NoSnapshot
  g1 = g1
  g2 = g2
  Generations = {g1, g2}
  Backups <- MCOneBackup
  SidecarSuffixes <- MCTwoSidecars
  Quiet <- MCAlone
  MaxWrites = 0
INVARIANTS TypeOK EvidenceKept JournalTellsLive RefusesOnlyForCause
PROPERTIES ImplementsWriteAhead
