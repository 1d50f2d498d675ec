\* Others write three times during an attempt.
SPECIFICATION Spec
CONSTANTS
  NoSnapshot = NoSnapshot
  g1 = g1
  g2 = g2
  Generations = {g1, g2}
  Backups <- MCOneBackup
  SidecarSuffixes <- MCNoSidecar
  Quiet <- MCWindows
  MaxWrites = 3
PROPERTIES TakesOnlyWhatItCaptured
