CONSTANTS
    ConfigFiles = {pipeline}
    Database = database
    Journal = journal
    Absent = Absent
    Wrong = Wrong
    Unsafe = Unsafe
    None = None
    Garbled = Garbled
    Callers = {c1, c2}
    MaxCommits = 1
    MaxEdits = 1
    MaxDisturb = 1
    MaxSeconds = 1
    MaxBackups = 2
    MaxCaptures = 1
    Part = Part
    MaxDamage = 1
SPECIFICATION Spec
CONSTRAINT MCOneKind
SYMMETRY MCSymmetry
INVARIANTS BackupIsOneCommit CopiesAreOfOneMoment QuietCaptureRecovers
PROPERTY ImplementsStore
CHECK_DEADLOCK FALSE
