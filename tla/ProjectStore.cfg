CONSTANTS
    s1 = s1
    s2 = s2
    d1 = d1
    d2 = d2
    x1 = x1
    Processes <- TwoProcesses
    Destinations <- TwoDestinations
    Backup = Backup
    Payloads <- OnePayload
    None = None
    Torn = Torn
    MaxRevision = 2
SPECIFICATION Spec
INVARIANTS
    CheckpointsComplete
    SavedIsDurable
    BackupPrecedesMigration
    CheckpointsFollowJournal
PROPERTIES
    SavedGrows
SYMMETRY ProcessSymmetry
CONSTRAINT WithinBounds
