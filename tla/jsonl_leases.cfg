CONSTANTS
    Handle = {h1, h2}
    NoHandle = NoHandle
    Msg = {m1}
    Room = {r1}
    Cursor = {c1}
    Duration = {0}
    PowerLoss = FALSE
    MaxTime = 2
    MaxAttempts = 2
    MaxLog = 3
SPECIFICATION Spec
SYMMETRY Symmetry
CONSTRAINT RoomsApart
INVARIANTS
    TypeOK
    NeverCorrupt
    MutualExclusion
    SnapshotIsReplay
    StaleOwnerNeverWrites
    ProcessedIsFinal
    AckedIsDurable
    SnapshotNeverAhead
PROPERTIES
    ImplementsRegistry
