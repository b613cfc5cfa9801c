\* Two processes, each of them checkpointing, committing or collecting, and
\* failing anywhere, over two paths, two contents and two checkpoints.
SPECIFICATION Spec
CONSTANTS
    Procs = {p1, p2}
    Paths = {f1, f2}
    Contents = {a, b}
    Ckpts = {k1, k2}
    NoFile = NoFile
    NoCkpt = NoCkpt
    MayFail = TRUE
    MaxEdits = 1
SYMMETRY Symmetry
INVARIANTS
    TypeOK
    SealedObjectsPresent
    SealedObjectsIntact
    HistorySealed
    SweepReadEveryManifest
    UndisturbedSnapshotExact
CHECK_DEADLOCK FALSE
