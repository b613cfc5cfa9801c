\* A writer fails inside store_bytes, a later checkpoint finds the object.
SPECIFICATION Spec
CONSTANTS
    Procs = {p1, p2}
    Paths = {f1}
    Contents = {a}
    Ckpts = {k1, k2}
    NoFile = NoFile
    NoCkpt = NoCkpt
    MayFail = TRUE
    MaxEdits = 0
INVARIANT CheckpointsRestorable
CHECK_DEADLOCK FALSE
