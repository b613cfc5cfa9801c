\* A gc beside one checkpoint: no failure is needed.
SPECIFICATION Spec
CONSTANTS
    Procs = {p1, p2}
    Paths = {f1}
    Contents = {a}
    Ckpts = {k1}
    NoFile = NoFile
    NoCkpt = NoCkpt
    MayFail = FALSE
    MaxEdits = 0
INVARIANT GcKeepsReferenced
CHECK_DEADLOCK FALSE
