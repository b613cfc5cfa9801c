\* Every tree without symlinks over a, a/x and b, perhaps with a directory that
\* is not writable or a file that may not be read, and every checkpoint of one;
\* the process dies up to twice.
SPECIFICATION MCSpec
CONSTANTS
    a = a
    ax = ax
    b = b
    t = t
    ty = ty
    Paths <- TreePaths
    Above <- TreeAbove
    Root = root
    Ignored = {t, ty}
    Contents = {c1, c2}
    Torn = torn
    LinkTo = {}
    Privileged = FALSE
    Operations = {"rollback", "op_restore"}
    MaxFaults = 2
INVARIANTS
    TypeOK
    OkMeansRestored
    OnlyConflictsFail
    KeptPathsStay
PROPERTY IgnoredUntouched
CHECK_DEADLOCK FALSE
