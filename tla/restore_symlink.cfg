\* A workspace where b may be a symlink into the ignored directory.
SPECIFICATION MCSpec
CONSTANTS
    a = a
    ax = ax
    b = b
    t = t
    ty = ty
    Paths <- TreePaths
    Above <- TreeAbove
    Root = root
    Ignored = {t, ty}
    Contents = {c1}
    Torn = torn
    LinkTo = {ty}
    Privileged = FALSE
    Operations = {"rollback"}
    MaxFaults = 0
INVARIANT OkMeansRestored
CHECK_DEADLOCK FALSE
