\* A prefix of the journal that cannot be materialized.
SPECIFICATION MCSpec
CONSTANTS
    a = a
    ax = ax
    b = b
    c = c
    d = d
    c1 = c1
    Paths <- TreePaths
    Above <- TreeAbove
    Less <- TreeLess
    Contents = {c1, c2}
    Modes = {FALSE}
    NoPath = none
INVARIANT PrefixReplays
CHECK_DEADLOCK FALSE
