\* Every pair of checkpoints over a, a/x, b, c and d, every cut of the journal
\* and every set of events a limit may leave out.
SPECIFICATION MCSpec
CONSTANTS
    a = a
    ax = ax
    b = b
    c = c
    d = d
    c1 = c1
    Paths <- TreePaths
    Above <- TreeAbove
    Less <- TreeLess
    Contents = {c1, c2}
    Modes = {TRUE, FALSE}
    NoPath = none
INVARIANTS
    TypeOK
    FullReplayExact
    BaseOrTarget
    RenameMoves
    RenamesMatch
    OnlyTypeChangesBlock
CHECK_DEADLOCK FALSE
