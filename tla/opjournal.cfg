\* Two mounts of one run, three appends, one death, a process that compacts and
\* one that reads.
SPECIFICATION Spec
CONSTANTS
    Recorders = {m1, m2}
    Compactors = {k1}
    Readers = {d1}
    Bases = {b1, b2}
    NoLog = nolog
    MaxEvents = 3
    MaxCrashes = 1
SYMMETRY Symmetry
INVARIANTS
    TypeOK
    OneBase
    TornTailLast
    SeqIsPosition
    AckedReadable
    ReadComplete
CHECK_DEADLOCK FALSE
