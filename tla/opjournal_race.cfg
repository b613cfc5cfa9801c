\* Two commits of one run compact its journal at the same time.
SPECIFICATION Spec
CONSTANTS
    Recorders = {m1}
    Compactors = {k1, k2}
    Readers = {}
    Bases = {b1}
    NoLog = nolog
    MaxEvents = 1
    MaxCrashes = 0
INVARIANT CompactionKeepsEvents
CHECK_DEADLOCK FALSE
