\* A command that may fork twice, with a deadline, a rollback and a commit,
\* under a policy that grants it no write, in a sandbox that may be degraded.
SPECIFICATION Spec
CONSTANTS
    Timed = TRUE
    Rollback = TRUE
    Commit = TRUE
    Profile = "read-only"
    Landlock = TRUE
    AllowDegraded = TRUE
    WriteList = {}
    Cwd = "workspace"
    Watched = {"proc.sample"}
    MayFail = TRUE
    MaxForks = 2
    MaxEdits = 1
    MaxWrites = 1
INVARIANTS
    TypeOK
    SummaryTruthful
    TimeoutNeverCommits
    ReportComplete
    SummaryEventLast
    KillReachesTree
    UngrantedWritesWarned
PROPERTY TimedRunEnds
CHECK_DEADLOCK FALSE
