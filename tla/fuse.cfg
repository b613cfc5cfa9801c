\* A directory with a file and a link to it, two empty directories, or one file
\* alone; one fault, and over the file alone a second session.
SPECIFICATION Spec
CONSTANTS
    Paths <- MCPaths
    Ignored <- MCIgnored
    Zero = 0
    Bytes = {1}
    Start <- MCStart
    Offsets = {1}
    Sizes = {0}
    CommitOnUnmount = TRUE
    NoPath = NoPath
    Gone = Gone
    NoTree = NoTree
    Probed <- MCProbed
    MaxIno = 3
    MaxOps = 2
    MaxMounts = 2
    MaxUpsets = 1
INVARIANTS
    TypeOK
    InodeIdentity
    ReplayFailsOnly
PROPERTIES
    CommitIsLastVersion
    RecordedSpec
CONSTRAINT Sessions
CHECK_DEADLOCK FALSE
