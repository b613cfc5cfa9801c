\* A link to a file that is not there yet; one operation, nothing fails.
SPECIFICATION Spec
CONSTANTS
    Paths <- FewPaths
    Ignored = {}
    Zero = 0
    Bytes = {1}
    Start <- LinkStart
    Offsets = {0}
    Sizes = {0}
    CommitOnUnmount = TRUE
    NoPath = NoPath
    Gone = Gone
    NoTree = NoTree
    Probed = {}
    MaxIno = 2
    MaxOps = 1
    MaxMounts = 1
    MaxUpsets = 0
INVARIANTS
    EventBoundary
CHECK_DEADLOCK FALSE
