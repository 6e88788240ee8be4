\* No fault at all; a commit of two files.
SPECIFICATION Spec
CONSTANTS
    c1 = c1
    c2 = c2
    f1 = f1
    f2 = f2
    p1 = p1
    p2 = p2
    Commits = {c1}
    Files = {f1, f2}
    Pushes = {p1}
    Workers = {w1, w2}
    CommitOf <- OnePush
    FilesOf <- TwoFiles
    PrPushes = {p1}
    Outcomes <- TwoOutcomes
    MaxRetries = 2
    Faults = {}
    MaxFaults = 0
    None = None
INVARIANTS
    GreenCoversCommit
CHECK_DEADLOCK FALSE
