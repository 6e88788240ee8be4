\* Two deliveries of one commit and two workers under every kind of fault.
SPECIFICATION FairSpec
CONSTANTS
    c1 = c1
    c2 = c2
    f1 = f1
    f2 = f2
    p1 = p1
    p2 = p2
    Commits = {c1}
    Files = {f1}
    Pushes = {p1, p2}
    Workers = {w1, w2}
    CommitOf <- OneCommit
    FilesOf <- OneFile
    PrPushes = {p1}
    Outcomes <- TwoOutcomes
    MaxRetries = 1
    Faults = {"broker", "redis", "review", "github", "postgres", "crash", "redelivery", "lapse"}
    MaxFaults = 3
    None = None
INVARIANTS
    TypeOK
    ClaimExclusive
    ReportedOnce
PROPERTIES
    ClaimLifecycleSpec
    PushSettles
CHECK_DEADLOCK FALSE
