\* Two deliveries of one commit; reviews may raise until every retry is used up,
\* claims run out and rows fail to be written.
SPECIFICATION FairSpec
CONSTANTS
    c1 = c1
    c2 = c2
    f1 = f1
    f2 = f2
    p1 = p1
    p2 = p2
    Commits = {c1}
    Files = {f1}
    Pushes = {p1, p2}
    Workers = {w1, w2}
    CommitOf <- OneCommit
    FilesOf <- OneFile
    PrPushes = {p1}
    Outcomes <- TwoOutcomes
    MaxRetries = 1
    Faults = {"review", "postgres", "lapse"}
    MaxFaults = 6
    None = None
INVARIANTS
    DeadLettersFinal
PROPERTIES
    RetryNotBlocked
    PushConcludes
CHECK_DEADLOCK FALSE
