\* Two runs of the command, one push by a developer and one fault.
CONSTANTS
    a = a b = b Absent = Absent
    Paths <- TwoPaths
    Listing <- Alphabetical
    Contents <- FourFiles
    Reviews <- TwoReviews
    Trees <- TwoFiles
    PageSize = 8
    MaxRuns = 2
    MaxEdits = 1
    Faults = {"stale", "refused", "down", "unanswered"}
    MaxFaults = 1
SPECIFICATION Spec
INVARIANTS PostedIsReviewed PushesApplyFixes ApprovalIsUnanimous SaidOnce EachFindingCommented
CHECK_DEADLOCK FALSE
