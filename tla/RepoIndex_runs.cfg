\* Two files, two models, two edits and two runs; windows of two lines.
CONSTANTS
    WindowLines = 2
    WindowOverlap = 1
    Files <- MCFiles
    Written <- MCWritten
    Revisions <- MCRevisions
    Models = {m1, m2}
    NoFile = NoFile
    TopK = 1
    OverFetch = 1
    MaxEdits = 2
    MaxRuns = 2
    MaxRanked = 3
SPECIFICATION Spec
INVARIANTS EveryLineInAChunk OneVersion RunRepairs BestContext
CHECK_DEADLOCK FALSE
