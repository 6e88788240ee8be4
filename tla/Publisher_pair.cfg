\* The worker and the CLI at the same time, and somebody who deletes comments.
CONSTANTS
    worker = worker cli = cli None = None
    Publishers = {worker, cli}
    Outcomes <- ThreeOutcomes
    MaxAttempts = 2
    Faults = {"network", "refused", "redis", "crash"}
    MaxFaults = 2
    MaxPublications = 3
SPECIFICATION Spec
INVARIANTS DuplicatesExplained OneStory
 
CHECK_DEADLOCK FALSE
SYMMETRY Symmetry
