\* One process and two agents, the second one capped, on a plain file, one that does
\* not parse and a blank one; the breaker at its defaults.
CONSTANTS
    p1 = p1 p2 = p2 f1 = f1 f2 = f2 f3 = f3 f4 = f4 None = None
    Processes = {p1}
    Files = {f1, f3, f4}
    Unparsable = {f3}
    Blank = {f4}
    Flagged = {}
    NumAgents = 2
    Capped = {2}
    Answers = {"clean", "critical", "garbage", "infinite"}
    MaxAttempts = 2
    WindowSize = 10
    MinCalls = 5
    ThresholdNum = 1
    ThresholdDen = 2
    Cooldown = 2
SPECIFICATION FairSpec
INVARIANTS TripsInTime DriftTrips TrialInFlight ApprovedIsHeard
PROPERTIES TrialDecides ReviewEnds BreakerRecovers
