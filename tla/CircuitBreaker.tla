--------------------------- MODULE CircuitBreaker ---------------------------
(***************************************************************************)
(* core/circuit_breaker.py: the breaker every LLM call of a process goes   *)
(* through, as operators on its state.                                     *)
(*                                                                         *)
(* A breaker is a record: its state, the outcomes of the recent calls      *)
(* (oldest first) and, instead of the time it opened, the part of the      *)
(* cooldown that is left.                                                  *)
(***************************************************************************)
EXTENDS Integers, Sequences, FiniteSets

CONSTANTS
    WindowSize,    \* maxlen of the deque of outcomes
    MinCalls,      \* outcomes needed before the failure rate counts
    ThresholdNum,  \* failure_threshold, as the fraction
    ThresholdDen,  \*     ThresholdNum / ThresholdDen
    Cooldown       \* cooldown_seconds, in ticks

ASSUME BreakerAssumption ==
    /\ WindowSize \in Nat \ {0} /\ MinCalls \in Nat \ {0}
    /\ ThresholdNum \in Nat \ {0} /\ ThresholdDen \in Nat \ {0}
    /\ Cooldown \in Nat

\* The defaults meet this with equality (5 calls, half of a window of 10): when
\* MinCalls calls all fail, there are as many failures as a full window
\* tolerates.
ASSUME MinCallsAssumption == MinCalls * ThresholdDen <= ThresholdNum * WindowSize

CircuitState == {"closed", "open", "half_open"}

CallOutcomes == {"success", "failure"}

\* The contents of a deque of maxlen WindowSize.
Windows == {w \in Seq(CallOutcomes) : Len(w) <= WindowSize}

Breakers == [state : CircuitState, window : Windows, cooling : 0 .. Cooldown]

Fresh == [state |-> "closed", window |-> << >>, cooling |-> 0]

Failures(window) == Cardinality({i \in 1 .. Len(window) : window[i] = "failure"})

\* deque.append(): the oldest outcome makes room.
Slide(window, outcome) ==
    IF Len(window) < WindowSize THEN Append(window, outcome)
    ELSE Append(Tail(window), outcome)

\* Mutant of Allows: the cooldown is not looked at.
AllowsNever(b) == b.state # "open"

\* allow_request(): the answer, and what it does to the breaker.
Allows(b) == b.state = "open" => b.cooling = 0

Allowed(b) ==
    [state |-> IF b.state = "open" THEN "half_open" ELSE b.state,
     window |-> b.window, cooling |-> b.cooling]

\* Mutant of RecordSuccess: a half-open breaker is not closed.
RecordSuccessAnyState(b) ==
    [state |-> b.state, window |-> Slide(b.window, "success"), cooling |-> b.cooling]

RecordSuccess(b) ==
    IF b.state = "half_open"
    THEN [state |-> "closed", window |-> << >>, cooling |-> b.cooling]
    ELSE [state |-> b.state, window |-> Slide(b.window, "success"), cooling |-> b.cooling]

\* _open()
Opened == [state |-> "open", window |-> << >>, cooling |-> Cooldown]

\* Mutant of TooManyFailures: the rate has to exceed the threshold.
RateAboveThreshold(window) ==
    /\ Len(window) >= MinCalls
    /\ Failures(window) * ThresholdDen > ThresholdNum * Len(window)

\* Mutant of TooManyFailures: one more call is needed.
RateAfterMinCalls(window) ==
    /\ Len(window) > MinCalls
    /\ Failures(window) * ThresholdDen >= ThresholdNum * Len(window)

TooManyFailures(window) ==
    /\ Len(window) >= MinCalls
    /\ Failures(window) * ThresholdDen >= ThresholdNum * Len(window)

\* Mutant of RecordFailure: the half-open state is not looked at, so a trial
\* that fails counts as one failure among others.
RecordFailureAnyState(b) ==
    IF TooManyFailures(Slide(b.window, "failure")) THEN Opened
    ELSE [state |-> b.state, window |-> Slide(b.window, "failure"), cooling |-> b.cooling]

RecordFailure(b) ==
    IF b.state = "half_open" \/ TooManyFailures(Slide(b.window, "failure")) THEN Opened
    ELSE [state |-> b.state, window |-> Slide(b.window, "failure"), cooling |-> b.cooling]

\* The clock moves on.
Cooler(b) ==
    [state |-> b.state, window |-> b.window,
     cooling |-> IF b.cooling > 0 THEN b.cooling - 1 ELSE 0]

=============================================================================
