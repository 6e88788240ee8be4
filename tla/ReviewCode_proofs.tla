-------------------------- MODULE ReviewCode_proofs --------------------------
(***************************************************************************)
(* Proofs about ReviewCode for any number of processes, files, agents and  *)
(* attempts and any breaker whose constants meet the assumptions of        *)
(* CircuitBreaker.                                                         *)
(***************************************************************************)
EXTENDS ReviewCode, SequenceTheorems, FiniteSetTheorems, TLAPS

-----------------------------------------------------------------------------
(* What the operations of the breaker do to its window, for every size,    *)
(* minimum and threshold.                                                  *)

\* The window is too small a sample, or within its tolerated share of failures:
\* what every window of a running breaker has in common.
Tolerable(window) == Failures(window) * ThresholdDen < ThresholdNum * WindowSize

\* Products grow with their factors.
LEMMA Monotone ==
    ASSUME NEW a \in Nat, NEW b \in Nat, NEW c \in Nat, a <= b
    PROVE  a * c <= b * c /\ c * a <= c * b
  OBVIOUS

\* No breaker tolerates nothing at all.
LEMMA SomeTolerance == 0 < ThresholdNum * WindowSize
<1>1. 1 * WindowSize <= ThresholdNum * WindowSize
  BY BreakerAssumption, Monotone
<1>2. ThresholdNum * WindowSize \in Nat
  BY BreakerAssumption
<1>3. QED
  BY <1>1, <1>2, BreakerAssumption

\* A window has no more failures than outcomes.
LEMMA FailuresType ==
    ASSUME NEW w \in Seq(CallOutcomes)
    PROVE  Failures(w) \in Nat /\ Failures(w) <= Len(w)
<1> DEFINE places == {i \in 1 .. Len(w) : w[i] = "failure"}
<1>1. IsFiniteSet(1 .. Len(w)) /\ Cardinality(1 .. Len(w)) = Len(w)
  <2>1. Len(w) \in Nat
    OBVIOUS
  <2> HIDE DEF places
  <2>2. QED
    BY <2>1, FS_Interval
<1>2. IsFiniteSet(places) /\ Cardinality(places) <= Cardinality(1 .. Len(w))
  BY <1>1, FS_Subset
<1>3. Cardinality(places) \in Nat
  BY <1>2, FS_CardinalityType
<1>4. QED
  BY <1>1, <1>2, <1>3 DEF Failures

\* The empty window of a breaker that just opened or closed has none.
LEMMA NoFailures == Failures(<< >>) = 0 /\ Tolerable(<< >>)
<1>1. Failures(<< >>) = 0
  <2>1. << >> \in Seq(CallOutcomes) /\ Len(<< >>) = 0
    OBVIOUS
  <2>2. Failures(<< >>) \in Nat /\ Failures(<< >>) <= Len(<< >>)
    BY <2>1, FailuresType, Zenon
  <2>3. QED
    BY <2>1, <2>2
<1>2. QED
  BY <1>1, SomeTolerance, BreakerAssumption DEF Tolerable

\* The deque keeps to its length.
LEMMA SlideType ==
    ASSUME NEW w \in Windows, NEW x \in CallOutcomes
    PROVE  Slide(w, x) \in Windows
<1>1. CASE Len(w) < WindowSize
  BY <1>1, AppendProperties, BreakerAssumption DEF Slide, Windows
<1>2. CASE ~(Len(w) < WindowSize)
  <2>1. w \in Seq(CallOutcomes) /\ w # << >> /\ Len(w) = WindowSize
    BY <1>2, BreakerAssumption DEF Windows
  <2>2. Tail(w) \in Seq(CallOutcomes) /\ Len(Tail(w)) = WindowSize - 1
    BY <2>1, HeadTailProperties
  <2>3. Append(Tail(w), x) \in Seq(CallOutcomes) /\ Len(Append(Tail(w), x)) = WindowSize
    BY <2>2, AppendProperties, BreakerAssumption
  <2>4. QED
    BY <1>2, <2>3, BreakerAssumption DEF Slide, Windows
<1>3. QED
  BY <1>1, <1>2

\* A success adds no failure to the window, whichever outcome drops out.
LEMMA SuccessAddsNone ==
    ASSUME NEW w \in Windows
    PROVE  Failures(Slide(w, "success")) <= Failures(w)
<1> DEFINE s == Slide(w, "success")
           F(v) == {i \in 1 .. Len(v) : v[i] = "failure"}
<1>1. IsFiniteSet(F(w))
  BY FS_Interval, FS_Subset DEF Windows
<1>2. CASE Len(w) < WindowSize
  <2>1. s = Append(w, "success") /\ w \in Seq(CallOutcomes)
    BY <1>2 DEF Slide, Windows
  <2>2. /\ Len(s) = Len(w) + 1 /\ s[Len(w) + 1] = "success"
        /\ \A i \in 1 .. Len(w) : s[i] = w[i]
    BY <2>1, AppendProperties
  <2>3. F(s) \subseteq F(w)
    BY <2>1, <2>2
  <2>4. QED
    BY <1>1, <2>3, FS_Subset DEF Failures
<1>3. CASE ~(Len(w) < WindowSize)
  <2>1. s = Append(Tail(w), "success") /\ w \in Seq(CallOutcomes) /\ w # << >> /\ Len(w) \in Nat
    BY <1>3, BreakerAssumption DEF Slide, Windows
  <2>2. /\ Tail(w) \in Seq(CallOutcomes) /\ Len(Tail(w)) = Len(w) - 1
        /\ \A i \in 1 .. Len(Tail(w)) : Tail(w)[i] = w[i + 1]
    BY <2>1, HeadTailProperties
  <2>3. /\ Len(s) = Len(w) /\ s[Len(w)] = "success"
        /\ \A i \in 1 .. Len(w) - 1 : s[i] = Tail(w)[i]
    BY <2>1, <2>2, AppendProperties
  <2>4. \A i \in F(s) : i + 1 \in F(w)
    BY <2>1, <2>2, <2>3
  <2> DEFINE shift == [i \in F(s) |-> i + 1]
  <2>5. shift \in Injection(F(s), F(w))
    <3>1. shift \in [F(s) -> F(w)]
      BY <2>4
    <3>2. \A i, j \in F(s) : shift[i] = shift[j] => i = j
      OBVIOUS
    <3>3. QED
      BY <3>1, <3>2 DEF Injection, IsInjective
  <2>6. Cardinality(F(s)) <= Cardinality(F(w))
    BY <1>1, <2>5, FS_Injection
  <2>7. QED
    BY <2>6 DEF Failures
<1>4. QED
  BY <1>2, <1>3

\* A window that does not trip the breaker is tolerable: a short one because
\* MinCalls failures are no more than a full window tolerates, a longer one
\* because its share of failures is below the threshold.
LEMMA NotTrippedTolerable ==
    ASSUME NEW w \in Windows, ~TooManyFailures(w)
    PROVE  Tolerable(w)
<1> DEFINE f == Failures(w)
<1>1. f \in Nat /\ f <= Len(w) /\ Len(w) \in Nat /\ Len(w) <= WindowSize
  BY FailuresType DEF Windows
<1>2. CASE Len(w) < MinCalls
  <2>1. f + 1 <= MinCalls /\ (f + 1) * ThresholdDen = f * ThresholdDen + ThresholdDen
    BY <1>1, <1>2, BreakerAssumption
  <2>2. (f + 1) * ThresholdDen <= MinCalls * ThresholdDen
    BY <1>1, <2>1, Monotone, BreakerAssumption
  <2>3. /\ f * ThresholdDen \in Nat /\ MinCalls * ThresholdDen \in Nat
        /\ ThresholdNum * WindowSize \in Nat
    BY <1>1, BreakerAssumption
  <2>4. QED
    BY <2>1, <2>2, <2>3, BreakerAssumption, MinCallsAssumption DEF Tolerable
<1>3. CASE ~(Len(w) < MinCalls)
  <2>1. f * ThresholdDen < ThresholdNum * Len(w)
    BY <1>1, <1>3, BreakerAssumption DEF TooManyFailures
  <2>2. ThresholdNum * Len(w) <= ThresholdNum * WindowSize
    BY <1>1, Monotone, BreakerAssumption
  <2>3. /\ f * ThresholdDen \in Nat /\ ThresholdNum * Len(w) \in Nat
        /\ ThresholdNum * WindowSize \in Nat
    BY <1>1, BreakerAssumption
  <2>4. QED
    BY <2>1, <2>2, <2>3 DEF Tolerable
<1>4. QED
  BY <1>2, <1>3

\* Recording a success keeps a window tolerable ...
LEMMA SuccessTolerable ==
    ASSUME NEW b \in Breakers, Tolerable(b.window)
    PROVE  Tolerable(RecordSuccess(b).window) /\ RecordSuccess(b) \in Breakers
<1>1. b.window \in Windows /\ << >> \in Windows
  BY BreakerAssumption DEF Breakers, Windows
<1>2. CASE b.state = "half_open"
  BY <1>1, <1>2, NoFailures DEF RecordSuccess, Breakers, CircuitState
<1>3. CASE b.state # "half_open"
  <2> DEFINE s == Slide(b.window, "success")
  <2>1. s \in Windows
    BY <1>1, SlideType DEF CallOutcomes
  <2>2. RecordSuccess(b).window = s /\ RecordSuccess(b) \in Breakers
    BY <1>3, <2>1 DEF RecordSuccess, Breakers, CircuitState
  <2>3. Failures(s) \in Nat /\ Failures(b.window) \in Nat /\ Failures(s) <= Failures(b.window)
    BY <1>1, <2>1, FailuresType, SuccessAddsNone DEF Windows
  <2>4. Failures(s) * ThresholdDen <= Failures(b.window) * ThresholdDen
    BY <2>3, Monotone, BreakerAssumption
  <2>5. /\ Failures(s) * ThresholdDen \in Nat /\ Failures(b.window) * ThresholdDen \in Nat
        /\ ThresholdNum * WindowSize \in Nat
    BY <2>3, BreakerAssumption
  <2>6. QED
    BY <2>2, <2>4, <2>5 DEF Tolerable
<1>4. QED
  BY <1>2, <1>3

\* ... and so does recording a failure, which empties a window that is not.
LEMMA FailureTolerable ==
    ASSUME NEW b \in Breakers
    PROVE  Tolerable(RecordFailure(b).window) /\ RecordFailure(b) \in Breakers
<1>1. b.window \in Windows /\ << >> \in Windows
  BY BreakerAssumption DEF Breakers, Windows
<1>2. CASE RecordFailure(b) = Opened
  BY <1>1, <1>2, NoFailures, BreakerAssumption DEF Opened, Breakers, CircuitState
<1>3. CASE RecordFailure(b) # Opened
  <2> DEFINE s == Slide(b.window, "failure")
  <2>1. s \in Windows /\ ~TooManyFailures(s)
    BY <1>1, <1>3, SlideType DEF RecordFailure, CallOutcomes
  <2>2. RecordFailure(b).window = s /\ RecordFailure(b) \in Breakers
    BY <1>3, <2>1 DEF RecordFailure, Breakers, CircuitState
  <2>3. QED
    BY <2>1, <2>2, NotTrippedTolerable
<1>4. QED
  BY <1>2, <1>3

-----------------------------------------------------------------------------
(* Failures among the recent outcomes.                                     *)

\* The places of the failures among the last n outcomes, and their number.
Lately(window, n) == {i \in 1 .. Len(window) : i > Len(window) - n /\ window[i] = "failure"}

RecentFailures(window, n) == Cardinality(Lately(window, n))

\* The last outcomes are some of all, and more of them have no fewer failures.
LEMMA RecentType ==
    ASSUME NEW w \in Seq(CallOutcomes), NEW n \in Nat
    PROVE  /\ IsFiniteSet(Lately(w, n)) /\ RecentFailures(w, n) \in Nat
           /\ RecentFailures(w, n) <= Failures(w)
           /\ RecentFailures(w, n) <= RecentFailures(w, n + 1)
<1> DEFINE all == {i \in 1 .. Len(w) : w[i] = "failure"}
<1>1. Len(w) \in Nat
  OBVIOUS
<1>2. IsFiniteSet(1 .. Len(w))
  BY <1>1, FS_Interval
<1>3. IsFiniteSet(all)
  BY <1>2, FS_Subset
<1>4. Lately(w, n) \subseteq all /\ Lately(w, n + 1) \subseteq all
  BY DEF Lately
<1>5. Lately(w, n) \subseteq Lately(w, n + 1)
  BY <1>1 DEF Lately
<1>6. IsFiniteSet(Lately(w, n)) /\ IsFiniteSet(Lately(w, n + 1))
  BY <1>3, <1>4, FS_Subset
<1>7. Cardinality(Lately(w, n)) \in Nat
  BY <1>6, FS_CardinalityType
<1>8. Cardinality(Lately(w, n)) <= Cardinality(all)
  BY <1>3, <1>4, FS_Subset
<1>9. Cardinality(Lately(w, n)) <= Cardinality(Lately(w, n + 1))
  BY <1>5, <1>6, FS_Subset
<1>10. QED
  BY <1>6, <1>7, <1>8, <1>9 DEF RecentFailures, Failures

\* What a new outcome does to the window, whether the oldest one drops out or not.
LEMMA SlideEffect ==
    ASSUME NEW w \in Windows, NEW x \in CallOutcomes
    PROVE  \E d \in {0, 1} :
              /\ Len(Slide(w, x)) = Len(w) + 1 - d
              /\ d = 1 => Len(w) = WindowSize
              /\ Slide(w, x)[Len(Slide(w, x))] = x
              /\ \A i \in 1 .. Len(w) : i - d \in 1 .. Len(w) => Slide(w, x)[i - d] = w[i]
<1> DEFINE s == Slide(w, x)
<1>a. w \in Seq(CallOutcomes) /\ Len(w) \in Nat /\ Len(w) <= WindowSize
  BY DEF Windows
<1>1. CASE Len(w) < WindowSize
  <2>1. s = Append(w, x)
    BY <1>1 DEF Slide
  <2>2. /\ Len(s) = Len(w) + 1 /\ s[Len(w) + 1] = x
        /\ \A i \in 1 .. Len(w) : s[i] = w[i]
    BY <1>a, <2>1, AppendProperties
  <2> HIDE DEF s
  <2>3. /\ Len(s) = Len(w) + 1 - 0 /\ s[Len(s)] = x
        /\ \A i \in 1 .. Len(w) : i - 0 \in 1 .. Len(w) => s[i - 0] = w[i]
    BY <1>a, <2>2
  <2>4. QED
    BY <2>3 DEF s
<1>2. CASE ~(Len(w) < WindowSize)
  <2>1. s = Append(Tail(w), x) /\ w # << >> /\ Len(w) = WindowSize
    BY <1>a, <1>2, BreakerAssumption DEF Slide
  <2>2. /\ Tail(w) \in Seq(CallOutcomes) /\ Len(Tail(w)) = Len(w) - 1
        /\ \A i \in 1 .. Len(Tail(w)) : Tail(w)[i] = w[i + 1]
    BY <1>a, <2>1, HeadTailProperties
  <2>3. /\ Len(s) = Len(w) /\ s[Len(w)] = x
        /\ \A i \in 1 .. Len(w) - 1 : s[i] = Tail(w)[i]
    BY <1>a, <2>1, <2>2, AppendProperties
  <2> HIDE DEF s
  <2>4. ASSUME NEW i \in 1 .. Len(w), i - 1 \in 1 .. Len(w) PROVE s[i - 1] = w[i]
    <3>1. i - 1 \in 1 .. Len(w) - 1 /\ (i - 1) + 1 = i
      BY <1>a, <2>4
    <3>2. QED
      BY <2>2, <2>3, <3>1
  <2>5. Len(s) = Len(w) + 1 - 1 /\ s[Len(s)] = x
    BY <1>a, <2>3
  <2>6. QED
    BY <2>1, <2>4, <2>5 DEF s
<1>3. QED
  BY <1>1, <1>2

\* A new outcome joins the last n, none of which drops out of the window as long
\* as they do not fill it.
LEMMA RecentSlide ==
    ASSUME NEW w \in Windows, NEW x \in CallOutcomes, NEW n \in Nat, n < WindowSize
    PROVE  /\ RecentFailures(Slide(w, x), n + 1) >= RecentFailures(w, n)
           /\ x = "failure" =>
                 RecentFailures(Slide(w, x), n + 1) >= RecentFailures(w, n) + 1
<1> DEFINE s == Slide(w, x)
           old == Lately(w, n)
           new == Lately(s, n + 1)
           last == Len(s)
<1>a. w \in Seq(CallOutcomes) /\ s \in Seq(CallOutcomes) /\ Len(w) \in Nat /\ Len(s) \in Nat
  BY SlideType DEF Windows
<1>1. PICK d \in {0, 1} :
         /\ Len(s) = Len(w) + 1 - d
         /\ d = 1 => Len(w) = WindowSize
         /\ s[Len(s)] = x
         /\ \A i \in 1 .. Len(w) : i - d \in 1 .. Len(w) => s[i - d] = w[i]
  BY SlideEffect
<1>2. IsFiniteSet(old) /\ IsFiniteSet(new)
  BY <1>a, RecentType
<1> HIDE DEF s
<1>3. ASSUME NEW i \in old PROVE i - d \in new \ {last}
  <2>1. i \in 1 .. Len(w) /\ i > Len(w) - n /\ w[i] = "failure"
    BY DEF Lately
  <2>2. i - d \in 1 .. Len(w) /\ i - d > Len(s) - (n + 1) /\ i - d < Len(s) /\ i - d \in Int
    <3>1. i \in Nat /\ i >= 1 /\ i <= Len(w) /\ WindowSize \in Nat
      BY <1>a, <2>1, BreakerAssumption
    <3>2. CASE d = 0
      BY <1>a, <1>1, <2>1, <3>1, <3>2
    <3>3. CASE d = 1
      BY <1>a, <1>1, <2>1, <3>1, <3>3
    <3>4. QED
      BY <3>2, <3>3
  <2>3. s[i - d] = "failure"
    BY <1>1, <2>1, <2>2
  <2>4. i - d \in 1 .. Len(s) /\ i - d # last
    BY <1>a, <2>2
  <2>5. QED
    BY <2>2, <2>3, <2>4 DEF Lately
<1> DEFINE shift == [i \in old |-> i - d]
<1>4. shift \in Injection(old, new \ {last})
  <2>1. shift \in [old -> new \ {last}]
    BY <1>3
  <2>2. \A i, j \in old : shift[i] = shift[j] => i = j
    BY <1>a, <1>1 DEF Lately
  <2>3. QED
    BY <2>1, <2>2 DEF Injection, IsInjective
<1>5. IsFiniteSet(new \ {last})
  BY <1>2, FS_Subset
<1>6. Cardinality(old) <= Cardinality(new \ {last})
  BY <1>4, <1>5, FS_Injection
<1>7. /\ Cardinality(old) \in Nat /\ Cardinality(new) \in Nat
      /\ Cardinality(new \ {last}) \in Nat
  BY <1>2, <1>5, FS_CardinalityType
<1>8. Cardinality(new \ {last}) <= Cardinality(new)
  BY <1>2, FS_Subset
<1>9. ASSUME x = "failure" PROVE Cardinality(new \ {last}) = Cardinality(new) - 1
  <2>1. last \in new
    BY <1>a, <1>1, <1>9 DEF Lately
  <2>2. QED
    BY <1>2, <2>1, FS_RemoveElement
<1>10. QED
  <2> HIDE DEF old, new
  <2>1. /\ Cardinality(new) >= Cardinality(old)
        /\ x = "failure" => Cardinality(new) >= Cardinality(old) + 1
    BY <1>6, <1>7, <1>8, <1>9
  <2>2. QED
    BY <2>1 DEF RecentFailures, old, new, s

-----------------------------------------------------------------------------
(* Type correctness.                                                       *)

\* The first part of TypeOK.
Types ==
    /\ breaker \in [Processes -> Breakers]
    /\ cache \in [Files \X Agents -> AnswerKinds \cup {None}]
    /\ pc \in [Processes -> {"idle", "lookup", "allow", "call", "store", "parse"}]
    /\ file \in [Processes -> Files \cup {None}]
    /\ agent \in [Processes -> Agents]
    /\ attempt \in [Processes -> 1 .. MaxAttempts]
    /\ raw \in [Processes -> AnswerKinds \cup {None}]
    /\ ok \in [Processes -> BOOLEAN]
    /\ critical \in [Processes -> BOOLEAN]
    /\ outcome \in [Processes -> Results \cup {None}]
    /\ heard \in [Processes -> [Agents -> AnswerKinds \cup {None}]]
    /\ trial \in [Processes -> BOOLEAN]
    /\ bad \in [Processes -> Nat]

\* Its second part: a review has a file, and what is to be stored is an answer.
Holding ==
    \A p \in Processes : /\ pc[p] # "idle" => file[p] \in Files
                         /\ pc[p] = "store" => raw[p] \in AnswerKinds

\* The type invariant, in the two parts its proof takes.
LEMMA TypeParts == TypeOK <=> Types /\ Holding
  BY DEF TypeOK, Types, Holding

\* Recording, admitting and cooling keep a breaker a breaker.
LEMMA BreakerTypes ==
    ASSUME NEW b \in Breakers
    PROVE  /\ Allowed(b) \in Breakers /\ Cooler(b) \in Breakers
           /\ Allowed(b).window = b.window /\ Cooler(b).window = b.window
           /\ Cooler(b).state = b.state
  BY BreakerAssumption DEF Breakers, Allowed, Cooler, CircuitState

\* The first state has a breaker, and its window is tolerable.
LEMMA FreshType == Fresh \in Breakers /\ Tolerable(Fresh.window)
<1>1. << >> \in Windows
  BY BreakerAssumption DEF Windows
<1>2. QED
  BY <1>1, NoFailures, BreakerAssumption DEF Fresh, Breakers, CircuitState

\* A function stays a function into S when a value of S is put in.
LEMMA SetType ==
    ASSUME NEW S, NEW f, NEW g, f \in [Processes -> S], NEW p \in Processes, NEW v \in S,
           g = [f EXCEPT ![p] = v]
    PROVE  g \in [Processes -> S]
  OBVIOUS

\* What the return of an agent changes keeps its type.
LEMMA ReturnTypes ==
    ASSUME Types, NEW p \in Processes, NEW came \in AnswerKinds \cup {None},
           NEW succeeded \in BOOLEAN, Return(p, came, succeeded)
    PROVE  /\ ok' \in [Processes -> BOOLEAN]
           /\ critical' \in [Processes -> BOOLEAN]
           /\ heard' \in [Processes -> [Agents -> AnswerKinds \cup {None}]]
           /\ trial' \in [Processes -> BOOLEAN]
           /\ pc' \in [Processes -> {"idle", "lookup", "allow", "call", "store", "parse"}]
           /\ agent' \in [Processes -> Agents]
           /\ outcome' \in [Processes -> Results \cup {None}]
<1> USE DEF Return, Set, Types
<1>1. ok' \in [Processes -> BOOLEAN] /\ trial' \in [Processes -> BOOLEAN]
  BY DEF Succeeded
<1>2. critical' \in [Processes -> BOOLEAN]
  OBVIOUS
<1>3. heard' \in [Processes -> [Agents -> AnswerKinds \cup {None}]]
  OBVIOUS
<1>4. pc' \in [Processes -> {"idle", "lookup", "allow", "call", "store", "parse"}]
  OBVIOUS
<1>5. agent' \in [Processes -> Agents]
  <2>1. CASE agent[p] < NumAgents
    <3>1. agent[p] + 1 \in Agents
      BY <2>1, AgentsAssumption DEF Agents
    <3>2. QED
      BY <2>1, <3>1
  <2>2. CASE ~(agent[p] < NumAgents)
    BY <2>2
  <2>3. QED
    BY <2>1, <2>2
<1>6. outcome' \in [Processes -> Results \cup {None}]
  <2>1. CASE agent[p] < NumAgents
    BY <2>1
  <2>2. CASE ~(agent[p] < NumAgents)
    <3> DEFINE serious == critical[p] \/ (came = "critical" /\ agent[p] \notin Capped)
               status == IF Succeeded(p, succeeded) THEN "completed" ELSE "degraded"
    <3>1. [status |-> status, critical |-> serious] \in Results
      BY DEF Results, ReviewStatus
    <3>2. outcome' = [outcome EXCEPT ![p] = [status |-> status, critical |-> serious]]
      BY <2>2
    <3> HIDE DEF serious, status
    <3>3. QED
      BY <3>1, <3>2
  <2>3. QED
    BY <2>1, <2>2
<1>7. QED
  BY <1>1, <1>2, <1>3, <1>4, <1>5, <1>6

\* The windows of all breakers are tolerable.
Calm == \A p \in Processes : Tolerable(breaker[p].window)

\* The types hold before the first review, and no window has a failure in it.
LEMMA TypeInit == Init => TypeOK /\ Calm
<1> SUFFICES ASSUME Init PROVE TypeOK /\ Calm
  OBVIOUS
<1>1. Types
  BY FreshType, AgentsAssumption, AttemptsAssumption DEF Init, Types, Agents
<1>2. Holding
  BY DEF Init, Holding
<1>3. Calm
  BY FreshType DEF Init, Calm
<1>4. QED
  BY <1>1, <1>2, <1>3, TypeParts

\* Every step keeps the variables in their types; that a breaker stays one
\* needs its window to be tolerable when a success is recorded.
LEMMA TypesStep == TypeOK /\ Calm /\ [Next]_vars => Types'
<1> SUFFICES ASSUME TypeOK, Calm, [Next]_vars PROVE Types'
  OBVIOUS
<1>a. Types /\ Holding
  BY TypeParts
<1>b. \A p \in Processes : RecordSuccess(breaker[p]) \in Breakers
  BY <1>a, SuccessTolerable DEF Types, Calm
<1> USE <1>a
<1>1. ASSUME NEW p \in Processes, NEW f \in Files, ReviewFails(p, f) PROVE Types'
  <2>1. outcome' \in [Processes -> Results \cup {None}]
    BY <1>1 DEF ReviewFails, Set, Types, Results, ReviewStatus
  <2>2. file' \in [Processes -> Files \cup {None}]
    BY <1>1 DEF ReviewFails, Set, Types
  <2>3. heard' \in [Processes -> [Agents -> AnswerKinds \cup {None}]]
    BY <1>1 DEF ReviewFails, Set, Types
  <2>4. QED
    BY <1>1, <2>1, <2>2, <2>3 DEF ReviewFails, Types, call, review, history
<1>2. ASSUME NEW p \in Processes, NEW f \in Files, Review(p, f) PROVE Types'
  <2>1. pc' \in [Processes -> {"idle", "lookup", "allow", "call", "store", "parse"}]
    BY <1>2 DEF Review, Set, Types
  <2>2. file' \in [Processes -> Files \cup {None}]
    BY <1>2 DEF Review, Set, Types
  <2>3. agent' \in [Processes -> Agents]
    BY <1>2, AgentsAssumption DEF Review, Set, Types, Agents
  <2>4. raw' \in [Processes -> AnswerKinds \cup {None}]
    BY <1>2 DEF Review, Set, Types
  <2>5. ok' \in [Processes -> BOOLEAN] /\ critical' \in [Processes -> BOOLEAN]
    BY <1>2 DEF Review, Set, Types
  <2>6. outcome' \in [Processes -> Results \cup {None}]
    BY <1>2 DEF Review, Set, Types
  <2>7. heard' \in [Processes -> [Agents -> AnswerKinds \cup {None}]]
    BY <1>2 DEF Review, Set, Types
  <2>8. QED
    BY <1>2, <2>1, <2>2, <2>3, <2>4, <2>5, <2>6, <2>7 DEF Review, Types, call, review, history
<1>3. ASSUME NEW p \in Processes, SkipBlank(p) PROVE Types'
  <2>1. /\ ok' \in [Processes -> BOOLEAN] /\ critical' \in [Processes -> BOOLEAN]
        /\ heard' \in [Processes -> [Agents -> AnswerKinds \cup {None}]] /\ trial' \in [Processes -> BOOLEAN]
        /\ pc' \in [Processes -> {"idle", "lookup", "allow", "call", "store", "parse"}]
        /\ agent' \in [Processes -> Agents] /\ outcome' \in [Processes -> Results \cup {None}]
    BY <1>3, ReturnTypes DEF SkipBlank, AnswerKinds
  <2>2. QED
    BY <1>3, <2>1 DEF SkipBlank, Types, call, review, history
<1>4. ASSUME NEW p \in Processes, CacheHit(p) PROVE Types'
  <2>1. pc' \in [Processes -> {"idle", "lookup", "allow", "call", "store", "parse"}]
    BY <1>4 DEF CacheHit, Set, Types
  <2>2. raw' \in [Processes -> AnswerKinds \cup {None}]
    BY <1>4, <1>a DEF CacheHit, Set, Types, Holding, Prompt
  <2>3. QED
    BY <1>4, <2>1, <2>2 DEF CacheHit, Types, call, review, history
<1>5. ASSUME NEW p \in Processes, CacheMiss(p) PROVE Types'
  <2>1. pc' \in [Processes -> {"idle", "lookup", "allow", "call", "store", "parse"}]
    BY <1>5 DEF CacheMiss, Set, Types
  <2>2. raw' \in [Processes -> AnswerKinds \cup {None}]
    BY <1>5 DEF CacheMiss, Set, Types
  <2>3. QED
    BY <1>5, <2>1, <2>2 DEF CacheMiss, Types, call, review, history
<1>6. ASSUME NEW p \in Processes, Refuse(p) PROVE Types'
  <2>1. /\ ok' \in [Processes -> BOOLEAN] /\ critical' \in [Processes -> BOOLEAN]
        /\ heard' \in [Processes -> [Agents -> AnswerKinds \cup {None}]] /\ trial' \in [Processes -> BOOLEAN]
        /\ pc' \in [Processes -> {"idle", "lookup", "allow", "call", "store", "parse"}]
        /\ agent' \in [Processes -> Agents] /\ outcome' \in [Processes -> Results \cup {None}]
    BY <1>6, ReturnTypes DEF Refuse
  <2>2. QED
    BY <1>6, <2>1 DEF Refuse, Types, call, review, history
<1>7. ASSUME NEW p \in Processes, Admit(p) PROVE Types'
  <2>1. breaker' \in [Processes -> Breakers]
    BY <1>7, BreakerTypes DEF Admit, Set, Types
  <2>2. trial' \in [Processes -> BOOLEAN]
    BY <1>7 DEF Admit, Set, Types
  <2>3. attempt' \in [Processes -> 1 .. MaxAttempts]
    BY <1>7, AttemptsAssumption DEF Admit, Set, Types
  <2>4. pc' \in [Processes -> {"idle", "lookup", "allow", "call", "store", "parse"}]
    BY <1>7 DEF Admit, Set, Types
  <2>5. QED
    BY <1>7, <2>1, <2>2, <2>3, <2>4 DEF Admit, Types, call, review, history
<1>8. ASSUME NEW p \in Processes, Retry(p) PROVE Types'
  <2>1. attempt' \in [Processes -> 1 .. MaxAttempts]
    BY <1>8, AttemptsAssumption DEF Retry, Set, Types
  <2>2. QED
    BY <1>8, <2>1 DEF Retry, Types, call, review, history
<1>9. ASSUME NEW p \in Processes, CallFails(p) PROVE Types'
  <2>1. /\ ok' \in [Processes -> BOOLEAN] /\ critical' \in [Processes -> BOOLEAN]
        /\ heard' \in [Processes -> [Agents -> AnswerKinds \cup {None}]] /\ trial' \in [Processes -> BOOLEAN]
        /\ pc' \in [Processes -> {"idle", "lookup", "allow", "call", "store", "parse"}]
        /\ agent' \in [Processes -> Agents] /\ outcome' \in [Processes -> Results \cup {None}]
    BY <1>9, ReturnTypes DEF CallFails
  <2>2. breaker' \in [Processes -> Breakers]
    BY <1>9, FailureTolerable DEF CallFails, Set, Types, LetDown
  <2>3. bad' \in [Processes -> Nat]
    BY <1>9 DEF CallFails, Set, Types, LetDown
  <2>4. QED
    BY <1>9, <2>1, <2>2, <2>3 DEF CallFails, Types, call, review, history
<1>10. ASSUME NEW p \in Processes, Answer(p) PROVE Types'
  <2>1. breaker' \in [Processes -> Breakers]
    BY <1>10, <1>b DEF Answer, Set, Types
  <2>2. raw' \in [Processes -> AnswerKinds \cup {None}]
    BY <1>10, AnswersAssumption DEF Answer, Set, Types
  <2>3. pc' \in [Processes -> {"idle", "lookup", "allow", "call", "store", "parse"}]
    BY <1>10 DEF Answer, Set, Types
  <2>4. bad' \in [Processes -> Nat]
    BY <1>10 DEF Answer, Set, Types
  <2>5. QED
    BY <1>10, <2>1, <2>2, <2>3, <2>4 DEF Answer, Types, call, review, history
<1>11. ASSUME NEW p \in Processes, Store(p) PROVE Types'
  <2>1. cache' \in [Files \X Agents -> AnswerKinds \cup {None}]
    BY <1>11, <1>a DEF Store, Set, Types, Holding, Prompt
  <2>2. pc' \in [Processes -> {"idle", "lookup", "allow", "call", "store", "parse"}]
    BY <1>11 DEF Store, Set, Types
  <2>3. QED
    BY <1>11, <2>1, <2>2 DEF Store, Types, call, review, history
<1>12. ASSUME NEW p \in Processes, StoreRaises(p) PROVE Types'
  <2>1. /\ ok' \in [Processes -> BOOLEAN] /\ critical' \in [Processes -> BOOLEAN]
        /\ heard' \in [Processes -> [Agents -> AnswerKinds \cup {None}]] /\ trial' \in [Processes -> BOOLEAN]
        /\ pc' \in [Processes -> {"idle", "lookup", "allow", "call", "store", "parse"}]
        /\ agent' \in [Processes -> Agents] /\ outcome' \in [Processes -> Results \cup {None}]
    BY <1>12, ReturnTypes DEF StoreRaises
  <2>2. bad' \in [Processes -> Nat]
    BY <1>12 DEF StoreRaises, Set, Types
  <2>3. QED
    BY <1>12, <2>1, <2>2 DEF StoreRaises, Types, call, review, history
<1>13. ASSUME NEW p \in Processes, ParseFails(p) PROVE Types'
  <2>1. /\ ok' \in [Processes -> BOOLEAN] /\ critical' \in [Processes -> BOOLEAN]
        /\ heard' \in [Processes -> [Agents -> AnswerKinds \cup {None}]] /\ trial' \in [Processes -> BOOLEAN]
        /\ pc' \in [Processes -> {"idle", "lookup", "allow", "call", "store", "parse"}]
        /\ agent' \in [Processes -> Agents] /\ outcome' \in [Processes -> Results \cup {None}]
    BY <1>13, ReturnTypes DEF ParseFails, AnswerKinds
  <2>2. breaker' \in [Processes -> Breakers]
    BY <1>13, FailureTolerable DEF ParseFails, Set, Types, LetDown
  <2>3. bad' \in [Processes -> Nat]
    BY <1>13 DEF ParseFails, Set, Types, LetDown
  <2>4. QED
    BY <1>13, <2>1, <2>2, <2>3 DEF ParseFails, Types, call, review, history
<1>14. ASSUME NEW p \in Processes, Parse(p) PROVE Types'
  <2>1. /\ ok' \in [Processes -> BOOLEAN] /\ critical' \in [Processes -> BOOLEAN]
        /\ heard' \in [Processes -> [Agents -> AnswerKinds \cup {None}]] /\ trial' \in [Processes -> BOOLEAN]
        /\ pc' \in [Processes -> {"idle", "lookup", "allow", "call", "store", "parse"}]
        /\ agent' \in [Processes -> Agents] /\ outcome' \in [Processes -> Results \cup {None}]
    <3>1. PICK came \in AnswerKinds \cup {None} : came = raw[p]
      BY DEF Types
    <3>2. Return(p, came, TRUE)
      BY <1>14, <3>1 DEF Parse, Return
    <3>3. QED
      BY <3>2, ReturnTypes
  <2>2. breaker' \in [Processes -> Breakers]
    BY <1>14, <1>b DEF Parse, Set, Types
  <2>3. bad' \in [Processes -> Nat]
    BY <1>14 DEF Parse, Set, Types
  <2>4. QED
    BY <1>14, <2>1, <2>2, <2>3 DEF Parse, Types, call, review, history
<1>15. ASSUME NEW p \in Processes, ParseRaises(p) PROVE Types'
  <2>1. breaker' \in [Processes -> Breakers]
    BY <1>15, <1>b DEF ParseRaises, Set, Types
  <2>2. pc' \in [Processes -> {"idle", "lookup", "allow", "call", "store", "parse"}]
    BY <1>15 DEF ParseRaises, Set, Types
  <2>3. trial' \in [Processes -> BOOLEAN] /\ bad' \in [Processes -> Nat]
    BY <1>15 DEF ParseRaises, Set, Types
  <2>4. QED
    BY <1>15, <2>1, <2>2, <2>3 DEF ParseRaises, Types, call, review
<1>16. ASSUME Tick PROVE Types'
  <2>1. breaker' \in [Processes -> Breakers]
    BY <1>16, BreakerTypes DEF Tick, Types
  <2>2. QED
    BY <1>16, <2>1 DEF Tick, Types, call, review, history
<1>17. CASE UNCHANGED vars
  BY <1>17 DEF vars, Types, call, review, history
<1>18. QED
  BY <1>1, <1>2, <1>3, <1>4, <1>5, <1>6, <1>7, <1>8, <1>9, <1>10, <1>11, <1>12, <1>13, <1>14,
     <1>15, <1>16, <1>17, Zenon DEF Next, Work

\* What a step of one process leaves alone of the others, and what the return
\* of an agent does to its own process.
LEMMA ReturnEffect ==
    ASSUME Types, NEW p \in Processes, NEW came, NEW succeeded, Return(p, came, succeeded)
    PROVE  /\ pc'[p] \in {"idle", "lookup"}
           /\ \A q \in Processes \ {p} :
                 /\ pc'[q] = pc[q] /\ agent'[q] = agent[q] /\ outcome'[q] = outcome[q]
                 /\ heard'[q] = heard[q] /\ trial'[q] = trial[q]
  BY DEF Return, Set, Types

\* The steps in which an agent returns.
Returning(p) ==
    SkipBlank(p) \/ Refuse(p) \/ CallFails(p) \/ StoreRaises(p) \/ ParseFails(p) \/ Parse(p)

\* A process that returns from an agent of its own does nothing to the others.
LEMMA Returns ==
    ASSUME Types, NEW p \in Processes, Returning(p)
    PROVE  \E came \in AnswerKinds \cup {None}, succeeded \in BOOLEAN :
              Return(p, came, succeeded) /\ (succeeded => came \in Usable)
<1>1. CASE SkipBlank(p) \/ Refuse(p) \/ CallFails(p) \/ StoreRaises(p) \/ ParseFails(p)
  BY <1>1 DEF SkipBlank, Refuse, CallFails, StoreRaises, ParseFails, Usable, AnswerKinds
<1>2. CASE Parse(p)
  <2>1. PICK came \in Usable : came = raw[p]
    BY <1>2 DEF Parse
  <2>2. Return(p, came, TRUE) /\ came \in AnswerKinds \cup {None}
    BY <1>2, <2>1 DEF Parse, Return, Usable, AnswerKinds
  <2>3. QED
    BY <2>1, <2>2
<1>3. QED
  BY <1>1, <1>2 DEF Returning

\* A process that is in a review keeps its file, and one that stores keeps the
\* answer it stores.
LEMMA HoldingStep == TypeOK /\ [Next]_vars => Holding'
<1> SUFFICES ASSUME TypeOK, [Next]_vars PROVE Holding'
  OBVIOUS
<1>a. Types /\ Holding
  BY TypeParts
<1> USE <1>a DEF Set, Types, Holding
<1>1. ASSUME NEW p \in Processes, NEW f \in Files, ReviewFails(p, f) \/ Review(p, f)
      PROVE  Holding'
  BY <1>1 DEF ReviewFails, Review
<1>2. ASSUME NEW p \in Processes, UNCHANGED <<file, raw>>, pc'[p] \in {"idle", "lookup"},
             \A q \in Processes \ {p} : pc'[q] = pc[q], pc[p] # "idle"
      PROVE  Holding'
  BY <1>2
<1>3. ASSUME NEW p \in Processes, Returning(p) PROVE Holding'
  <2>1. UNCHANGED <<file, raw>> /\ pc[p] # "idle"
    BY <1>3 DEF Returning, SkipBlank, Refuse, CallFails, StoreRaises, ParseFails, Parse
  <2>2. pc'[p] \in {"idle", "lookup"} /\ \A q \in Processes \ {p} : pc'[q] = pc[q]
    BY <1>3, Returns, ReturnEffect
  <2>3. QED
    BY <1>2, <2>1, <2>2
<1>4. ASSUME NEW p \in Processes, CacheHit(p) \/ CacheMiss(p) \/ Admit(p) \/ Retry(p) \/ Store(p)
      PROVE  Holding'
  BY <1>4 DEF CacheHit, CacheMiss, Admit, Retry, Store, call
<1>5. ASSUME NEW p \in Processes, Answer(p) PROVE Holding'
  BY <1>5, AnswersAssumption DEF Answer
<1>6. ASSUME NEW p \in Processes, ParseRaises(p) PROVE Holding'
  BY <1>6 DEF ParseRaises, call
<1>7. CASE Tick \/ UNCHANGED vars
  BY <1>7 DEF Tick, vars, call
<1>8. QED
  BY <1>1, <1>3, <1>4, <1>5, <1>6, <1>7, Zenon DEF Next, Work, Returning

-----------------------------------------------------------------------------
(* The breaker.                                                            *)

\* TripsInTime, named as the lemmas on windows name it.
LEMMA CalmIsTripsInTime == Calm <=> TripsInTime
  BY DEF Calm, Tolerable, TripsInTime

\* No step takes a window past what the breaker tolerates.
LEMMA CalmStep == TypeOK /\ Calm /\ [Next]_vars => Calm'
<1> SUFFICES ASSUME TypeOK, Calm, [Next]_vars PROVE Calm'
  OBVIOUS
<1>a. breaker \in [Processes -> Breakers]
  BY DEF TypeOK
<1>1. ASSUME NEW p \in Processes, NEW b, Tolerable(b.window), breaker' = [breaker EXCEPT ![p] = b]
      PROVE  Calm'
  BY <1>a, <1>1 DEF Calm, Tolerable
<1>2. ASSUME NEW p \in Processes, CallFails(p) \/ ParseFails(p) PROVE Calm'
  <2>1. breaker' = [breaker EXCEPT ![p] = RecordFailure(breaker[p])]
    BY <1>2 DEF CallFails, ParseFails, LetDown, Set
  <2>2. QED
    BY <1>a, <1>1, <2>1, FailureTolerable
<1>3. ASSUME NEW p \in Processes, Answer(p) \/ Parse(p) \/ ParseRaises(p) PROVE Calm'
  <2>1. breaker' = [breaker EXCEPT ![p] = RecordSuccess(breaker[p])]
    BY <1>3 DEF Answer, Parse, ParseRaises, Set
  <2>2. QED
    BY <1>a, <1>1, <2>1, SuccessTolerable DEF Calm
<1>4. ASSUME NEW p \in Processes, Admit(p) PROVE Calm'
  <2>1. breaker' = [breaker EXCEPT ![p] = Allowed(breaker[p])]
    BY <1>4 DEF Admit, Set
  <2>2. QED
    BY <1>a, <1>1, <2>1, BreakerTypes DEF Calm
<1>5. CASE Tick
  BY <1>a, <1>5, BreakerTypes DEF Tick, Calm, Tolerable
<1>6. CASE UNCHANGED breaker
  BY <1>6 DEF Calm, Tolerable
<1>7. QED
  BY <1>2, <1>3, <1>4, <1>5, <1>6 DEF Next, Work, ReviewFails, Review, SkipBlank, CacheHit,
     CacheMiss, Refuse, Retry, Store, StoreRaises, vars

\* The two depend on each other: together they are inductive.
LEMMA TypeStep == TypeOK /\ Calm /\ [Next]_vars => TypeOK' /\ Calm'
  BY TypesStep, HoldingStep, CalmStep DEF Types, Holding, TypeOK

\* Every variable keeps to its type in every reachable state.
THEOREM TypeCorrect == Spec => []TypeOK
  BY TypeInit, TypeStep, PTL DEF Spec

\* No breaker ever holds on to as many failures as the threshold allows a full
\* window.
THEOREM BreakerTripsInTime == Spec => []TripsInTime
  BY TypeInit, TypeStep, CalmIsTripsInTime, PTL DEF Spec

\* At first no breaker is half open and no call is under way.
LEMMA TrialInit == Init => TrialInFlight
  BY DEF Init, TrialInFlight, Fresh

\* The breaker that admitted a call judges it.
LEMMA TrialStep == TypeOK /\ TrialInFlight /\ [Next]_vars => TrialInFlight'
<1> SUFFICES ASSUME TypeOK, TrialInFlight, [Next]_vars PROVE TrialInFlight'
  OBVIOUS
<1>a. Types
  BY TypeParts
<1> USE <1>a DEF Set, TrialInFlight
<1>1. ASSUME NEW p \in Processes, NEW f \in Files, ReviewFails(p, f) \/ Review(p, f)
      PROVE  TrialInFlight'
  BY <1>1 DEF ReviewFails, Review, Types, history
<1>2. ASSUME NEW p \in Processes, pc'[p] # "call", breaker'[p].state # "half_open",
             \A q \in Processes \ {p} : pc'[q] = pc[q] /\ trial'[q] = trial[q]
                                        /\ breaker'[q] = breaker[q]
      PROVE  TrialInFlight'
  BY <1>2
<1>3. ASSUME NEW p \in Processes,
             CacheHit(p) \/ CacheMiss(p) \/ Store(p) \/ Answer(p) \/ ParseRaises(p)
      PROVE  TrialInFlight'
  <2>1. pc'[p] # "call" /\ breaker'[p].state # "half_open"
    BY <1>3 DEF CacheHit, CacheMiss, Store, Answer, ParseRaises, RecordSuccess, Types
  <2>2. \A q \in Processes \ {p} : /\ pc'[q] = pc[q] /\ trial'[q] = trial[q]
                                   /\ breaker'[q] = breaker[q]
    BY <1>3 DEF CacheHit, CacheMiss, Store, Answer, ParseRaises, Types, history
  <2>3. QED
    BY <1>2, <2>1, <2>2
<1>4. ASSUME NEW p \in Processes, Returning(p) PROVE TrialInFlight'
  <2>1. pc'[p] # "call" /\ \A q \in Processes \ {p} : pc'[q] = pc[q] /\ trial'[q] = trial[q]
    BY <1>4, Returns, ReturnEffect
  <2>2. \/ pc[p] # "call" /\ UNCHANGED breaker
        \/ pc[p] = "parse" /\ breaker' = [breaker EXCEPT ![p] = RecordSuccess(breaker[p])]
        \/ breaker' = [breaker EXCEPT ![p] = RecordFailure(breaker[p])]
    BY <1>4 DEF Returning, SkipBlank, Refuse, CallFails, StoreRaises, ParseFails, Parse, LetDown
  <2>3. \A q \in Processes \ {p} : breaker'[q] = breaker[q]
    BY <2>2 DEF Types
  <2>4. breaker'[p].state # "half_open"
    <3>1. CASE pc[p] # "call" /\ UNCHANGED breaker
      BY <3>1
    <3>2. CASE pc[p] = "parse" /\ breaker' = [breaker EXCEPT ![p] = RecordSuccess(breaker[p])]
      BY <3>2 DEF RecordSuccess, Types
    <3>3. CASE breaker' = [breaker EXCEPT ![p] = RecordFailure(breaker[p])]
      BY <3>3 DEF RecordFailure, Opened, Types
    <3>4. QED
      BY <2>2, <3>1, <3>2, <3>3
  <2>5. QED
    BY <1>2, <2>1, <2>3, <2>4
<1>5. ASSUME NEW p \in Processes, Admit(p) PROVE TrialInFlight'
  <2>1. breaker[p].state \in {"open", "closed"}
    BY <1>5 DEF Admit, Types, Breakers, CircuitState
  <2>2. /\ pc'[p] = "call"
        /\ breaker[p].state = "open" => breaker'[p].state = "half_open" /\ trial'[p]
        /\ breaker[p].state = "closed" => breaker'[p].state = "closed" /\ ~trial'[p]
    BY <1>5 DEF Admit, Allowed, Types
  <2>3. \A q \in Processes \ {p} : /\ pc'[q] = pc[q] /\ trial'[q] = trial[q]
                                   /\ breaker'[q] = breaker[q]
    BY <1>5 DEF Admit, Types
  <2>4. QED
    BY <2>1, <2>2, <2>3
<1>6. ASSUME Tick PROVE TrialInFlight'
  BY <1>6, BreakerTypes DEF Tick, history, Types
<1>7. ASSUME NEW p \in Processes, Retry(p) PROVE TrialInFlight'
  BY <1>7 DEF Retry, history
<1>8. CASE UNCHANGED vars
  BY <1>8 DEF vars, history
<1>9. QED
  BY <1>1, <1>3, <1>4, <1>5, <1>6, <1>7, <1>8, Zenon DEF Next, Work, Returning

\* A call is judged by the breaker that admitted it.
THEOREM TrialIsInFlight == Spec => []TrialInFlight
  BY TypeInit, TypeStep, TrialInit, TrialStep, PTL DEF Spec

-----------------------------------------------------------------------------
(* The trial and what follows from it.                                     *)

\* A trial is a call under way, or one that has been answered and has closed the
\* breaker; and nobody holds an answer before the provider has given one.
TrialOn ==
    \A p \in Processes :
        /\ trial[p] => pc[p] \in {"call", "store", "parse"}
        /\ trial[p] /\ pc[p] # "call" => breaker[p].state = "closed" /\ raw[p] # None
        /\ pc[p] \in {"allow", "call"} => raw[p] = None

\* At first there is no trial.
LEMMA TrialOnInit == Init => TrialOn
  BY DEF Init, TrialOn

\* A trial is over when its agent returns.
LEMMA ReturnEndsTrial ==
    ASSUME Types, NEW p \in Processes, Returning(p)
    PROVE  /\ ~trial'[p] /\ pc'[p] \in {"idle", "lookup"} /\ UNCHANGED raw
           /\ \A q \in Processes \ {p} : /\ pc'[q] = pc[q] /\ trial'[q] = trial[q]
                                         /\ breaker'[q] = breaker[q]
<1>1. PICK came \in AnswerKinds \cup {None}, succeeded \in BOOLEAN : Return(p, came, succeeded)
  BY Returns
<1>2. ~trial'[p]
  BY <1>1 DEF Return, Set, Types
<1>3. pc'[p] \in {"idle", "lookup"} /\ \A q \in Processes \ {p} : pc'[q] = pc[q] /\ trial'[q] = trial[q]
  BY <1>1, ReturnEffect
<1>4. UNCHANGED raw /\ \A q \in Processes \ {p} : breaker'[q] = breaker[q]
  BY DEF Returning, SkipBlank, Refuse, CallFails, StoreRaises, ParseFails, Parse, LetDown, Set,
     Types
<1>5. QED
  BY <1>2, <1>3, <1>4

\* Every step keeps the trial where it is, or ends it.
LEMMA TrialOnStep == TypeOK /\ TrialInFlight /\ TrialOn /\ [Next]_vars => TrialOn'
<1> SUFFICES ASSUME TypeOK, TrialInFlight, TrialOn, [Next]_vars PROVE TrialOn'
  OBVIOUS
<1>a. Types
  BY TypeParts
<1> USE <1>a DEF Set
<1>1. ASSUME NEW p \in Processes, NEW f \in Files, ReviewFails(p, f) \/ Review(p, f)
      PROVE  TrialOn'
  BY <1>1 DEF ReviewFails, Review, TrialOn, Types, history
<1>2. ASSUME NEW p \in Processes, Returning(p) PROVE TrialOn'
  BY <1>2, ReturnEndsTrial DEF TrialOn
<1>3. ASSUME NEW p \in Processes, CacheHit(p) \/ CacheMiss(p) \/ Retry(p) \/ Store(p)
      PROVE  TrialOn'
  BY <1>3 DEF CacheHit, CacheMiss, Retry, Store, TrialOn, Types, history, call
<1>4. ASSUME NEW p \in Processes, Admit(p) PROVE TrialOn'
  BY <1>4 DEF Admit, TrialOn, Types
<1>5. ASSUME NEW p \in Processes, Answer(p) PROVE TrialOn'
  <2>1. PICK a \in Answers : raw' = [raw EXCEPT ![p] = a]
    BY <1>5 DEF Answer
  <2>2. raw'[p] # None /\ \A q \in Processes \ {p} : raw'[q] = raw[q]
    BY <2>1, AnswersAssumption, NoneAssumption DEF Types
  <2>3. pc[p] = "call" /\ pc'[p] = "store" /\ trial' = trial
        /\ breaker'[p] = RecordSuccess(breaker[p])
        /\ \A q \in Processes \ {p} : pc'[q] = pc[q] /\ breaker'[q] = breaker[q]
    BY <1>5 DEF Answer, Types
  <2>4. trial[p] => breaker'[p].state = "closed"
    BY <2>3 DEF TrialInFlight, RecordSuccess
  <2>5. QED
    BY <2>2, <2>3, <2>4 DEF TrialOn
<1>6. ASSUME NEW p \in Processes, ParseRaises(p) PROVE TrialOn'
  BY <1>6 DEF ParseRaises, TrialOn, Types, call
<1>7. ASSUME Tick PROVE TrialOn'
  <2>1. \A p \in Processes : breaker'[p].state = breaker[p].state
    BY <1>7, BreakerTypes DEF Tick, Types
  <2>2. UNCHANGED <<pc, raw, trial>>
    BY <1>7 DEF Tick, call, history
  <2>3. QED
    BY <2>1, <2>2 DEF TrialOn
<1>8. CASE UNCHANGED vars
  BY <1>8 DEF vars, call, history, TrialOn
<1>9. QED
  BY <1>1, <1>2, <1>3, <1>4, <1>5, <1>6, <1>7, <1>8, Zenon DEF Next, Work, Returning

\* The step that ends a trial leaves the breaker as the trial has decided.
Decided ==
    \A p \in Processes : trial[p] /\ ~trial'[p] /\ raw[p] # "garbage" =>
        breaker'[p].state = IF raw[p] = None THEN "open" ELSE "closed"

\* The trial ends when the call fails, when its answer cannot be stored and when
\* the answer has been parsed.
LEMMA DecidedStep == TypeOK /\ TrialInFlight /\ TrialOn /\ [Next]_vars => Decided
<1> SUFFICES ASSUME TypeOK, TrialInFlight, TrialOn, [Next]_vars, NEW p \in Processes,
                    trial[p], ~trial'[p], raw[p] # "garbage"
             PROVE  breaker'[p].state = IF raw[p] = None THEN "open" ELSE "closed"
  BY DEF Decided
<1>a. Types
  BY TypeParts
<1> DEFINE Goal == breaker'[p].state = IF raw[p] = None THEN "open" ELSE "closed"
<1> USE <1>a DEF Set
<1>b. pc[p] \in {"call", "store", "parse"}
  BY DEF TrialOn
<1>1. ASSUME NEW q \in Processes, Returning(q) PROVE Goal
  <2>1. q = p
    BY <1>1, ReturnEndsTrial
  <2>2. CASE CallFails(p)
    <3>1. breaker[p].state = "half_open" /\ raw[p] = None
      BY <2>2 DEF CallFails, TrialInFlight, TrialOn
    <3>2. breaker'[p] = Opened
      BY <2>2, <3>1 DEF CallFails, LetDown, RecordFailure, Types
    <3>3. QED
      BY <3>1, <3>2 DEF Opened
  <2>3. CASE StoreRaises(p) \/ Parse(p)
    <3>1. breaker[p].state = "closed" /\ raw[p] # None
      BY <2>3 DEF StoreRaises, Parse, TrialOn
    <3>2. breaker'[p] \in {breaker[p], RecordSuccess(breaker[p])}
      BY <2>3 DEF StoreRaises, Parse, Types
    <3>3. QED
      BY <3>1, <3>2 DEF RecordSuccess
  <2>4. CASE SkipBlank(p) \/ Refuse(p) \/ ParseFails(p)
    BY <1>b, <2>4 DEF SkipBlank, Refuse, ParseFails
  <2>5. QED
    BY <1>1, <2>1, <2>2, <2>3, <2>4 DEF Returning
<1>2. ASSUME NEW q \in Processes, ParseRaises(q) PROVE Goal
  <2>1. q = p
    BY <1>2 DEF ParseRaises, Types
  <2>2. breaker[p].state = "closed" /\ raw[p] # None
    BY <1>2, <2>1 DEF ParseRaises, TrialOn
  <2>3. breaker'[p] = RecordSuccess(breaker[p])
    BY <1>2, <2>1 DEF ParseRaises, Types
  <2>4. QED
    BY <2>2, <2>3 DEF RecordSuccess
<1>3. ASSUME NEW q \in Processes, Admit(q) PROVE Goal
  <2>1. q = p
    BY <1>3 DEF Admit, Types
  <2>2. QED
    BY <1>3, <1>b, <2>1 DEF Admit
<1>4. CASE trial' = trial
  BY <1>4
<1>5. QED
  BY <1>1, <1>2, <1>3, <1>4 DEF Next, Work, Returning, ReviewFails, Review, CacheHit, CacheMiss,
     Retry, Answer, Store, Tick, history, vars

\* The trial of a half-open breaker decides what becomes of it, unless its answer
\* does not parse.
THEOREM TrialIsDecisive == Spec => TrialDecides
<1>1. TypeOK /\ TrialInFlight /\ TrialOn /\ [Next]_vars => TrialOn'
  BY TrialOnStep
<1>2. TypeOK /\ TrialInFlight /\ TrialOn /\ [Next]_vars => Decided
  BY DecidedStep
<1>3. Spec => [][Decided]_vars
  BY <1>1, <1>2, TrialOnInit, TypeCorrect, TrialIsInFlight, PTL DEF Spec
<1>4. QED
  BY <1>3 DEF TrialDecides, Decided

-----------------------------------------------------------------------------
(* Drift.                                                                  *)

\* A full window has room for as many failures as trip the breaker, each with the
\* success before it that the same call was first taken for.  The defaults meet
\* this with equality.
Roomy ==
    \E k \in Nat : 2 * k <= WindowSize /\ ThresholdNum * WindowSize <= k * ThresholdDen

\* The success on record of a call whose answer has not been parsed.
Ahead(p) == IF pc[p] \in {"store", "parse"} THEN 1 ELSE 0

\* Each useless call in a row has left a failure, and at most a success with it.
Drift ==
    \A p \in Processes : RecentFailures(breaker[p].window, 2 * bad[p] + Ahead(p)) >= bad[p]

\* A count of failures is not negative.
LEMMA NothingBad ==
    ASSUME NEW w \in Windows, NEW n \in Nat
    PROVE  RecentFailures(w, n) >= 0
  BY RecentType DEF Windows

\* At first no call has been useless.
LEMMA DriftInit == Init => Drift /\ DriftTrips
<1> SUFFICES ASSUME Init PROVE Drift /\ DriftTrips
  OBVIOUS
<1>1. \A p \in Processes : bad[p] = 0 /\ breaker[p].window \in Windows /\ Ahead(p) = 0
  BY FreshType DEF Init, Breakers, Ahead
<1>2. Drift
  BY <1>1, NothingBad DEF Drift
<1>3. DriftTrips
  <2>1. 0 * ThresholdDen = 0 /\ 0 < ThresholdNum * WindowSize
    BY BreakerAssumption, SomeTolerance
  <2>2. QED
    BY <1>1, <2>1 DEF DriftTrips
<1>4. QED
  BY <1>2, <1>3

\* As long as the drift has not gone too far, its calls do not fill the window.
LEMMA DriftFits ==
    ASSUME Roomy, TypeOK, DriftTrips, NEW p \in Processes
    PROVE  2 * bad[p] + 2 <= WindowSize
<1>1. bad[p] \in Nat /\ bad[p] * ThresholdDen < ThresholdNum * WindowSize
  BY DEF TypeOK, DriftTrips
<1>2. PICK k \in Nat : 2 * k <= WindowSize /\ ThresholdNum * WindowSize <= k * ThresholdDen
  BY DEF Roomy
<1>3. bad[p] < k
  <2>1. CASE k <= bad[p]
    <3>1. k * ThresholdDen <= bad[p] * ThresholdDen
      BY <1>1, <2>1, Monotone, BreakerAssumption
    <3>2. /\ k * ThresholdDen \in Nat /\ bad[p] * ThresholdDen \in Nat
          /\ ThresholdNum * WindowSize \in Nat
      BY <1>1, BreakerAssumption
    <3>3. QED
      BY <1>1, <1>2, <3>1, <3>2
  <2>2. QED
    BY <1>1, <2>1
<1>4. QED
  BY <1>1, <1>2, <1>3, BreakerAssumption

\* A step after which the process has no useless calls in a row.
LEMMA DriftReset ==
    ASSUME TypeOK', NEW p \in Processes, bad'[p] = 0
    PROVE  RecentFailures(breaker[p].window, 2 * bad[p] + Ahead(p))' >= bad'[p]
<1>1. breaker'[p].window \in Windows /\ (2 * bad[p] + Ahead(p))' \in Nat
  BY DEF TypeOK, Breakers, Ahead
<1>2. RecentFailures(breaker'[p].window, (2 * bad[p] + Ahead(p))') >= 0
  BY <1>1, NothingBad
<1>3. QED
  BY <1>2

\* A useless call that does not trip the breaker leaves a failure.
LEMMA DriftLetDown ==
    ASSUME Roomy, TypeOK, TypeOK', DriftTrips, Drift, NEW p \in Processes,
           LetDown(p, RecordFailure(breaker[p])), pc'[p] \in {"idle", "lookup"}
    PROVE  RecentFailures(breaker[p].window, 2 * bad[p] + Ahead(p))' >= bad'[p]
<1> DEFINE w == breaker[p].window
           s == Slide(w, "failure")
           n == 2 * bad[p] + Ahead(p)
<1>1. w \in Windows /\ bad[p] \in Nat /\ Ahead(p) \in {0, 1} /\ n \in Nat
  BY DEF TypeOK, Breakers, Ahead
<1>2. CASE RecordFailure(breaker[p]) = Opened
  <2>1. bad'[p] = 0
    BY <1>2 DEF LetDown, Set, TypeOK
  <2>2. QED
    BY <2>1, DriftReset
<1>3. CASE RecordFailure(breaker[p]) # Opened
  <2>1. breaker'[p].window = s /\ bad'[p] = bad[p] + 1 /\ Ahead(p)' = 0
    BY <1>3 DEF LetDown, Set, TypeOK, RecordFailure, Ahead
  <2>2. n < WindowSize
    BY <1>1, DriftFits, BreakerAssumption
  <2>3. RecentFailures(s, n + 1) >= RecentFailures(w, n) + 1
    BY <1>1, <2>2, RecentSlide DEF CallOutcomes
  <2>4. RecentFailures(w, n) >= bad[p]
    BY DEF Drift
  <2>5. s \in Seq(CallOutcomes)
    BY <1>1, SlideType DEF CallOutcomes, Windows
  <2>6. /\ RecentFailures(s, n + 1) \in Nat /\ RecentFailures(s, (n + 1) + 1) \in Nat
        /\ RecentFailures(s, n + 1) <= RecentFailures(s, (n + 1) + 1)
        /\ RecentFailures(w, n) \in Nat
    <3> HIDE DEF n, w, s
    <3>1. n + 1 \in Nat /\ (n + 1) + 1 \in Nat /\ w \in Seq(CallOutcomes)
      BY <1>1 DEF Windows
    <3>2. QED
      BY <1>1, <2>5, <3>1, RecentType
  <2>7. RecentFailures(s, 2 * bad[p] + 2) >= bad[p] + 1
    <3>1. CASE Ahead(p) = 1
      <4>1. n + 1 = 2 * bad[p] + 2
        BY <1>1, <3>1
      <4> HIDE DEF n, w, s
      <4>2. QED
        BY <1>1, <2>3, <2>4, <2>6, <4>1
    <3>2. CASE Ahead(p) = 0
      <4>1. (n + 1) + 1 = 2 * bad[p] + 2
        BY <1>1, <3>2
      <4> HIDE DEF n, w, s
      <4>2. QED
        BY <1>1, <2>3, <2>4, <2>6, <4>1
    <3>3. QED
      BY <1>1, <3>1, <3>2
  <2>8. (2 * bad[p] + Ahead(p))' = 2 * bad[p] + 2
    BY <1>1, <2>1
  <2>9. QED
    BY <2>1, <2>7, <2>8
<1>4. QED
  BY <1>2, <1>3

\* Every step keeps the failures of the drift in the window.
LEMMA DriftStep ==
    Roomy /\ TypeOK /\ TypeOK' /\ TrialInFlight /\ DriftTrips /\ Drift /\ [Next]_vars => Drift'
<1> SUFFICES ASSUME Roomy, TypeOK, TypeOK', TrialInFlight, DriftTrips, Drift, [Next]_vars
             PROVE  Drift'
  OBVIOUS
<1> DEFINE Kept(p) == RecentFailures(breaker[p].window, 2 * bad[p] + Ahead(p))' >= bad'[p]
<1>a. Types
  BY TypeParts
<1>b. ASSUME NEW p \in Processes, breaker'[p].window = breaker[p].window, bad'[p] = bad[p],
             Ahead(p)' = Ahead(p)
      PROVE  Kept(p)
  BY <1>b DEF Drift
<1>c. ASSUME NEW p \in Processes, breaker'[p] = breaker[p], bad'[p] = bad[p], pc'[p] = pc[p]
      PROVE  Kept(p)
  BY <1>b, <1>c DEF Ahead
<1>d. ASSUME NEW p \in Processes, Kept(p),
             \A q \in Processes \ {p} : breaker'[q] = breaker[q] /\ bad'[q] = bad[q] /\ pc'[q] = pc[q]
      PROVE  Drift'
  <2>1. ASSUME NEW q \in Processes PROVE Kept(q)
    BY <1>c, <1>d
  <2>2. QED
    BY <2>1 DEF Drift
<1> USE <1>a DEF Set
<1>1. ASSUME NEW p \in Processes, NEW f \in Files, ReviewFails(p, f) \/ Review(p, f)
      PROVE  Drift'
  <2>1. \A q \in Processes : breaker'[q] = breaker[q] /\ bad'[q] = bad[q] /\ Ahead(q)' = Ahead(q)
    BY <1>1 DEF ReviewFails, Review, history, Ahead, Types
  <2>2. QED
    BY <1>b, <2>1 DEF Drift
<1>2. ASSUME NEW p \in Processes, Returning(p) PROVE Drift'
  <2>1. /\ pc'[p] \in {"idle", "lookup"}
        /\ \A q \in Processes \ {p} : pc'[q] = pc[q] /\ breaker'[q] = breaker[q]
    BY <1>2, ReturnEndsTrial
  <2>2. \A q \in Processes \ {p} : bad'[q] = bad[q]
    BY <1>2 DEF Returning, SkipBlank, Refuse, CallFails, StoreRaises, ParseFails, Parse, LetDown,
       Types
  <2>3. Kept(p)
    <3>1. CASE SkipBlank(p) \/ Refuse(p)
      <4>1. pc[p] \in {"lookup", "allow"} /\ breaker' = breaker /\ bad' = bad
        BY <3>1 DEF SkipBlank, Refuse
      <4>2. QED
        BY <1>b, <2>1, <4>1 DEF Ahead
    <3>2. CASE CallFails(p) \/ ParseFails(p)
      BY <2>1, <3>2, DriftLetDown DEF CallFails, ParseFails
    <3>3. CASE StoreRaises(p) \/ Parse(p)
      <4>1. bad'[p] = 0
        BY <3>3 DEF StoreRaises, Parse, Types
      <4>2. QED
        BY <4>1, DriftReset
    <3>4. QED
      BY <1>2, <3>1, <3>2, <3>3 DEF Returning
  <2>4. QED
    BY <1>d, <2>1, <2>2, <2>3
<1>3. ASSUME NEW p \in Processes, CacheMiss(p) \/ Retry(p) \/ Store(p) \/ Admit(p) PROVE Drift'
  <2>1. \A q \in Processes : /\ breaker'[q].window = breaker[q].window /\ bad'[q] = bad[q]
                             /\ Ahead(q)' = Ahead(q)
    BY <1>3, BreakerTypes DEF CacheMiss, Retry, Store, Admit, history, Ahead, Types
  <2>2. QED
    BY <1>b, <2>1 DEF Drift
<1>4. ASSUME NEW p \in Processes, CacheHit(p) PROVE Drift'
  <2>1. /\ Ahead(p) = 0 /\ Ahead(p)' = 1 /\ breaker'[p].window = breaker[p].window
        /\ bad'[p] = bad[p] /\ bad[p] \in Nat
        /\ \A q \in Processes \ {p} : pc'[q] = pc[q] /\ breaker'[q] = breaker[q] /\ bad'[q] = bad[q]
    BY <1>4 DEF CacheHit, history, Ahead, Types
  <2>2. /\ RecentFailures(breaker[p].window, 2 * bad[p]) \in Nat
        /\ RecentFailures(breaker[p].window, 2 * bad[p] + 1) \in Nat
        /\ RecentFailures(breaker[p].window, 2 * bad[p])
              <= RecentFailures(breaker[p].window, 2 * bad[p] + 1)
    <3>1. breaker[p].window \in Seq(CallOutcomes) /\ 2 * bad[p] \in Nat /\ 2 * bad[p] + 1 \in Nat
      BY <2>1 DEF Types, Breakers, Windows
    <3>2. QED
      BY <3>1, RecentType
  <2>3. RecentFailures(breaker[p].window, 2 * bad[p]) >= bad[p]
    BY <2>1 DEF Drift
  <2>4. Kept(p)
    BY <2>1, <2>2, <2>3
  <2>5. QED
    BY <1>d, <2>1, <2>4
<1>5. ASSUME NEW p \in Processes, Answer(p) PROVE Drift'
  <2>1. /\ pc[p] = "call" /\ pc'[p] = "store" /\ breaker'[p] = RecordSuccess(breaker[p])
        /\ bad'[p] = IF trial[p] THEN 0 ELSE bad[p]
        /\ \A q \in Processes \ {p} : pc'[q] = pc[q] /\ breaker'[q] = breaker[q] /\ bad'[q] = bad[q]
    BY <1>5 DEF Answer, Types
  <2>2. CASE trial[p]
    BY <1>d, <2>1, <2>2, DriftReset
  <2>3. CASE ~trial[p]
    <3> DEFINE w == breaker[p].window
               s == Slide(w, "success")
    <3>1. w \in Windows /\ bad[p] \in Nat /\ 2 * bad[p] \in Nat
      BY DEF Types, Breakers
    <3>2. breaker'[p].window = s
      BY <2>1, <2>3 DEF TrialInFlight, RecordSuccess
    <3>3. 2 * bad[p] < WindowSize
      BY <3>1, DriftFits, BreakerAssumption
    <3>4. RecentFailures(s, 2 * bad[p] + 1) >= RecentFailures(w, 2 * bad[p])
      BY <3>1, <3>3, RecentSlide DEF CallOutcomes
    <3>5. RecentFailures(w, 2 * bad[p]) >= bad[p]
      <4>1. 2 * bad[p] + Ahead(p) = 2 * bad[p]
        BY <2>1, <3>1 DEF Ahead
      <4>2. QED
        BY <4>1 DEF Drift
    <3>6. RecentFailures(s, 2 * bad[p] + 1) \in Nat /\ RecentFailures(w, 2 * bad[p]) \in Nat
      <4>1. s \in Seq(CallOutcomes) /\ w \in Seq(CallOutcomes)
        BY <3>1, SlideType DEF CallOutcomes, Windows
      <4>2. 2 * bad[p] + 1 \in Nat
        BY <3>1
      <4> HIDE DEF w, s
      <4>3. QED
        BY <3>1, <4>1, <4>2, RecentType
    <3>7. (2 * bad[p] + Ahead(p))' = 2 * bad[p] + 1
      BY <2>1, <2>3 DEF Ahead
    <3>8. Kept(p)
      <4> HIDE DEF w, s
      <4>1. QED
        BY <2>1, <2>3, <3>1, <3>2, <3>4, <3>5, <3>6, <3>7
    <3>9. QED
      BY <1>d, <2>1, <3>8
  <2>4. QED
    BY <2>2, <2>3
<1>6. ASSUME NEW p \in Processes, ParseRaises(p) PROVE Drift'
  <2>1. /\ bad'[p] = 0
        /\ \A q \in Processes \ {p} : pc'[q] = pc[q] /\ breaker'[q] = breaker[q] /\ bad'[q] = bad[q]
    BY <1>6 DEF ParseRaises, Types
  <2>2. QED
    BY <1>d, <2>1, DriftReset
<1>7. CASE Tick
  <2>1. \A q \in Processes : /\ breaker'[q].window = breaker[q].window /\ bad'[q] = bad[q]
                             /\ Ahead(q)' = Ahead(q)
    BY <1>7, BreakerTypes DEF Tick, history, Ahead, Types
  <2>2. QED
    BY <1>b, <2>1 DEF Drift
<1>8. CASE UNCHANGED vars
  BY <1>8, <1>c DEF vars, history, Drift
<1>9. QED
  BY <1>1, <1>2, <1>3, <1>4, <1>5, <1>6, <1>7, <1>8, Zenon DEF Next, Work, Returning

\* With its failures in a tolerable window, the drift has not gone too far.
LEMMA DriftEnds == TypeOK /\ Calm /\ Drift => DriftTrips
<1> SUFFICES ASSUME TypeOK, Calm, Drift, NEW p \in Processes
             PROVE  bad[p] * ThresholdDen < ThresholdNum * WindowSize
  BY DEF DriftTrips
<1> DEFINE w == breaker[p].window
           n == 2 * bad[p] + Ahead(p)
<1>1. w \in Seq(CallOutcomes) /\ bad[p] \in Nat /\ n \in Nat
  BY DEF TypeOK, Breakers, Windows, Ahead
<1>2. /\ RecentFailures(w, n) \in Nat /\ Failures(w) \in Nat
      /\ RecentFailures(w, n) <= Failures(w)
  BY <1>1, RecentType, FailuresType
<1>3. RecentFailures(w, n) >= bad[p] /\ Failures(w) * ThresholdDen < ThresholdNum * WindowSize
  BY DEF Drift, Calm, Tolerable
<1>4. bad[p] * ThresholdDen <= Failures(w) * ThresholdDen
  <2> HIDE DEF w, n
  <2>1. bad[p] <= Failures(w)
    BY <1>1, <1>2, <1>3
  <2>2. QED
    BY <1>1, <1>2, <2>1, Monotone, BreakerAssumption
<1>5. /\ bad[p] * ThresholdDen \in Nat /\ Failures(w) * ThresholdDen \in Nat
      /\ ThresholdNum * WindowSize \in Nat
  <2> HIDE DEF w, n
  <2>1. \A i, j \in Nat : i * j \in Nat
    OBVIOUS
  <2>2. ThresholdDen \in Nat /\ ThresholdNum \in Nat /\ WindowSize \in Nat
    BY BreakerAssumption
  <2>3. QED
    BY <1>1, <1>2, <2>1, <2>2, Zenon
<1>6. QED
  <2> HIDE DEF w, n
  <2>1. QED
    BY <1>3, <1>4, <1>5

\* Answers that have become unusable trip the breaker although each of their calls
\* is first recorded as a success, as long as the window is roomy.
THEOREM DriftIsCaught == Roomy => (Spec => []DriftTrips)
<1> SUFFICES ASSUME Roomy PROVE Spec => []DriftTrips
  OBVIOUS
<1>1. TypeOK /\ TypeOK' /\ TrialInFlight /\ DriftTrips /\ Drift /\ [Next]_vars => Drift'
  BY DriftStep
<1>2. Spec => []Calm
  BY TypeInit, TypeStep, PTL DEF Spec
<1>3. QED
  BY <1>1, <1>2, DriftInit, DriftEnds, TypeCorrect, TrialIsInFlight, PTL DEF Spec

-----------------------------------------------------------------------------
(* The result.                                                             *)

\* At first no review is under way and none has a result.
LEMMA HeardInit == Init => OnRecord /\ ApprovedIsHeard
  BY DEF Init, OnRecord, ApprovedIsHeard

\* The return of an agent keeps the record: either the next agent starts, or
\* the result says what has been heard.
LEMMA ReturnHeard ==
    ASSUME TypeOK, OnRecord, ApprovedIsHeard, NEW p \in Processes, pc[p] # "idle",
           NEW came \in AnswerKinds \cup {None}, NEW succeeded \in BOOLEAN,
           succeeded => came \in Usable, Return(p, came, succeeded), UNCHANGED file
    PROVE  OnRecord' /\ ApprovedIsHeard'
<1> DEFINE serious == critical[p] \/ (came = "critical" /\ agent[p] \notin Capped)
           all     == ok[p] /\ succeeded
<1>a. Types
  BY TypeParts
<1>1. \A q \in Processes \ {p} :
         /\ pc'[q] = pc[q] /\ agent'[q] = agent[q] /\ outcome'[q] = outcome[q]
         /\ heard'[q] = heard[q] /\ ok'[q] = ok[q] /\ critical'[q] = critical[q]
  BY <1>a DEF Return, Set, Types
<1>2. /\ ok'[p] = all /\ critical'[p] = serious
      /\ heard'[p] = [heard[p] EXCEPT ![agent[p]] = came]
  BY <1>a DEF Return, Set, Types, Succeeded
<1>3. \A a \in 1 .. agent[p] :
         /\ all => heard'[p][a] \in Usable
         /\ ~serious => heard'[p][a] # "critical" \/ a \in Capped
  <2> SUFFICES ASSUME NEW a \in 1 .. agent[p]
               PROVE  /\ all => heard'[p][a] \in Usable
                      /\ ~serious => heard'[p][a] # "critical" \/ a \in Capped
    OBVIOUS
  <2>1. heard[p] \in [Agents -> AnswerKinds \cup {None}] /\ a \in Agents /\ agent[p] \in Agents
    BY <1>a, AgentsAssumption DEF Types, Agents
  <2>2. CASE a = agent[p]
    BY <1>2, <2>1, <2>2
  <2>3. CASE a # agent[p]
    <3>1. a \in 1 .. (agent[p] - 1)
      BY <2>1, <2>3, AgentsAssumption DEF Agents
    <3>2. heard'[p][a] = heard[p][a]
      BY <1>2, <2>1, <2>3
    <3>3. QED
      BY <3>1, <3>2 DEF OnRecord
  <2>4. QED
    BY <2>2, <2>3
<1>4. file[p] \notin Unparsable /\ (~serious => file[p] \notin Flagged)
  BY DEF OnRecord
<1> HIDE DEF serious, all
<1>5. CASE agent[p] < NumAgents
  <2>1. pc'[p] = "lookup" /\ agent'[p] = agent[p] + 1 /\ outcome'[p] = outcome[p]
    BY <1>a, <1>5 DEF Return, Set, Types
  <2>2. agent'[p] - 1 = agent[p]
    BY <1>a, <2>1, AgentsAssumption DEF Types, Agents
  <2>3. OnRecord'
    <3> SUFFICES ASSUME NEW q \in Processes, pc'[q] # "idle" PROVE OnRecord!(q)'
      BY DEF OnRecord
    <3>1. CASE q = p
      BY <1>2, <1>3, <1>4, <2>1, <2>2, <3>1 DEF OnRecord
    <3>2. CASE q # p
      BY <1>1, <3>2 DEF OnRecord
    <3>3. QED
      BY <3>1, <3>2
  <2>4. ApprovedIsHeard'
    BY <1>1, <2>1 DEF OnRecord, ApprovedIsHeard
  <2>5. QED
    BY <2>3, <2>4
<1>6. CASE ~(agent[p] < NumAgents)
  <2>1. /\ pc'[p] = "idle"
        /\ outcome'[p] = [status |-> IF all THEN "completed" ELSE "degraded",
                          critical |-> serious]
    BY <1>a, <1>6 DEF Return, Set, Types, Succeeded, all, serious
  <2>2. 1 .. agent[p] = Agents
    BY <1>a, <1>6, AgentsAssumption DEF Types, Agents
  <2>3. OnRecord'
    BY <1>1, <2>1 DEF OnRecord
  <2>4. Decide(outcome'[p]) = "approve" => all /\ ~serious
    BY <2>1 DEF Decide
  <2>5. ApprovedIsHeard'
    <3> SUFFICES ASSUME NEW q \in Processes PROVE ApprovedIsHeard!(q)'
      BY DEF ApprovedIsHeard
    <3>1. CASE q = p
      BY <1>3, <1>4, <2>2, <2>4, <3>1 DEF Usable
    <3>2. CASE q # p
      BY <1>1, <3>2 DEF ApprovedIsHeard
    <3>3. QED
      BY <3>1, <3>2
  <2>6. QED
    BY <2>3, <2>5
<1>7. QED
  BY <1>5, <1>6

\* Approval needs an answer from every agent.
LEMMA HeardStep ==
    TypeOK /\ OnRecord /\ ApprovedIsHeard /\ [Next]_vars => OnRecord' /\ ApprovedIsHeard'
<1> SUFFICES ASSUME TypeOK, OnRecord, ApprovedIsHeard, [Next]_vars
             PROVE  OnRecord' /\ ApprovedIsHeard'
  OBVIOUS
<1>a. Types
  BY TypeParts
<1>1. ASSUME NEW p \in Processes, NEW f \in Files, ReviewFails(p, f)
      PROVE  OnRecord' /\ ApprovedIsHeard'
  BY <1>a, <1>1 DEF ReviewFails, Set, Types, OnRecord, ApprovedIsHeard, Decide
<1>2. ASSUME NEW p \in Processes, NEW f \in Files, Review(p, f)
      PROVE  OnRecord' /\ ApprovedIsHeard'
  <2>1. \A q \in Processes \ {p} :
           /\ pc'[q] = pc[q] /\ agent'[q] = agent[q] /\ outcome'[q] = outcome[q]
           /\ heard'[q] = heard[q] /\ ok'[q] = ok[q] /\ critical'[q] = critical[q]
           /\ file'[q] = file[q]
    BY <1>a, <1>2 DEF Review, Set, Types
  <2>2. /\ outcome'[p] = None /\ file'[p] = f /\ f \notin Unparsable /\ agent'[p] = 1
        /\ ~critical'[p] => f \notin Flagged
    BY <1>a, <1>2 DEF Review, Set, Types
  <2>3. OnRecord'
    BY <2>1, <2>2 DEF OnRecord
  <2>4. ApprovedIsHeard'
    BY <2>1, <2>2 DEF ApprovedIsHeard
  <2>5. QED
    BY <2>3, <2>4
<1>3. ASSUME NEW p \in Processes, Returning(p) PROVE OnRecord' /\ ApprovedIsHeard'
  <2>1. pc[p] # "idle" /\ UNCHANGED file
    BY <1>3 DEF Returning, SkipBlank, Refuse, CallFails, StoreRaises, ParseFails, Parse
  <2>2. QED
    BY <1>a, <1>3, <2>1, Returns, ReturnHeard
<1>4. ASSUME NEW p \in Processes,
             \/ CacheHit(p) \/ CacheMiss(p) \/ Admit(p) \/ Retry(p)
             \/ Answer(p) \/ Store(p) \/ ParseRaises(p)
      PROVE  OnRecord' /\ ApprovedIsHeard'
  <2>1. /\ pc[p] # "idle"
        /\ \A q \in Processes : pc'[q] # "idle" => pc[q] # "idle"
        /\ UNCHANGED <<file, agent, review>>
    BY <1>a, <1>4 DEF CacheHit, CacheMiss, Admit, Retry, Answer, Store, ParseRaises, Set, Types,
       call, review
  <2>2. QED
    BY <2>1 DEF OnRecord, ApprovedIsHeard, review
<1>5. CASE Tick \/ UNCHANGED vars
  BY <1>5 DEF Tick, vars, call, review, OnRecord, ApprovedIsHeard
<1>6. QED
  BY <1>1, <1>2, <1>3, <1>4, <1>5, Zenon DEF Next, Work, Returning

\* A review that is approved has heard every agent.
THEOREM ApprovalIsHeard == Spec => []ApprovedIsHeard
  BY TypeInit, TypeStep, HeardInit, HeardStep, PTL DEF Spec

=============================================================================
