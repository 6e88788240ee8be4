----------------------------- MODULE ReviewCode -----------------------------
(***************************************************************************)
(* review_code() of core/orchestrator.py in several processes (Celery      *)
(* workers, the CLI): the deterministic checkers, then one LLM agent, or   *)
(* the four of agents/coordinator.py one after the other, each of them     *)
(* run_finding_agent() around call_llm().  The processes share the cache   *)
(* of answers on disk (cache/llm_cache.py); every process has a circuit    *)
(* breaker of its own.                                                     *)
(*                                                                         *)
(* An answer of the model is abstracted to what becomes of it: "garbage"   *)
(* does not parse to a JSON object, "critical" does and leaves a critical  *)
(* finding once _to_findings(), is_trustworthy() and _dedupe() are through *)
(* with it, "infinite" has a line number at which int() raises another     *)
(* exception than the two that _to_findings() expects (1e999), and "clean" *)
(* is every other object, one without a list of findings included.         *)
(***************************************************************************)
EXTENDS CircuitBreaker, Gate

CONSTANTS
    Processes,   \* worker processes; each reviews one file at a time
    Files,       \* files, with their content
    Unparsable,  \* the files compile() rejects
    Blank,       \* the files with nothing but white space in them
    Flagged,     \* the files the deterministic checkers find critical bugs in
    NumAgents,   \* 1, or 4 with use_multi_agent
    Capped,      \* agents whose findings are capped below critical
    Answers,     \* the answers the provider may give
    MaxAttempts, \* attempts of call_with_backoff()
    None

AnswerKinds == {"clean", "critical", "garbage", "infinite"}

ASSUME FilesAssumption ==
    Unparsable \subseteq Files /\ Blank \subseteq Files /\ Flagged \subseteq Files
ASSUME AgentsAssumption == NumAgents \in Nat \ {0} /\ Capped \subseteq 1 .. NumAgents
ASSUME AnswersAssumption == Answers \subseteq AnswerKinds
ASSUME AttemptsAssumption == MaxAttempts \in Nat \ {0}
ASSUME NoneAssumption == None \notin AnswerKinds \cup Results

Agents == 1 .. NumAgents

VARIABLES
    breaker,   \* the circuit breaker of each process
    cache,     \* cached answer to each (file, agent) prompt
    pc,        \* where each process is in the current agent's call
    file,      \* the file it reviews
    agent,     \* the agent that is running
    attempt,   \* the attempt at the provider
    raw,       \* the answer call_llm() has got
    ok,        \* all_succeeded so far
    critical,  \* a critical finding so far
    outcome,   \* the last ReviewResult
    heard,     \* what came of each agent of the current review
    trial,     \* the current call is the one a half-open breaker lets through
    bad        \* useless calls in a row since the breaker opened or closed

call    == <<file, agent, attempt, raw>>
review  == <<ok, critical, outcome, heard>>
history == <<trial, bad>>
vars    == <<breaker, cache, pc, call, review, history>>

Init ==
    /\ breaker = [p \in Processes |-> Fresh]
    /\ cache = [q \in Files \X Agents |-> None]
    /\ pc = [p \in Processes |-> "idle"]
    /\ file = [p \in Processes |-> None]
    /\ agent = [p \in Processes |-> 1]
    /\ attempt = [p \in Processes |-> 1]
    /\ raw = [p \in Processes |-> None]
    /\ ok = [p \in Processes |-> TRUE]
    /\ critical = [p \in Processes |-> FALSE]
    /\ outcome = [p \in Processes |-> None]
    /\ heard = [p \in Processes |-> [a \in Agents |-> None]]
    /\ trial = [p \in Processes |-> FALSE]
    /\ bad = [p \in Processes |-> 0]

-----------------------------------------------------------------------------
(* Helpers.                                                                *)

Prompt(p) == <<file[p], agent[p]>>

Set(f, p, v) == f' = [f EXCEPT ![p] = v]

Usable == {"clean", "critical"}

\* Mutant of Succeeded: the coordinator reports what the last agent reported.
LastSucceeded(p, succeeded) == succeeded

\* all_succeeded = all_succeeded and succeeded
Succeeded(p, succeeded) == ok[p] /\ succeeded

\* The agent returns (findings, succeeded): on to the next one, or to the
\* result of the review.  came is what came of the agent.
Return(p, came, succeeded) ==
    LET serious == critical[p] \/ (came = "critical" /\ agent[p] \notin Capped)
        all     == Succeeded(p, succeeded)
    IN  /\ Set(ok, p, all)
        /\ Set(critical, p, serious)
        /\ heard' = [heard EXCEPT ![p][agent[p]] = came]
        /\ Set(trial, p, FALSE)
        /\ IF agent[p] < NumAgents
           THEN /\ Set(pc, p, "lookup")
                /\ Set(agent, p, agent[p] + 1)
                /\ UNCHANGED outcome
           ELSE /\ Set(pc, p, "idle")
                /\ UNCHANGED agent
                /\ Set(outcome, p, [status |-> IF all THEN "completed" ELSE "degraded",
                                    critical |-> serious])

\* The provider let the call down; b is the breaker when that is recorded.
LetDown(p, b) ==
    /\ Set(breaker, p, b)
    /\ Set(bad, p, IF b = Opened THEN 0 ELSE bad[p] + 1)

-----------------------------------------------------------------------------
(* review_code().                                                          *)

\* The file does not parse, so nothing else runs; its syntax errors are
\* reported as critical findings.
ReviewFails(p, f) ==
    /\ pc[p] = "idle"
    /\ f \in Unparsable
    /\ Set(outcome, p, [status |-> "failed", critical |-> TRUE])
    /\ Set(file, p, f)
    /\ Set(heard, p, [a \in Agents |-> None])
    /\ UNCHANGED <<breaker, cache, pc, agent, attempt, raw, ok, critical, history>>

Review(p, f) ==
    /\ pc[p] = "idle"
    /\ f \notin Unparsable
    /\ Set(pc, p, "lookup")
    /\ Set(file, p, f)
    /\ Set(agent, p, 1)
    /\ Set(raw, p, None)
    /\ Set(ok, p, TRUE)
    /\ Set(critical, p, f \in Flagged)
    /\ Set(outcome, p, None)
    /\ Set(heard, p, [a \in Agents |-> None])
    /\ UNCHANGED <<breaker, cache, attempt, history>>

-----------------------------------------------------------------------------
(* run_finding_agent() and call_llm().                                     *)

\* There is nothing to ask about.
SkipBlank(p) ==
    /\ pc[p] = "lookup"
    /\ file[p] \in Blank
    /\ Return(p, "clean", TRUE)
    /\ UNCHANGED <<breaker, cache, file, attempt, raw, bad>>

\* The answer is cached; the breaker is not asked.
CacheHit(p) ==
    /\ pc[p] = "lookup"
    /\ file[p] \notin Blank
    /\ cache[Prompt(p)] # None
    /\ Set(raw, p, cache[Prompt(p)])
    /\ Set(pc, p, "parse")
    /\ UNCHANGED <<breaker, cache, file, agent, attempt, review, history>>

\* There is no answer, or the file that holds it is just being written and is
\* read half written.
CacheMiss(p) ==
    /\ pc[p] = "lookup"
    /\ file[p] \notin Blank
    /\ \/ cache[Prompt(p)] = None
       \/ \E q \in Processes \ {p} : pc[q] = "store" /\ Prompt(q) = Prompt(p)
    /\ Set(pc, p, "allow")
    /\ Set(raw, p, None)
    /\ UNCHANGED <<breaker, cache, file, agent, attempt, review, history>>

\* Mutant of Refuse: an agent that was not allowed to call reports that it
\* found nothing.
RefuseQuietly(p) ==
    /\ pc[p] = "allow"
    /\ ~Allows(breaker[p])
    /\ Return(p, None, TRUE)
    /\ UNCHANGED <<breaker, cache, file, attempt, raw, bad>>

\* CircuitOpenError: the agent reports that it did not succeed.
Refuse(p) ==
    /\ pc[p] = "allow"
    /\ ~Allows(breaker[p])
    /\ Return(p, None, FALSE)
    /\ UNCHANGED <<breaker, cache, file, attempt, raw, bad>>

Admit(p) ==
    /\ pc[p] = "allow"
    /\ Allows(breaker[p])
    /\ Set(breaker, p, Allowed(breaker[p]))
    /\ Set(trial, p, breaker[p].state = "open")
    /\ Set(attempt, p, 1)
    /\ Set(pc, p, "call")
    /\ UNCHANGED <<cache, file, agent, raw, review, bad>>

\* Mutant of Retry: the count starts over when the attempts are used up.
RetryAgain(p) ==
    /\ pc[p] = "call"
    /\ Set(attempt, p, IF attempt[p] < MaxAttempts THEN attempt[p] + 1 ELSE 1)
    /\ UNCHANGED <<breaker, cache, pc, file, agent, raw, review, history>>

\* An attempt fails in a way that is worth another one, and there is one left.
Retry(p) ==
    /\ pc[p] = "call"
    /\ attempt[p] < MaxAttempts
    /\ Set(attempt, p, attempt[p] + 1)
    /\ UNCHANGED <<breaker, cache, pc, file, agent, raw, review, history>>

\* The last attempt fails, or an earlier one in a way that is not retried.
CallFails(p) ==
    /\ pc[p] = "call"
    /\ LetDown(p, RecordFailure(breaker[p]))
    /\ Return(p, None, FALSE)
    /\ UNCHANGED <<cache, file, attempt, raw>>

Answer(p) ==
    /\ pc[p] = "call"
    /\ \E a \in Answers : Set(raw, p, a)
    /\ Set(breaker, p, RecordSuccess(breaker[p]))
    /\ Set(bad, p, IF trial[p] THEN 0 ELSE bad[p])
    /\ Set(pc, p, "store")
    /\ UNCHANGED <<cache, file, agent, attempt, review, trial>>

Store(p) ==
    /\ pc[p] = "store"
    /\ Set(cache, Prompt(p), raw[p])
    /\ Set(pc, p, "parse")
    /\ UNCHANGED <<breaker, call, review, history>>

\* The disk refuses the answer: llm_cache.set() raises, so call_llm() does.
StoreRaises(p) ==
    /\ pc[p] = "store"
    /\ Set(bad, p, 0)
    /\ Return(p, None, FALSE)
    /\ UNCHANGED <<breaker, cache, file, attempt, raw>>

\* Mutant of ParseFails: what does not parse is not recorded.
ParseFailsQuietly(p) ==
    /\ pc[p] = "parse" /\ raw[p] = "garbage"
    /\ Set(bad, p, bad[p] + 1)
    /\ Return(p, "garbage", FALSE)
    /\ UNCHANGED <<breaker, cache, file, attempt, raw>>

\* Garbage is what json.loads() refuses with a JSONDecodeError; that it raises
\* something else (a number of too many digits, brackets too deep) is left out.
ParseFails(p) ==
    /\ pc[p] = "parse" /\ raw[p] = "garbage"
    /\ LetDown(p, RecordFailure(breaker[p]))
    /\ Return(p, "garbage", FALSE)
    /\ UNCHANGED <<cache, file, attempt, raw>>

Parse(p) ==
    /\ pc[p] = "parse" /\ raw[p] \in Usable
    /\ Set(breaker, p, RecordSuccess(breaker[p]))
    /\ Set(bad, p, 0)
    /\ Return(p, raw[p], TRUE)
    /\ UNCHANGED <<cache, file, attempt, raw>>

\* Mutant of ParseRaises: the exception is taken for the end of the answer.
ParseStops(p) ==
    /\ pc[p] = "parse" /\ raw[p] = "infinite"
    /\ Set(breaker, p, RecordSuccess(breaker[p]))
    /\ Set(bad, p, 0)
    /\ Return(p, None, TRUE)
    /\ UNCHANGED <<cache, file, attempt, raw>>

\* The success is on record when _to_findings() raises, and nobody catches it:
\* the review ends without a result.  The answer stays in the cache.
ParseRaises(p) ==
    /\ pc[p] = "parse" /\ raw[p] = "infinite"
    /\ Set(breaker, p, RecordSuccess(breaker[p]))
    /\ Set(bad, p, 0)
    /\ Set(trial, p, FALSE)
    /\ Set(pc, p, "idle")
    /\ UNCHANGED <<cache, call, review>>

-----------------------------------------------------------------------------

Tick ==
    /\ \E p \in Processes : breaker[p].cooling > 0
    /\ breaker' = [p \in Processes |-> Cooler(breaker[p])]
    /\ UNCHANGED <<cache, pc, call, review, history>>

Work(p) ==
    \/ SkipBlank(p) \/ CacheHit(p) \/ CacheMiss(p)
    \/ Refuse(p) \/ Admit(p) \/ Retry(p) \/ CallFails(p) \/ Answer(p)
    \/ Store(p) \/ StoreRaises(p) \/ ParseFails(p) \/ Parse(p) \/ ParseRaises(p)

Next ==
    \/ \E p \in Processes, f \in Files : ReviewFails(p, f) \/ Review(p, f)
    \/ \E p \in Processes : Work(p)
    \/ Tick

Spec == Init /\ [][Next]_vars

\* A review that has begun goes on (calls to the provider time out) and time
\* passes.  Nothing makes a review begin.
FairSpec ==
    /\ Spec
    /\ \A p \in Processes : WF_vars(Work(p))
    /\ WF_vars(Tick)

-----------------------------------------------------------------------------
(* Type invariant.                                                         *)

TypeOK ==
    /\ breaker \in [Processes -> Breakers]
    /\ cache \in [Files \X Agents -> AnswerKinds \cup {None}]
    /\ pc \in [Processes -> {"idle", "lookup", "allow", "call", "store", "parse"}]
    /\ file \in [Processes -> Files \cup {None}]
    /\ agent \in [Processes -> Agents]
    /\ attempt \in [Processes -> 1 .. MaxAttempts]
    /\ raw \in [Processes -> AnswerKinds \cup {None}]
    /\ ok \in [Processes -> BOOLEAN]
    /\ critical \in [Processes -> BOOLEAN]
    /\ outcome \in [Processes -> Results \cup {None}]
    /\ heard \in [Processes -> [Agents -> AnswerKinds \cup {None}]]
    /\ trial \in [Processes -> BOOLEAN]
    /\ bad \in [Processes -> Nat]
    /\ \A p \in Processes : /\ pc[p] # "idle" => file[p] \in Files
                            /\ pc[p] = "store" => raw[p] \in AnswerKinds

-----------------------------------------------------------------------------
(* Safety.                                                                 *)

\* The breaker trips in time: whatever mixture of failed calls, unusable
\* answers and cached ones a process sees, its window never holds as many
\* failures as it takes to fill the tolerated share of a full window.
TripsInTime ==
    \A p \in Processes :
        Failures(breaker[p].window) * ThresholdDen < ThresholdNum * WindowSize

\* A provider whose answers have become unusable "still eventually trips the
\* breaker" although each of its calls is first recorded as a success:
\* no process gets that many useless calls in a row out of it.
DriftTrips ==
    \A p \in Processes : bad[p] * ThresholdDen < ThresholdNum * WindowSize

\* A half-open breaker has its trial under way, and no call is under way past
\* an open one: the breaker that admitted a call is still the one that judges
\* it when it ends.
TrialInFlight ==
    \A p \in Processes :
        /\ breaker[p].state = "half_open" => pc[p] = "call" /\ trial[p]
        /\ pc[p] = "call" => breaker[p].state = IF trial[p] THEN "half_open" ELSE "closed"

\* A review is approved only when every agent has delivered an answer that
\* parsed and was not critical, and the checkers found nothing critical: an
\* outage, an open breaker or an unusable answer never looks like a clean pass
\* (chaos_testing.md: "a downed LLM must never look identical to 'reviewed
\* everything, found 0 issues'").
ApprovedIsHeard ==
    \A p \in Processes : outcome[p] # None /\ Decide(outcome[p]) = "approve" =>
        /\ file[p] \notin Unparsable \cup Flagged
        /\ \A a \in Agents : heard[p][a] = "clean" \/ (a \in Capped /\ heard[p][a] = "critical")

\* Why ApprovedIsHeard is inductive: as long as the review under way may still
\* be approved, the agents that are through have been heard.
OnRecord ==
    \A p \in Processes : pc[p] # "idle" =>
        /\ outcome[p] = None
        /\ file[p] \notin Unparsable
        /\ ~critical[p] => file[p] \notin Flagged
        /\ \A a \in 1 .. (agent[p] - 1) :
              /\ ok[p] => heard[p][a] \in Usable
              /\ ~critical[p] => heard[p][a] # "critical" \/ a \in Capped

-----------------------------------------------------------------------------
(* Action properties.                                                      *)

\* The trial decides: when the call that a half-open breaker let through is
\* over, the breaker is closed if there was an answer, and open again if there
\* was none (circuit_breaker.py: "success closes the circuit again, failure
\* reopens it").  An answer that does not parse is a failure that comes too late.
TrialDecides ==
    [][\A p \in Processes : trial[p] /\ ~trial'[p] /\ raw[p] # "garbage" =>
          breaker'[p].state = IF raw[p] = None THEN "open" ELSE "closed"]_vars

-----------------------------------------------------------------------------
(* Liveness.                                                               *)

\* Every review comes to an end.
ReviewEnds == \A p \in Processes : pc[p] # "idle" ~> pc[p] = "idle"

\* A breaker does not stay open for good: as long as calls keep coming that
\* the cache does not answer, one of them is let through again and again -
\* unless answers that do not parse keep coming out of the cache, which start
\* its cooldown anew.
BreakerRecovers ==
    \A p \in Processes :
        []<>(pc[p] = "allow") /\ <>[](raw[p] # "garbage") => []<>(breaker[p].state # "open")

=============================================================================
