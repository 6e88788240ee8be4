----------------------------- MODULE ReviewTask -----------------------------
(***************************************************************************)
(* The durable review path: the webhook receivers (api/webhook.py) queue   *)
(* one Celery task per file of a pushed commit, workers run                *)
(* worker/tasks.py _execute_review() under the claim of                    *)
(* storage/idempotency_store.py, Celery retries what raises and            *)
(* storage/dlq_store.py records what raised for good.                      *)
(*                                                                         *)
(* publish_review() is one step here, which may raise before or after its  *)
(* check run exists; module Publisher opens it up.  The broker is Celery   *)
(* on Redis with acks_late (worker/celery_app.py): a message is            *)
(* acknowledged when its attempt ends, and comes back when the whole       *)
(* worker dies or when it is held longer than the broker's visibility      *)
(* timeout.                                                                *)
(***************************************************************************)
EXTENDS Integers, Sequences, Gate

CONSTANTS
    Commits,     \* (repo, commit_sha) pairs
    Files,       \* file names
    Pushes,      \* webhook deliveries; two of them may be for one commit
    Workers,     \* worker processes, one task at a time each
    CommitOf,    \* the commit of a delivery
    FilesOf,     \* the files of a commit
    PrPushes,    \* deliveries with a pr_number, when a GitHub token is set
    Outcomes,    \* the results review_code() may return
    MaxRetries,  \* max_retries of the task decorator
    Faults,      \* the kinds of fault the environment may inject
    MaxFaults,   \* bound on their number
    None

FaultKinds == {"broker", "redis", "review", "github", "postgres",
               "crash", "redelivery", "lapse"}

ASSUME CommitOfAssumption == CommitOf \in [Pushes -> Commits]
ASSUME FilesOfAssumption == FilesOf \in [Commits -> SUBSET Files]
ASSUME OutcomesAssumption == Outcomes \subseteq Results
ASSUME MaxRetriesAssumption == MaxRetries \in Nat
ASSUME FaultsAssumption == Faults \subseteq FaultKinds /\ MaxFaults \in Nat
ASSUME NoneAssumption == None \notin [push : Pushes, file : Files]

Task == [push : Pushes, file : Files]

Message == [task : Task, retries : 0 .. MaxRetries]

VARIABLES
    received,   \* deliveries the receiver has answered
    queue,      \* copies of each message waiting in the broker
    claim,      \* idempotency key of each commit: absent, or the task that set it
    pc,         \* where each worker is in _execute_review()
    msg,        \* the message a worker is processing
    leased,     \* whether the broker still counts that message as unacknowledged
    result,     \* the ReviewResult a worker holds
    completed,  \* how often each task has completed "completed"
    checkRuns,  \* create_check_run() calls that reached GitHub, per commit
    alerts,     \* notify() calls that had something to say, per commit
    history,    \* review_history rows of each commit
    trail,      \* audit_log rows of each commit
    dlq,        \* dead-letter entries of each task
    lapses,     \* how often the claim of a commit ran out of its TTL
    faults      \* faults injected so far

broker  == <<received, queue>>
worker  == <<pc, msg, leased, result>>
effects == <<checkRuns, alerts, history, trail>>
vars    == <<received, queue, claim, pc, msg, leased, result, completed,
             checkRuns, alerts, history, trail, dlq, lapses, faults>>

-----------------------------------------------------------------------------
(* Helpers.                                                                *)

CommitOfTask(t) == CommitOf[t.push]

\* The commit worker w is busy with.
Commit(w) == CommitOfTask(msg[w].task)

\* The steps of _execute_review() between winning the claim and returning.
\* None of them reads the claim again: that nobody else is in there with the
\* same commit is what the claim has to guarantee.
Section == {"review", "release", "publish", "notify", "save", "audit"}

Steps == {"idle", "claim", "raised", "ack"} \cup Section

Busy(c) == \E w \in Workers : pc[w] \in Section /\ Commit(w) = c

Goto(w, step) == pc' = [pc EXCEPT ![w] = step]

\* A fault of kind k happens now.
Fault(k) == k \in Faults /\ faults < MaxFaults /\ faults' = faults + 1

Count(counter, c) == [counter EXCEPT ![c] = @ + 1]

Init ==
    /\ received = {}
    /\ queue = [m \in Message |-> 0]
    /\ claim = [c \in Commits |-> None]
    /\ pc = [w \in Workers |-> "idle"]
    /\ msg = [w \in Workers |-> None]
    /\ leased = [w \in Workers |-> FALSE]
    /\ result = [w \in Workers |-> None]
    /\ completed = [t \in Task |-> 0]
    /\ checkRuns = [c \in Commits |-> << >>]
    /\ alerts = [c \in Commits |-> 0]
    /\ history = [c \in Commits |-> 0]
    /\ trail = [c \in Commits |-> 0]
    /\ dlq = [t \in Task |-> 0]
    /\ lapses = [c \in Commits |-> 0]
    /\ faults = 0

-----------------------------------------------------------------------------
(* The webhook receivers.                                                  *)

\* review_commit_task.delay() for every file of the payload.
Jobs(p) == {[task |-> [push |-> p, file |-> f], retries |-> 0] :
                f \in FilesOf[CommitOf[p]]}

Enqueue(jobs) ==
    queue' = [m \in Message |-> IF m \in jobs THEN queue[m] + 1 ELSE queue[m]]

Webhook(p) ==
    /\ p \notin received
    /\ received' = received \cup {p}
    /\ Enqueue(Jobs(p))
    /\ UNCHANGED <<claim, worker, completed, effects, dlq, lapses, faults>>

\* The broker fails while the list of tasks is being queued: the files before
\* the failure are queued, the others are not, and the sender gets an error.
WebhookCutShort(p) ==
    /\ p \notin received
    /\ Fault("broker")
    /\ received' = received \cup {p}
    /\ \E sent \in SUBSET Jobs(p) : sent # Jobs(p) /\ Enqueue(sent)
    /\ UNCHANGED <<claim, worker, completed, effects, dlq, lapses>>

-----------------------------------------------------------------------------
(* The broker.                                                             *)

Deliver(w, m) ==
    /\ pc[w] = "idle"
    /\ queue[m] > 0
    /\ queue' = [queue EXCEPT ![m] = @ - 1]
    /\ msg' = [msg EXCEPT ![w] = m]
    /\ leased' = [leased EXCEPT ![w] = TRUE]
    /\ Goto(w, "claim")
    /\ UNCHANGED <<received, claim, result, completed, effects, dlq, lapses, faults>>

\* Late acknowledgement: the attempt is over, however it ended.
Ack(w) ==
    /\ pc[w] = "ack"
    /\ msg' = [msg EXCEPT ![w] = None]
    /\ leased' = [leased EXCEPT ![w] = FALSE]
    /\ result' = [result EXCEPT ![w] = None]
    /\ Goto(w, "idle")
    /\ UNCHANGED <<broker, claim, completed, effects, dlq, lapses, faults>>

\* The worker dies: nothing it holds in memory survives.  If all of it is gone,
\* the broker delivers its message again unless it already did; if only the child
\* process is, Celery takes the task for failed (task_reject_on_worker_lost is not
\* set), acknowledges the message, and on_failure() is not called.
Crash(w) ==
    /\ pc[w] # "idle"
    /\ Fault("crash")
    /\ UNCHANGED queue \/ (leased[w] /\ Enqueue({msg[w]}))
    /\ msg' = [msg EXCEPT ![w] = None]
    /\ leased' = [leased EXCEPT ![w] = FALSE]
    /\ result' = [result EXCEPT ![w] = None]
    /\ Goto(w, "idle")
    /\ UNCHANGED <<received, claim, completed, effects, dlq, lapses>>

\* The message is held past the visibility timeout: it is delivered a second
\* time although its worker goes on.
Redeliver(w) ==
    /\ pc[w] # "idle" /\ leased[w]
    /\ Fault("redelivery")
    /\ Enqueue({msg[w]})
    /\ leased' = [leased EXCEPT ![w] = FALSE]
    /\ UNCHANGED <<received, claim, pc, msg, result, completed, effects, dlq, lapses>>

-----------------------------------------------------------------------------
(* The claim: SET NX EX and DELETE of one Redis key per commit.            *)

\* Mutant of Skip: a task that finds the commit claimed waits for its turn
\* instead of returning "skipped".
SkipRequeues(w) ==
    /\ pc[w] = "claim"
    /\ claim[Commit(w)] # None
    /\ Enqueue({msg[w]})
    /\ Goto(w, "ack")
    /\ UNCHANGED <<received, claim, msg, leased, result, completed, effects, dlq, lapses, faults>>

\* Mutant of Claim: the look-up and the write of the earlier, two-call
\* version, in which a second caller gets through before the first one writes.
ClaimUnchecked(w) ==
    /\ pc[w] = "claim"
    /\ claim' = [claim EXCEPT ![Commit(w)] = msg[w].task]
    /\ Goto(w, "review")
    /\ UNCHANGED <<broker, msg, leased, result, completed, effects, dlq, lapses, faults>>

Claim(w) ==
    /\ pc[w] = "claim"
    /\ claim[Commit(w)] = None
    /\ claim' = [claim EXCEPT ![Commit(w)] = msg[w].task]
    /\ Goto(w, "review")
    /\ UNCHANGED <<broker, msg, leased, result, completed, effects, dlq, lapses, faults>>

Skip(w) ==
    /\ pc[w] = "claim"
    /\ claim[Commit(w)] # None
    /\ Goto(w, "ack")
    /\ UNCHANGED <<broker, claim, msg, leased, result, completed, effects, dlq, lapses, faults>>

\* Redis is unreachable, or answers too late: the SET NX may have been carried
\* out although the caller sees an exception.
ClaimRaises(w) ==
    /\ pc[w] = "claim"
    /\ Fault("redis")
    /\ \/ UNCHANGED claim
       \/ /\ claim[Commit(w)] = None
          /\ claim' = [claim EXCEPT ![Commit(w)] = msg[w].task]
    /\ Goto(w, "raised")
    /\ UNCHANGED <<broker, msg, leased, result, completed, effects, dlq, lapses>>

\* Mutant of Release: the exception is re-raised without giving the claim back.
ReleaseForgotten(w) ==
    /\ pc[w] = "release"
    /\ Goto(w, "raised")
    /\ UNCHANGED <<broker, claim, msg, leased, result, completed, effects, dlq, lapses, faults>>

Release(w) ==
    /\ pc[w] = "release"
    /\ claim' = [claim EXCEPT ![Commit(w)] = None]
    /\ Goto(w, "raised")
    /\ UNCHANGED <<broker, msg, leased, result, completed, effects, dlq, lapses, faults>>

\* The DELETE is carried out, or is not; it is not carried out twice or after the
\* exception.
ReleaseRaises(w) ==
    /\ pc[w] = "release"
    /\ Fault("redis")
    /\ \/ UNCHANGED claim
       \/ claim' = [claim EXCEPT ![Commit(w)] = None]
    /\ Goto(w, "raised")
    /\ UNCHANGED <<broker, msg, leased, result, completed, effects, dlq, lapses>>

\* The key's TTL of seven days runs out.  Nothing in the code ends an attempt by
\* then: that none lasts so long is an assumption.
Lapse(c) ==
    /\ claim[c] # None
    /\ ~Busy(c)
    /\ Fault("lapse")
    /\ claim' = [claim EXCEPT ![c] = None]
    /\ lapses' = Count(lapses, c)
    /\ UNCHANGED <<broker, worker, completed, effects, dlq>>

-----------------------------------------------------------------------------
(* The claimed work.                                                       *)

\* Where a finished review goes next: publish_review() runs for a pull request
\* and a configured token only.
AfterReview(w) == IF msg[w].task.push \in PrPushes THEN "publish" ELSE "notify"

\* Mutant of Review: a path through review_code() that returns nothing.
ReviewReturnsNone(w) ==
    /\ pc[w] = "review"
    /\ \E r \in Outcomes \cup {None} : result' = [result EXCEPT ![w] = r]
    /\ Goto(w, AfterReview(w))
    /\ UNCHANGED <<broker, claim, msg, leased, completed, effects, dlq, lapses, faults>>

Review(w) ==
    /\ pc[w] = "review"
    /\ \E r \in Outcomes : result' = [result EXCEPT ![w] = r]
    /\ Goto(w, AfterReview(w))
    /\ UNCHANGED <<broker, claim, msg, leased, completed, effects, dlq, lapses, faults>>

ReviewRaises(w) ==
    /\ pc[w] = "review"
    /\ Fault("review")
    /\ Goto(w, "release")
    /\ UNCHANGED <<broker, claim, msg, leased, result, completed, effects, dlq, lapses>>

CheckRun(w) ==
    checkRuns' = [checkRuns EXCEPT ![Commit(w)] =
        Append(@, [file |-> msg[w].task.file, conclusion |-> Conclusion(Decide(result[w]))])]

Publish(w) ==
    /\ pc[w] = "publish"
    /\ CheckRun(w)
    /\ Goto(w, "notify")
    /\ UNCHANGED <<broker, claim, msg, leased, result, completed, alerts, history, trail,
                   dlq, lapses, faults>>

\* Mutant of PublishRaises: the handler that releases the claim is widened to
\* cover publishing, where the check run may already be there.
PublishRaisesReleases(w) ==
    /\ pc[w] = "publish"
    /\ Fault("github")
    /\ CheckRun(w) \/ UNCHANGED checkRuns
    /\ claim' = [claim EXCEPT ![Commit(w)] = None]
    /\ Goto(w, "raised")
    /\ UNCHANGED <<broker, msg, leased, result, completed, alerts, history, trail,
                   dlq, lapses>>

\* A GitHub or comment-store call of publish_review() raises, the last one
\* possibly after GitHub has carried it out.  This is outside the try block:
\* the claim stays.
PublishRaises(w) ==
    /\ pc[w] = "publish"
    /\ Fault("github")
    /\ CheckRun(w) \/ UNCHANGED checkRuns
    /\ Goto(w, "raised")
    /\ UNCHANGED <<broker, claim, msg, leased, result, completed, alerts, history, trail,
                   dlq, lapses>>

\* Notifier.notify() catches what its channels raise.
Notify(w) ==
    /\ pc[w] = "notify"
    /\ alerts' = IF ShouldNotify(result[w]) THEN Count(alerts, Commit(w)) ELSE alerts
    /\ Goto(w, "save")
    /\ UNCHANGED <<broker, claim, msg, leased, result, completed, checkRuns, history, trail,
                   dlq, lapses, faults>>

\* PostgresStore.save_review(); its exceptions are swallowed.
SaveReview(w) ==
    /\ pc[w] = "save"
    /\ \/ history' = Count(history, Commit(w)) /\ UNCHANGED faults
       \/ Fault("postgres") /\ UNCHANGED history
    /\ Goto(w, "audit")
    /\ UNCHANGED <<broker, claim, msg, leased, result, completed, checkRuns, alerts, trail,
                   dlq, lapses>>

\* AuditLog.record(); its exceptions are swallowed.  Then the task returns.
RecordAudit(w) ==
    /\ pc[w] = "audit"
    /\ \/ trail' = Count(trail, Commit(w)) /\ UNCHANGED faults
       \/ Fault("postgres") /\ UNCHANGED trail
    /\ completed' = Count(completed, msg[w].task)
    /\ Goto(w, "ack")
    /\ UNCHANGED <<broker, claim, msg, leased, result, checkRuns, alerts, history,
                   dlq, lapses>>

-----------------------------------------------------------------------------
(* Celery's retries and on_failure().                                      *)

\* Mutant of Retry: every failed attempt is recorded, not only the last one.
RetryRecorded(w) ==
    /\ pc[w] = "raised"
    /\ msg[w].retries < MaxRetries
    /\ Enqueue({[task |-> msg[w].task, retries |-> msg[w].retries + 1]})
    /\ dlq' = Count(dlq, msg[w].task)
    /\ Goto(w, "ack")
    /\ UNCHANGED <<received, claim, msg, leased, result, completed, effects, lapses, faults>>

Retry(w) ==
    /\ pc[w] = "raised"
    /\ msg[w].retries < MaxRetries
    /\ Enqueue({[task |-> msg[w].task, retries |-> msg[w].retries + 1]})
    /\ Goto(w, "ack")
    /\ UNCHANGED <<received, claim, msg, leased, result, completed, effects, dlq, lapses, faults>>

\* Queueing the retry raises.  Celery then rejects the message that failed, so
\* there is no further attempt unless the new message was queued all the same.
RetryLost(w) ==
    /\ pc[w] = "raised"
    /\ msg[w].retries < MaxRetries
    /\ Fault("broker")
    /\ \/ UNCHANGED queue
       \/ Enqueue({[task |-> msg[w].task, retries |-> msg[w].retries + 1]})
    /\ Goto(w, "ack")
    /\ UNCHANGED <<received, claim, msg, leased, result, completed, effects, dlq, lapses>>

\* Mutant of OnFailure: the last failure is dropped without an entry.
OnFailureSilent(w) ==
    /\ pc[w] = "raised"
    /\ msg[w].retries = MaxRetries
    /\ Goto(w, "ack")
    /\ UNCHANGED <<broker, claim, msg, leased, result, completed, effects, dlq, lapses, faults>>

OnFailure(w) ==
    /\ pc[w] = "raised"
    /\ msg[w].retries = MaxRetries
    /\ dlq' = Count(dlq, msg[w].task)
    /\ Goto(w, "ack")
    /\ UNCHANGED <<broker, claim, msg, leased, result, completed, effects, lapses, faults>>

\* The dead-letter list lives in Redis as well.
OnFailureRaises(w) ==
    /\ pc[w] = "raised"
    /\ msg[w].retries = MaxRetries
    /\ Fault("redis")
    /\ \/ UNCHANGED dlq
       \/ dlq' = Count(dlq, msg[w].task)
    /\ Goto(w, "ack")
    /\ UNCHANGED <<broker, claim, msg, leased, result, completed, effects, lapses>>

-----------------------------------------------------------------------------

\* What a live worker does with the message it holds.
Work(w) ==
    \/ Claim(w) \/ Skip(w) \/ ClaimRaises(w)
    \/ Review(w) \/ ReviewRaises(w)
    \/ Release(w) \/ ReleaseRaises(w)
    \/ Publish(w) \/ PublishRaises(w)
    \/ Notify(w) \/ SaveReview(w) \/ RecordAudit(w)
    \/ Retry(w) \/ RetryLost(w) \/ OnFailure(w) \/ OnFailureRaises(w)
    \/ Ack(w)

Next ==
    \/ \E p \in Pushes : Webhook(p) \/ WebhookCutShort(p)
    \/ \E w \in Workers, m \in Message : Deliver(w, m)
    \/ \E w \in Workers : Work(w) \/ Crash(w) \/ Redeliver(w)
    \/ \E c \in Commits : Lapse(c)

Spec == Init /\ [][Next]_vars

\* A worker that is running carries on with its task and an idle one takes what is
\* queued.  The calls to GitHub and to the model have timeouts; those to Redis and
\* Postgres have none, and for them this assumes that they answer in the end or
\* that the connection breaks.  Nothing makes a push, a fault or a crash happen.
FairSpec ==
    /\ Spec
    /\ \A w \in Workers : WF_vars(Work(w))
    /\ \A w \in Workers : WF_vars(\E m \in Message : Deliver(w, m))

-----------------------------------------------------------------------------
(* Type invariant.                                                         *)

Types ==
    /\ received \subseteq Pushes
    /\ queue \in [Message -> Nat]
    /\ claim \in [Commits -> Task \cup {None}]
    /\ pc \in [Workers -> Steps]
    /\ msg \in [Workers -> Message \cup {None}]
    /\ leased \in [Workers -> BOOLEAN]
    /\ result \in [Workers -> Results \cup {None}]
    /\ completed \in [Task -> Nat]
    /\ checkRuns \in [Commits -> Seq([file : Files, conclusion : Conclusions])]
    /\ alerts \in [Commits -> Nat]
    /\ history \in [Commits -> Nat]
    /\ trail \in [Commits -> Nat]
    /\ dlq \in [Task -> Nat]
    /\ lapses \in [Commits -> Nat]
    /\ faults \in Nat

\* A worker that is not idle holds a message, and one that is about to report
\* a review holds its result.
Equipped ==
    \A w \in Workers :
        /\ pc[w] # "idle" => msg[w] \in Message
        /\ pc[w] \in {"publish", "notify"} => result[w] \in Results

TypeOK == Types /\ Equipped

-----------------------------------------------------------------------------
(* Safety.                                                                 *)

\* Whatever crashes, is delivered twice or is retried, two workers are never
\* inside the claimed part of _execute_review() for one commit, and the key is
\* there for as long as one of them is: an unconditional DELETE only ever
\* removes the claim of the attempt that issues it.
ClaimExclusive ==
    \A w \in Workers : pc[w] \in Section =>
        /\ claim[Commit(w)] = msg[w].task
        /\ \A v \in Workers \ {w} : pc[v] \in Section => Commit(v) # Commit(w)

\* Every claim is good for one report: per lifetime of its key a commit's check
\* run is created by at most one call, and there is at most one alert, one
\* history row and one audit row, under every fault, retry and redelivery.
ReportedOnce ==
    \A c \in Commits :
        /\ Len(checkRuns[c]) <= lapses[c] + 1
        /\ alerts[c] <= lapses[c] + 1
        /\ history[c] <= lapses[c] + 1
        /\ trail[c] <= lapses[c] + 1

\* Why ReportedOnce is inductive.  A commit may have been reported once for
\* each claim it has had, the current one included ...
Budget(c) == lapses[c] + (IF claim[c] = None THEN 0 ELSE 1)

WithinBudget ==
    \A c \in Commits :
        /\ Len(checkRuns[c]) <= Budget(c)
        /\ alerts[c] <= Budget(c)
        /\ history[c] <= Budget(c)
        /\ trail[c] <= Budget(c)

\* ... and the report of the current claim has not been made as long as its
\* worker is on this side of the step that makes it.
BeforeCheckRun == {"review", "release", "publish"}
BeforeAlert    == BeforeCheckRun \cup {"notify"}
BeforeHistory  == BeforeAlert \cup {"save"}

Unspent ==
    \A w \in Workers :
        /\ pc[w] \in BeforeCheckRun => Len(checkRuns[Commit(w)]) <= lapses[Commit(w)]
        /\ pc[w] \in BeforeAlert    => alerts[Commit(w)] <= lapses[Commit(w)]
        /\ pc[w] \in BeforeHistory  => history[Commit(w)] <= lapses[Commit(w)]
        /\ pc[w] \in Section        => trail[Commit(w)] <= lapses[Commit(w)]

IInv == TypeOK /\ ClaimExclusive /\ WithinBudget /\ Unspent

\* No attempt for commit c is waiting or running.
Quiet(c) ==
    /\ \A m \in Message : CommitOfTask(m.task) = c => queue[m] = 0
    /\ \A w \in Workers : pc[w] # "idle" => Commit(w) # c

\* A review of the commit ran to its end, or the failure is on record.
Concluded(c) ==
    \E t \in Task : CommitOfTask(t) = c /\ (completed[t] > 0 \/ dlq[t] > 0)

\* The dead-letter list holds final failures only: a task is there at most
\* once, never together with a completed review of the same task, and never
\* while another attempt of it is still to come.
DeadLettersFinal ==
    \A t \in Task : dlq[t] > 0 =>
        /\ dlq[t] = 1
        /\ completed[t] = 0
        /\ \A m \in Message : m.task = t => queue[m] = 0
        /\ \A w \in Workers : pc[w] \notin {"idle", "ack"} => msg[w].task # t

\* When all work on a commit is over, a green check on it says that the whole
\* commit was reviewed (publisher.py: "never 'success' for an incomplete
\* review").
GreenCoversCommit ==
    \A c \in Commits : \A i \in 1 .. Len(checkRuns[c]) :
        Quiet(c) /\ checkRuns[c][i].conclusion = "success" =>
            \A f \in FilesOf[c] : \E t \in Task :
                CommitOfTask(t) = c /\ t.file = f /\ completed[t] > 0

-----------------------------------------------------------------------------
(* Action properties.                                                      *)

\* A retry is never turned away by the claim its own earlier attempt left
\* behind (tasks.py: "so Celery's retry can still redo it instead of the failed
\* attempt's claim silently blocking the retry forever").
RetryNotBlocked ==
    [][\A w \in Workers :
          pc[w] = "claim" /\ pc'[w] = "ack" => claim[Commit(w)] # msg[w].task]_vars

-----------------------------------------------------------------------------
(* The claim as a lock: what a commit goes through, whoever works on it.    *)

\* The pipeline is an implementation of the claim's life cycle: work starts
\* only on a free commit, is credited to the task that holds the claim, and
\* ends the claim's usefulness unless the attempt gives it back.
Lifecycle == INSTANCE ClaimLifecycle WITH
                 holder <- claim,
                 busy <- [c \in Commits |-> Busy(c)]

ClaimLifecycleSpec == Lifecycle!Spec

-----------------------------------------------------------------------------
(* Liveness.                                                               *)

\* Work does not vanish: every push leads to a completed review of its commit or
\* to a dead-letter entry which says that it failed (dlq_store.py: "recorded for
\* investigation instead of silently vanishing").
PushConcludes ==
    \A p \in Pushes :
        p \in received /\ FilesOf[CommitOf[p]] # {} ~> Concluded(CommitOf[p])

\* No push is processed forever: its messages and attempts all come to an end.
PushSettles ==
    \A p \in Pushes : p \in received ~> Quiet(CommitOf[p])

=============================================================================
