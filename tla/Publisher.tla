------------------------------ MODULE Publisher ------------------------------
(***************************************************************************)
(* publish_review() of integrations/publisher.py for one commit of one     *)
(* pull request, by processes that know nothing of each other: a Celery    *)
(* worker, which holds the commit's claim, and runs of the CLI, which do   *)
(* not ask for it.  They meet in GitHub (integrations/github_client.py)    *)
(* and in the comment id kept in Redis (storage/comment_store.py).         *)
(*                                                                         *)
(* A request is repeated by core/backoff.py when the connection fails or   *)
(* times out, which may be before or after GitHub has carried it out.  The *)
(* people on the pull request may delete a comment, of which nobody tells  *)
(* Redis.                                                                  *)
(***************************************************************************)
EXTENDS Integers, Sequences, FiniteSets, Gate

CONSTANTS
    Publishers,      \* processes that may publish at the same time
    Outcomes,        \* the results they publish
    MaxAttempts,     \* max_attempts of call_with_backoff()
    Faults,          \* the kinds of fault the environment may inject
    MaxFaults,       \* bound on their number
    MaxPublications, \* bound on the calls of publish_review()
    None

FaultKinds == {"network", "refused", "redis", "crash"}

ASSUME OutcomesAssumption == Outcomes \subseteq Results
ASSUME AttemptsAssumption == MaxAttempts \in Nat \ {0}
ASSUME FaultsAssumption == Faults \subseteq FaultKinds /\ MaxFaults \in Nat
ASSUME BoundAssumption == MaxPublications \in Nat
ASSUME PublishersAssumption == IsFiniteSet(Publishers)
ASSUME NoneAssumption == None \notin Nat \cup Results

VARIABLES
    pc,           \* where each process is in publish_review()
    result,       \* the review it publishes
    comment,      \* comment_id
    attempt,      \* the attempt at the current request
    comments,     \* comments posted, by id: the decision each shows, or showed last
    deleted,      \* the ids of those that people have deleted
    stored,       \* the comment id in Redis
    checkRuns,    \* check runs on the commit, oldest first
    publications, \* calls of publish_review() so far
    overlap,      \* the calls since the last quiet moment have overlapped
    settled,      \* the last call to end returned, and was alone
    faults        \* faults injected so far

vars == <<pc, result, comment, attempt, comments, deleted, stored, checkRuns, publications, overlap,
          settled, faults>>

github == <<comments, deleted, checkRuns>>

Init ==
    /\ pc = [p \in Publishers |-> "idle"]
    /\ result = [p \in Publishers |-> None]
    /\ comment = [p \in Publishers |-> None]
    /\ attempt = [p \in Publishers |-> 1]
    /\ comments = << >> /\ deleted = {}
    /\ stored = None
    /\ checkRuns = << >>
    /\ publications = 0
    /\ overlap = FALSE
    /\ settled = FALSE
    /\ faults = 0

-----------------------------------------------------------------------------
(* Helpers.                                                                *)

Set(f, p, v) == f' = [f EXCEPT ![p] = v]

Goto(p, step) == Set(pc, p, step)

\* A fault of kind k happens now.
Fault(k) == k \in Faults /\ faults < MaxFaults /\ faults' = faults + 1

\* An exception leaves publish_review().
Raise(p) ==
    /\ Goto(p, "idle")
    /\ Set(result, p, None)
    /\ Set(comment, p, None)
    /\ Set(attempt, p, 1)
    /\ settled' = FALSE

\* The request gets no answer: it is sent again while there are attempts left.
Again(p) ==
    \/ /\ attempt[p] < MaxAttempts
       /\ Set(attempt, p, attempt[p] + 1)
       /\ UNCHANGED <<pc, result, comment, settled>>
    \/ attempt[p] = MaxAttempts /\ Raise(p)

-----------------------------------------------------------------------------

Publish(p, r) ==
    /\ pc[p] = "idle"
    /\ publications < MaxPublications
    /\ publications' = publications + 1
    /\ overlap' = (\E q \in Publishers : pc[q] # "idle")
    /\ settled' = FALSE
    /\ Set(result, p, r)
    /\ Goto(p, "look_up")
    /\ UNCHANGED <<comment, attempt, github, stored, faults>>

\* Mutant of LookUp: the stored id is ignored.
LookUpNothing(p) ==
    /\ pc[p] = "look_up"
    /\ Goto(p, "post")
    /\ UNCHANGED <<result, comment, attempt, github, stored, publications, overlap, settled, faults>>

\* CommentStore.get_comment_id()
LookUp(p) ==
    /\ pc[p] = "look_up"
    /\ Set(comment, p, stored)
    /\ Goto(p, IF stored = None THEN "post" ELSE "update")
    /\ UNCHANGED <<result, attempt, github, stored, publications, overlap, settled, faults>>

LookUpRaises(p) ==
    /\ pc[p] = "look_up"
    /\ Fault("redis")
    /\ Raise(p)
    /\ UNCHANGED <<github, stored, publications, overlap>>

\* update_issue_comment() is carried out.
Rewrite(p) ==
    /\ comment[p] \notin deleted
    /\ comments' = [comments EXCEPT ![comment[p]] = Decide(result[p])]

Update(p) ==
    /\ pc[p] = "update"
    /\ Rewrite(p)
    /\ Set(attempt, p, 1)
    /\ Goto(p, "check_run")
    /\ UNCHANGED <<result, comment, deleted, checkRuns, stored, publications, overlap, settled, faults>>

UpdateUnanswered(p) ==
    /\ pc[p] = "update"
    /\ Fault("network")
    /\ Rewrite(p) \/ UNCHANGED comments
    /\ Again(p)
    /\ UNCHANGED <<deleted, checkRuns, stored, publications, overlap>>

\* Mutant of UpdateGone: the 404 is taken for an answer.
UpdateGoneUnnoticed(p) ==
    /\ pc[p] = "update" /\ comment[p] \in deleted
    /\ Set(attempt, p, 1)
    /\ Goto(p, "check_run")
    /\ UNCHANGED <<result, comment, github, stored, publications, overlap, settled, faults>>

\* Somebody has deleted the comment: 404, which is not worth another attempt.
UpdateGone(p) ==
    /\ pc[p] = "update" /\ comment[p] \in deleted
    /\ Raise(p)
    /\ UNCHANGED <<github, stored, publications, overlap, faults>>

\* post_issue_comment() is carried out.
Add(p) == comments' = Append(comments, Decide(result[p]))

Post(p) ==
    /\ pc[p] = "post"
    /\ Add(p)
    /\ Set(comment, p, Len(comments'))
    /\ Set(attempt, p, 1)
    /\ Goto(p, "remember")
    /\ UNCHANGED <<result, deleted, checkRuns, stored, publications, overlap, settled, faults>>

PostUnanswered(p) ==
    /\ pc[p] = "post"
    /\ Fault("network")
    /\ Add(p) \/ UNCHANGED comments
    /\ Again(p)
    /\ UNCHANGED <<deleted, checkRuns, stored, publications, overlap>>

\* Mutant of Remember: the id is stored after the check run only, and not here.
RememberLater(p) ==
    /\ pc[p] = "remember"
    /\ Goto(p, "check_run")
    /\ UNCHANGED <<result, comment, attempt, github, stored, publications, overlap, settled, faults>>

\* CommentStore.set_comment_id()
Remember(p) ==
    /\ pc[p] = "remember"
    /\ stored' = comment[p]
    /\ Goto(p, "check_run")
    /\ UNCHANGED <<result, comment, attempt, github, publications, overlap, settled, faults>>

RememberRaises(p) ==
    /\ pc[p] = "remember"
    /\ Fault("redis")
    /\ UNCHANGED stored \/ stored' = comment[p]
    /\ Raise(p)
    /\ UNCHANGED <<github, publications, overlap>>

\* create_check_run() is carried out.
Conclude(p) == checkRuns' = Append(checkRuns, Conclusion(Decide(result[p])))

\* publish_review() returns.
CheckRun(p) ==
    /\ pc[p] = "check_run"
    /\ Conclude(p)
    /\ settled' = ~overlap
    /\ Set(result, p, None)
    /\ Set(comment, p, None)
    /\ Set(attempt, p, 1)
    /\ Goto(p, "idle")
    /\ UNCHANGED <<comments, deleted, stored, publications, overlap, faults>>

CheckRunUnanswered(p) ==
    /\ pc[p] = "check_run"
    /\ Fault("network")
    /\ Conclude(p) \/ UNCHANGED checkRuns
    /\ Again(p)
    /\ UNCHANGED <<comments, deleted, stored, publications, overlap>>

\* GitHub refuses the request with a status that is not worth another attempt.
Refused(p) ==
    /\ pc[p] \in {"update", "post", "check_run"}
    /\ Fault("refused")
    /\ Raise(p)
    /\ UNCHANGED <<github, stored, publications, overlap>>

Crash(p) ==
    /\ pc[p] # "idle"
    /\ Fault("crash")
    /\ Raise(p)
    /\ UNCHANGED <<github, stored, publications, overlap>>

\* The people on the pull request.
Delete(c) ==
    /\ c \notin deleted
    /\ deleted' = deleted \cup {c}
    /\ UNCHANGED <<pc, result, comment, attempt, comments, stored, checkRuns, publications, overlap,
                   settled, faults>>

Call(p) ==
    \/ \E r \in Outcomes : Publish(p, r)
    \/ LookUp(p) \/ LookUpRaises(p)
    \/ Update(p) \/ UpdateUnanswered(p) \/ UpdateGone(p)
    \/ Post(p) \/ PostUnanswered(p)
    \/ Remember(p) \/ RememberRaises(p)
    \/ CheckRun(p) \/ CheckRunUnanswered(p)
    \/ Refused(p) \/ Crash(p)

Next ==
    \/ \E p \in Publishers : Call(p)
    \/ \E c \in DOMAIN comments : Delete(c)

Spec == Init /\ [][Next]_vars

-----------------------------------------------------------------------------
(* Type invariant.                                                         *)

TypeOK ==
    /\ pc \in [Publishers -> {"idle", "look_up", "update", "post", "remember", "check_run"}]
    /\ result \in [Publishers -> Results \cup {None}]
    /\ comment \in [Publishers -> Nat \cup {None}]
    /\ attempt \in [Publishers -> 1 .. MaxAttempts]
    /\ comments \in Seq(GateDecision) /\ deleted \subseteq Nat
    /\ stored \in Nat \cup {None}
    /\ checkRuns \in Seq(Conclusions)
    /\ publications \in 0 .. MaxPublications
    /\ overlap \in BOOLEAN
    /\ settled \in BOOLEAN
    /\ faults \in 0 .. MaxFaults

-----------------------------------------------------------------------------
(* Safety.                                                                 *)

\* A duplicate comment has a cause: every process adds one of its own accord at
\* most, in the race for the first one, and every further one is due to a fault.
DuplicatesExplained == Len(comments) <= Cardinality(Publishers) + faults

\* When a call that met no other has returned, the pull request tells one
\* story, whatever earlier calls have left behind and people have deleted: the
\* newest check run is the verdict the remembered comment shows, or showed when
\* it was deleted.
OneStory ==
    settled =>
        /\ stored # None
        /\ checkRuns[Len(checkRuns)] = Conclusion(comments[stored])

\* The comment Redis remembers is gone, and every call under way is about to
\* look it up or to update it.
Forsaken ==
    /\ stored # None /\ stored \in deleted
    /\ \A p \in Publishers : \/ pc[p] \in {"idle", "look_up"}
                            \/ (pc[p] = "update" /\ comment[p] = stored)

\* From then on the commit has no voice left: however often its review is run
\* again, by whom and with what result, no comment is posted or rewritten in
\* place of the deleted one and no check run is created; in particular none
\* that nobody could read the reasons of.  (It takes the 30 days after which
\* Redis forgets the id to end this.)
ForsakenStaysSilent == [][Forsaken => Forsaken' /\ UNCHANGED <<comments, checkRuns>>]_vars

-----------------------------------------------------------------------------
(* Why they are inductive.                                                 *)

Busy == {q \in Publishers : pc[q] # "idle"}
AtStep(step) == {q \in Publishers : pc[q] = step}

\* Every id that is stored, or about to be used, is the id of a comment that
\* was posted.
IdsKnown ==
    /\ stored # None => stored \in DOMAIN comments
    /\ \A p \in Publishers :
          pc[p] \in {"update", "remember", "check_run"} => comment[p] \in DOMAIN comments

\* A call that is under way has its review.
Equipped == \A q \in Publishers : pc[q] # "idle" => result[q] \in Results

\* Who overlaps with nobody is the only one under way ...
Alone == ~overlap => \A p, q \in Busy : p = q

\* ... and finds in Redis and on GitHub what it has left there.
OwnStory ==
    ~overlap => \A p \in Publishers :
        /\ pc[p] \in {"update", "check_run"} => stored = comment[p]
        /\ pc[p] \in {"remember", "check_run"} => comments[comment[p]] = Decide(result[p])

Told == settled => Busy = {} /\ stored # None /\ checkRuns # << >>

\* As long as no id is stored, each comment belongs to a call that is about to
\* store one or has been paid for with a fault.  From then on only those post
\* who have looked before.
PostsPaid ==
    /\ stored = None => Len(comments) <= Cardinality(AtStep("remember")) + faults
    /\ Len(comments) + (IF stored = None THEN 0 ELSE Cardinality(AtStep("post")))
           <= Cardinality(Publishers) + faults

IInv == /\ TypeOK /\ Equipped /\ IdsKnown
        /\ Alone /\ OwnStory /\ Told /\ OneStory
        /\ PostsPaid

=============================================================================
