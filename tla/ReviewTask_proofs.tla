-------------------------- MODULE ReviewTask_proofs --------------------------
(***************************************************************************)
(* Proofs about ReviewTask for any number of commits, files, deliveries,   *)
(* workers, retries and faults.                                            *)
(***************************************************************************)
EXTENDS ReviewTask, SequenceTheorems, TLAPS

-----------------------------------------------------------------------------
(* Facts about the operators.                                              *)

\* A message's task has a commit, and the jobs of a delivery are messages.
LEMMA CommitTypes ==
    /\ \A t \in Task : CommitOfTask(t) \in Commits
    /\ \A m \in Message : m.task \in Task /\ m.retries \in 0 .. MaxRetries
    /\ \A p \in Pushes : Jobs(p) \subseteq Message
<1>1. \A t \in Task : CommitOfTask(t) \in Commits
  BY CommitOfAssumption DEF Task, CommitOfTask
<1>2. \A m \in Message : m.task \in Task /\ m.retries \in 0 .. MaxRetries
  BY DEF Message
<1>3. \A p \in Pushes : Jobs(p) \subseteq Message
  <2> SUFFICES ASSUME NEW p \in Pushes, NEW f \in FilesOf[CommitOf[p]]
               PROVE  [task |-> [push |-> p, file |-> f], retries |-> 0] \in Message
    BY DEF Jobs
  <2>1. f \in Files
    BY CommitOfAssumption, FilesOfAssumption
  <2>2. QED
    BY <2>1, MaxRetriesAssumption DEF Message, Task
<1>4. QED
  BY <1>1, <1>2, <1>3

\* The conclusion of a check run is one of GitHub's three.
LEMMA ConclusionType ==
    \A r \in Results : Conclusion(Decide(r)) \in Conclusions
  BY DEF Results, ReviewStatus, Conclusion, Decide, Conclusions

\* Queueing keeps the type of the queue.
LEMMA EnqueueType ==
    ASSUME NEW jobs, queue \in [Message -> Nat], Enqueue(jobs)
    PROVE  queue' \in [Message -> Nat]
  BY DEF Enqueue

-----------------------------------------------------------------------------
(* Type correctness.                                                       *)

\* The types hold before the first delivery.
LEMMA TypeInit == Init => TypeOK
  BY DEF Init, TypeOK, Types, Equipped, Steps

\* Counting one more keeps a counter a counter.
LEMMA CountType ==
    ASSUME NEW S, NEW counter \in [S -> Nat], NEW i \in S
    PROVE  Count(counter, i) \in [S -> Nat]
  BY DEF Count

\* What a worker that is not idle works for.
LEMMA HoldingTypes ==
    ASSUME TypeOK, NEW w \in Workers, pc[w] # "idle"
    PROVE  msg[w].task \in Task /\ Commit(w) \in Commits /\ Commit(w) = CommitOfTask(msg[w].task)
  BY CommitTypes DEF TypeOK, Equipped, Commit

\* A check run names a file and a conclusion.
LEMMA CheckRunType ==
    ASSUME TypeOK, NEW w \in Workers, pc[w] = "publish", CheckRun(w)
    PROVE  checkRuns' \in [Commits -> Seq([file : Files, conclusion : Conclusions])]
<1> DEFINE run == [file |-> msg[w].task.file, conclusion |-> Conclusion(Decide(result[w]))]
           runs == Seq([file : Files, conclusion : Conclusions])
           longer == Append(checkRuns[Commit(w)], run)
<1>1. run \in [file : Files, conclusion : Conclusions]
  <2>1. msg[w].task.file \in Files
    BY HoldingTypes DEF Task
  <2>2. Conclusion(Decide(result[w])) \in Conclusions
    BY ConclusionType DEF TypeOK, Equipped
  <2>3. QED
    BY <2>1, <2>2
<1>2. checkRuns' = [checkRuns EXCEPT ![Commit(w)] = longer]
  BY DEF CheckRun
<1>3. checkRuns \in [Commits -> runs] /\ Commit(w) \in Commits
  BY HoldingTypes DEF TypeOK, Types
<1>4. longer \in runs
  BY <1>1, <1>3, AppendProperties
<1>5. QED
  <2> HIDE DEF runs, longer
  <2>1. checkRuns' \in [Commits -> runs]
    BY <1>2, <1>3, <1>4
  <2>2. QED
    BY <2>1 DEF runs

\* Every step keeps the type of every variable.
LEMMA TypesStep == TypeOK /\ [Next]_vars => Types'
<1> SUFFICES ASSUME TypeOK, [Next]_vars PROVE Types'
  OBVIOUS
<1> USE DEF TypeOK, Types, Steps, Section
<1>1. ASSUME NEW p \in Pushes, Webhook(p) PROVE Types'
  <2>1. queue' \in [Message -> Nat]
    BY <1>1, EnqueueType DEF Webhook
  <2>2. QED
    BY <1>1, <2>1 DEF Webhook, worker, effects
<1>2. ASSUME NEW p \in Pushes, WebhookCutShort(p) PROVE Types'
  <2>1. queue' \in [Message -> Nat]
    BY <1>2, EnqueueType DEF WebhookCutShort
  <2>2. faults' \in Nat
    BY <1>2 DEF WebhookCutShort, Fault
  <2>3. QED
    BY <1>2, <2>1, <2>2 DEF WebhookCutShort, worker, effects
<1>3. ASSUME NEW w \in Workers, NEW m \in Message, Deliver(w, m) PROVE Types'
  <2>1. queue' \in [Message -> Nat]
    BY <1>3 DEF Deliver
  <2>2. pc' \in [Workers -> Steps]
    BY <1>3 DEF Deliver, Goto
  <2>3. msg' \in [Workers -> Message \cup {None}]
    BY <1>3 DEF Deliver
  <2>4. leased' \in [Workers -> BOOLEAN]
    BY <1>3 DEF Deliver
  <2>5. QED
    BY <1>3, <2>1, <2>2, <2>3, <2>4 DEF Deliver, effects
<1>4. ASSUME NEW w \in Workers, Claim(w) PROVE Types'
  <2>1. claim' \in [Commits -> Task \cup {None}]
    BY <1>4, HoldingTypes DEF Claim
  <2>2. pc' \in [Workers -> Steps]
    BY <1>4 DEF Claim, Goto
  <2>3. QED
    BY <1>4, <2>1, <2>2 DEF Claim, broker, effects
<1>5. ASSUME NEW w \in Workers, Skip(w) PROVE Types'
  <2>1. pc' \in [Workers -> Steps]
    BY <1>5 DEF Skip, Goto
  <2>2. QED
    BY <1>5, <2>1 DEF Skip, broker, effects
<1>6. ASSUME NEW w \in Workers, ClaimRaises(w) PROVE Types'
  <2>1. claim' \in [Commits -> Task \cup {None}]
    BY <1>6, HoldingTypes DEF ClaimRaises
  <2>2. pc' \in [Workers -> Steps]
    BY <1>6 DEF ClaimRaises, Goto
  <2>3. faults' \in Nat
    BY <1>6 DEF ClaimRaises, Fault
  <2>4. QED
    BY <1>6, <2>1, <2>2, <2>3 DEF ClaimRaises, broker, effects
<1>7. ASSUME NEW w \in Workers, Review(w) PROVE Types'
  <2>1. result' \in [Workers -> Results \cup {None}]
    BY <1>7, OutcomesAssumption DEF Review
  <2>2. pc' \in [Workers -> Steps]
    BY <1>7 DEF Review, AfterReview, Goto
  <2>3. QED
    BY <1>7, <2>1, <2>2 DEF Review, broker, effects
<1>8. ASSUME NEW w \in Workers, ReviewRaises(w) PROVE Types'
  <2>1. pc' \in [Workers -> Steps]
    BY <1>8 DEF ReviewRaises, Goto
  <2>2. faults' \in Nat
    BY <1>8 DEF ReviewRaises, Fault
  <2>3. QED
    BY <1>8, <2>1, <2>2 DEF ReviewRaises, broker, effects
<1>9. ASSUME NEW w \in Workers, Release(w) PROVE Types'
  <2>1. claim' \in [Commits -> Task \cup {None}]
    BY <1>9 DEF Release
  <2>2. pc' \in [Workers -> Steps]
    BY <1>9 DEF Release, Goto
  <2>3. QED
    BY <1>9, <2>1, <2>2 DEF Release, broker, effects
<1>10. ASSUME NEW w \in Workers, ReleaseRaises(w) PROVE Types'
  <2>1. claim' \in [Commits -> Task \cup {None}]
    BY <1>10 DEF ReleaseRaises
  <2>2. pc' \in [Workers -> Steps]
    BY <1>10 DEF ReleaseRaises, Goto
  <2>3. faults' \in Nat
    BY <1>10 DEF ReleaseRaises, Fault
  <2>4. QED
    BY <1>10, <2>1, <2>2, <2>3 DEF ReleaseRaises, broker, effects
<1>11. ASSUME NEW w \in Workers, Publish(w) PROVE Types'
  <2>1. checkRuns' \in [Commits -> Seq([file : Files, conclusion : Conclusions])]
    BY <1>11, CheckRunType DEF Publish
  <2>2. pc' \in [Workers -> Steps]
    BY <1>11 DEF Publish, Goto
  <2>3. QED
    BY <1>11, <2>1, <2>2 DEF Publish, broker
<1>12. ASSUME NEW w \in Workers, PublishRaises(w) PROVE Types'
  <2>1. checkRuns' \in [Commits -> Seq([file : Files, conclusion : Conclusions])]
    BY <1>12, CheckRunType DEF PublishRaises
  <2>2. pc' \in [Workers -> Steps]
    BY <1>12 DEF PublishRaises, Goto
  <2>3. faults' \in Nat
    BY <1>12 DEF PublishRaises, Fault
  <2>4. QED
    BY <1>12, <2>1, <2>2, <2>3 DEF PublishRaises, broker
<1>13. ASSUME NEW w \in Workers, Notify(w) PROVE Types'
  <2>1. alerts' \in [Commits -> Nat]
    BY <1>13, HoldingTypes, CountType DEF Notify
  <2>2. pc' \in [Workers -> Steps]
    BY <1>13 DEF Notify, Goto
  <2>3. QED
    BY <1>13, <2>1, <2>2 DEF Notify, broker
<1>14. ASSUME NEW w \in Workers, SaveReview(w) PROVE Types'
  <2>1. history' \in [Commits -> Nat]
    <3>1. Commit(w) \in Commits
      BY <1>14, HoldingTypes DEF SaveReview
    <3>2. Count(history, Commit(w)) \in [Commits -> Nat]
      BY <3>1, CountType
    <3>3. QED
      BY <1>14, <3>2 DEF SaveReview
  <2>2. pc' \in [Workers -> Steps]
    BY <1>14 DEF SaveReview, Goto
  <2>3. faults' \in Nat
    BY <1>14 DEF SaveReview, Fault
  <2>4. QED
    BY <1>14, <2>1, <2>2, <2>3 DEF SaveReview, broker
<1>15. ASSUME NEW w \in Workers, RecordAudit(w) PROVE Types'
  <2>1. trail' \in [Commits -> Nat]
    <3>1. Commit(w) \in Commits
      BY <1>15, HoldingTypes DEF RecordAudit
    <3>2. Count(trail, Commit(w)) \in [Commits -> Nat]
      BY <3>1, CountType
    <3>3. QED
      BY <1>15, <3>2 DEF RecordAudit
  <2>2. completed' \in [Task -> Nat]
    BY <1>15, HoldingTypes, CountType DEF RecordAudit
  <2>3. pc' \in [Workers -> Steps]
    BY <1>15 DEF RecordAudit, Goto
  <2>4. faults' \in Nat
    BY <1>15 DEF RecordAudit, Fault
  <2>5. QED
    BY <1>15, <2>1, <2>2, <2>3, <2>4 DEF RecordAudit, broker
<1>16. ASSUME NEW w \in Workers, Retry(w) PROVE Types'
  <2>1. queue' \in [Message -> Nat]
    BY <1>16, EnqueueType DEF Retry
  <2>2. pc' \in [Workers -> Steps]
    BY <1>16 DEF Retry, Goto
  <2>3. QED
    BY <1>16, <2>1, <2>2 DEF Retry, effects
<1>17. ASSUME NEW w \in Workers, OnFailure(w) PROVE Types'
  <2>1. dlq' \in [Task -> Nat]
    BY <1>17, HoldingTypes, CountType DEF OnFailure
  <2>2. pc' \in [Workers -> Steps]
    BY <1>17 DEF OnFailure, Goto
  <2>3. QED
    BY <1>17, <2>1, <2>2 DEF OnFailure, broker, effects
<1>18. ASSUME NEW w \in Workers, OnFailureRaises(w) PROVE Types'
  <2>1. dlq' \in [Task -> Nat]
    <3>1. msg[w].task \in Task
      BY <1>18, HoldingTypes DEF OnFailureRaises
    <3>2. Count(dlq, msg[w].task) \in [Task -> Nat]
      BY <3>1, CountType
    <3>3. QED
      BY <1>18, <3>2 DEF OnFailureRaises
  <2>2. pc' \in [Workers -> Steps]
    BY <1>18 DEF OnFailureRaises, Goto
  <2>3. faults' \in Nat
    BY <1>18 DEF OnFailureRaises, Fault
  <2>4. QED
    BY <1>18, <2>1, <2>2, <2>3 DEF OnFailureRaises, broker, effects
<1>19. ASSUME NEW w \in Workers, Ack(w) PROVE Types'
  <2>1. pc' \in [Workers -> Steps]
    BY <1>19 DEF Ack, Goto
  <2>2. msg' \in [Workers -> Message \cup {None}]
    BY <1>19 DEF Ack
  <2>3. leased' \in [Workers -> BOOLEAN]
    BY <1>19 DEF Ack
  <2>4. result' \in [Workers -> Results \cup {None}]
    BY <1>19 DEF Ack
  <2>5. QED
    BY <1>19, <2>1, <2>2, <2>3, <2>4 DEF Ack, broker, effects
<1>20. ASSUME NEW w \in Workers, Crash(w) PROVE Types'
  <2>1. queue' \in [Message -> Nat]
    BY <1>20, EnqueueType DEF Crash
  <2>2. pc' \in [Workers -> Steps]
    BY <1>20 DEF Crash, Goto
  <2>3. msg' \in [Workers -> Message \cup {None}]
    BY <1>20 DEF Crash
  <2>4. leased' \in [Workers -> BOOLEAN]
    BY <1>20 DEF Crash
  <2>5. result' \in [Workers -> Results \cup {None}]
    BY <1>20 DEF Crash
  <2>6. faults' \in Nat
    BY <1>20 DEF Crash, Fault
  <2>7. QED
    BY <1>20, <2>1, <2>2, <2>3, <2>4, <2>5, <2>6 DEF Crash, effects
<1>21. ASSUME NEW w \in Workers, Redeliver(w) PROVE Types'
  <2>1. queue' \in [Message -> Nat]
    BY <1>21, EnqueueType DEF Redeliver
  <2>2. leased' \in [Workers -> BOOLEAN]
    BY <1>21 DEF Redeliver
  <2>3. faults' \in Nat
    BY <1>21 DEF Redeliver, Fault
  <2>4. QED
    BY <1>21, <2>1, <2>2, <2>3 DEF Redeliver, effects
<1>22. ASSUME NEW c \in Commits, Lapse(c) PROVE Types'
  <2>1. claim' \in [Commits -> Task \cup {None}]
    BY <1>22, CountType DEF Lapse
  <2>2. lapses' \in [Commits -> Nat]
    BY <1>22, CountType DEF Lapse
  <2>3. faults' \in Nat
    BY <1>22 DEF Lapse, Fault
  <2>4. QED
    BY <1>22, <2>1, <2>2, <2>3 DEF Lapse, broker, worker, effects
<1>23. ASSUME NEW w \in Workers, RetryLost(w) PROVE Types'
  <2>1. queue' \in [Message -> Nat]
    BY <1>23, EnqueueType DEF RetryLost
  <2>2. pc' \in [Workers -> Steps]
    BY <1>23 DEF RetryLost, Goto
  <2>3. faults' \in Nat
    BY <1>23 DEF RetryLost, Fault
  <2>4. QED
    BY <1>23, <2>1, <2>2, <2>3 DEF RetryLost, effects
<1>24. CASE UNCHANGED vars
  BY <1>24 DEF vars
<1>25. QED
  BY <1>1, <1>2, <1>3, <1>4, <1>5, <1>6, <1>7, <1>8, <1>9, <1>10, <1>11, <1>12, <1>13, <1>14, <1>15, <1>16, <1>17, <1>18, <1>19, <1>20, <1>21, <1>22, <1>23, <1>24 DEF Next, Work

\* Every step leaves a busy worker with a message, and with a result once it
\* has one to report.
LEMMA EquippedStep == TypeOK /\ [Next]_vars => Equipped'
<1> SUFFICES ASSUME TypeOK, [Next]_vars, NEW v \in Workers
             PROVE  /\ pc'[v] # "idle" => msg'[v] \in Message
                    /\ pc'[v] \in {"publish", "notify"} => result'[v] \in Results
  BY DEF Equipped
<1> DEFINE Goal == /\ pc'[v] # "idle" => msg'[v] \in Message
                   /\ pc'[v] \in {"publish", "notify"} => result'[v] \in Results
<1> USE DEF TypeOK, Types, Equipped, Goto
<1>1. CASE UNCHANGED <<pc, msg, result>>
  BY <1>1
<1>2. ASSUME NEW w \in Workers, NEW m \in Message, Deliver(w, m) PROVE Goal
  BY <1>2 DEF Deliver
<1>3. ASSUME NEW w \in Workers, Claim(w) \/ Skip(w) \/ ClaimRaises(w) PROVE Goal
  BY <1>3 DEF Claim, Skip, ClaimRaises
<1>4. ASSUME NEW w \in Workers, Review(w) \/ ReviewRaises(w) PROVE Goal
  BY <1>4, OutcomesAssumption DEF Review, AfterReview, ReviewRaises
<1>5. ASSUME NEW w \in Workers, Release(w) \/ ReleaseRaises(w) PROVE Goal
  BY <1>5 DEF Release, ReleaseRaises
<1>6. ASSUME NEW w \in Workers, Publish(w) \/ PublishRaises(w) PROVE Goal
  BY <1>6 DEF Publish, PublishRaises
<1>7. ASSUME NEW w \in Workers, Notify(w) \/ SaveReview(w) \/ RecordAudit(w) PROVE Goal
  BY <1>7 DEF Notify, SaveReview, RecordAudit
<1>8. ASSUME NEW w \in Workers, Retry(w) \/ RetryLost(w) \/ OnFailure(w) \/ OnFailureRaises(w)
      PROVE  Goal
  BY <1>8 DEF Retry, RetryLost, OnFailure, OnFailureRaises
<1>9. ASSUME NEW w \in Workers, Ack(w) \/ Crash(w) PROVE Goal
  BY <1>9 DEF Ack, Crash
<1>10. ASSUME \/ \E p \in Pushes : Webhook(p) \/ WebhookCutShort(p)
              \/ \E w \in Workers : Redeliver(w)
              \/ \E c \in Commits : Lapse(c)
              \/ UNCHANGED vars
       PROVE  Goal
  BY <1>1, <1>10 DEF Webhook, WebhookCutShort, Redeliver, Lapse, worker, vars
<1>11. QED
  BY <1>2, <1>3, <1>4, <1>5, <1>6, <1>7, <1>8, <1>9, <1>10, Zenon DEF Next, Work

\* The type invariant is inductive.
LEMMA TypeStep == TypeOK /\ [Next]_vars => TypeOK'
  BY TypesStep, EquippedStep DEF TypeOK

\* Every variable keeps to its type in every reachable state.
THEOREM TypeCorrect == Spec => []TypeOK
  BY TypeInit, TypeStep, PTL DEF Spec

-----------------------------------------------------------------------------
(* The claim: exclusive, and good for one report.                          *)

\* The invariant holds before the first delivery.
LEMMA InvInit == Init => IInv
<1> SUFFICES ASSUME Init PROVE IInv
  OBVIOUS
<1>1. TypeOK
  BY TypeInit
<1>2. ClaimExclusive /\ Unspent
  BY DEF Init, ClaimExclusive, Unspent, Section, BeforeCheckRun, BeforeAlert, BeforeHistory
<1>3. WithinBudget
  BY DEF Init, WithinBudget, Budget
<1>4. QED
  BY <1>1, <1>2, <1>3 DEF IInv

\* No worker enters the claimed section or moves back in it.
Forward ==
    \A v \in Workers :
        /\ pc'[v] \in Section => pc[v] \in Section /\ msg'[v] = msg[v]
        /\ pc'[v] \in BeforeCheckRun => pc[v] \in BeforeCheckRun
        /\ pc'[v] \in BeforeAlert => pc[v] \in BeforeAlert
        /\ pc'[v] \in BeforeHistory => pc[v] \in BeforeHistory

\* A step that only moves workers forward, and leaves the claims and the
\* reports alone, preserves the invariant.
LEMMA CalmStep ==
    ASSUME IInv, TypeOK', Forward, UNCHANGED <<claim, lapses, effects>>
    PROVE  IInv'
<1>1. \A v \in Workers : pc'[v] \in Section => Commit(v)' = Commit(v) /\ msg'[v].task = msg[v].task
  BY DEF Forward, Commit
<1>2. ClaimExclusive'
  BY <1>1 DEF IInv, ClaimExclusive, Forward
<1>3. WithinBudget'
  BY DEF IInv, WithinBudget, Budget, effects
<1>4. Unspent'
  <2> SUFFICES ASSUME NEW v \in Workers, pc'[v] \in Section
               PROVE  /\ pc'[v] \in BeforeCheckRun => Len(checkRuns'[Commit(v)']) <= lapses'[Commit(v)']
                      /\ pc'[v] \in BeforeAlert => alerts'[Commit(v)'] <= lapses'[Commit(v)']
                      /\ pc'[v] \in BeforeHistory => history'[Commit(v)'] <= lapses'[Commit(v)']
                      /\ trail'[Commit(v)'] <= lapses'[Commit(v)']
    BY DEF Unspent, BeforeCheckRun, BeforeAlert, BeforeHistory, Section
  <2>1. Commit(v)' = Commit(v)
    BY <1>1
  <2>2. QED
    BY <2>1 DEF IInv, Unspent, Forward, effects
<1>5. QED
  BY <1>2, <1>3, <1>4 DEF IInv

\* A worker in the section knows its commit, which its own task has claimed.
LEMMA InSection ==
    ASSUME TypeOK, NEW w \in Workers, pc[w] \in Section
    PROVE  Commit(w) \in Commits /\ msg[w].task \in Task /\ msg[w].task # None
  BY HoldingTypes, NoneAssumption DEF Section, Task

\* Every step of the pipeline preserves the invariant: the one that claims opens
\* a new budget, the ones that report use it up, and the others touch neither.
LEMMA InvStep == IInv /\ [Next]_vars => IInv'
<1> SUFFICES ASSUME IInv, [Next]_vars PROVE IInv'
  OBVIOUS
<1> USE DEF Goto, Section, BeforeCheckRun, BeforeAlert, BeforeHistory
<1>a. TypeOK /\ Types /\ TypeOK'
  BY TypeStep DEF IInv, TypeOK
<1>b. ASSUME NEW w \in Workers,
             Skip(w) \/ Review(w) \/ ReviewRaises(w) \/ Retry(w) \/ OnFailure(w)
                \/ OnFailureRaises(w) \/ Ack(w) \/ Crash(w) \/ Redeliver(w) \/ RetryLost(w)
      PROVE  IInv'
  <2>1. UNCHANGED <<claim, lapses, effects>>
    BY <1>b DEF Skip, Review, ReviewRaises, Retry, OnFailure, OnFailureRaises, Ack, Crash, Redeliver,
       RetryLost
  <2>2. Forward
    BY <1>a, <1>b DEF Forward, Types, AfterReview, Skip, Review, ReviewRaises, Retry, OnFailure,
       OnFailureRaises, Ack, Crash, Redeliver, RetryLost
  <2>3. QED
    BY <1>a, <2>1, <2>2, CalmStep
<1>c. ASSUME NEW w \in Workers, NEW m \in Message, Deliver(w, m) PROVE IInv'
  <2>1. Forward /\ UNCHANGED <<claim, lapses, effects>>
    BY <1>a, <1>c DEF Forward, Types, Deliver
  <2>2. QED
    BY <1>a, <2>1, CalmStep
<1>d. ASSUME NEW p \in Pushes, Webhook(p) \/ WebhookCutShort(p) PROVE IInv'
  <2>1. Forward /\ UNCHANGED <<claim, lapses, effects>>
    BY <1>d DEF Forward, Webhook, WebhookCutShort, worker
  <2>2. QED
    BY <1>a, <2>1, CalmStep
<1>e. CASE UNCHANGED vars
  <2>1. Forward /\ UNCHANGED <<claim, lapses, effects>>
    BY <1>e DEF Forward, vars, effects
  <2>2. QED
    BY <1>a, <2>1, CalmStep
<1>f. ASSUME NEW v \in Workers, pc[v] \in Section
      PROVE  Commit(v) \in Commits /\ claim[Commit(v)] = msg[v].task /\ claim[Commit(v)] # None
  BY <1>a, <1>f, InSection DEF IInv, ClaimExclusive
<1>1. ASSUME NEW w \in Workers, Claim(w) PROVE IInv'
  <2>1. Commit(w) \in Commits /\ msg[w].task \in Task /\ msg[w].task # None
    BY <1>a, <1>1, HoldingTypes, NoneAssumption DEF Claim, Task
  <2>2. \A v \in Workers : Commit(v)' = Commit(v)
    BY <1>1 DEF Claim, Commit
  <2>3. \A v \in Workers \ {w} : pc'[v] = pc[v] /\ (pc[v] \in Section => Commit(v) # Commit(w))
    BY <1>a, <1>1, <1>f DEF Claim, Types
  <2>4. pc'[w] = "review" /\ msg' = msg /\ UNCHANGED <<lapses, effects>>
    BY <1>a, <1>1 DEF Claim, Types
  <2>5. /\ claim'[Commit(w)] = msg[w].task
        /\ \A c \in Commits \ {Commit(w)} : claim'[c] = claim[c]
        /\ claim[Commit(w)] = None
    BY <1>a, <1>1, <2>1 DEF Claim, Types
  <2>6. ClaimExclusive'
    BY <1>f, <2>1, <2>2, <2>3, <2>4, <2>5 DEF IInv, ClaimExclusive
  <2>7. WithinBudget'
    BY <1>a, <2>1, <2>4, <2>5 DEF IInv, WithinBudget, Budget, effects, Types
  <2>8. Unspent'
    BY <1>a, <2>1, <2>2, <2>3, <2>4, <2>5 DEF IInv, Unspent, WithinBudget, Budget, effects, Types
  <2>9. QED
    BY <1>a, <2>6, <2>7, <2>8 DEF IInv
<1>2. ASSUME NEW w \in Workers, Release(w) \/ ReleaseRaises(w) PROVE IInv'
  <2>1. Commit(w) \in Commits
    BY <1>2, <1>f DEF Release, ReleaseRaises
  <2>2. \A v \in Workers : Commit(v)' = Commit(v)
    BY <1>2 DEF Release, ReleaseRaises, Commit
  <2>3. \A v \in Workers \ {w} : pc'[v] = pc[v] /\ (pc[v] \in Section => Commit(v) # Commit(w))
    BY <1>a, <1>2 DEF Release, ReleaseRaises, IInv, ClaimExclusive, Types
  <2>4. pc[w] = "release" /\ pc'[w] = "raised" /\ UNCHANGED <<msg, lapses, effects>>
    BY <1>a, <1>2 DEF Release, ReleaseRaises, Types
  <2>5. /\ claim'[Commit(w)] \in {claim[Commit(w)], None}
        /\ \A c \in Commits \ {Commit(w)} : claim'[c] = claim[c]
    BY <1>a, <1>2, <2>1 DEF Release, ReleaseRaises, Types
  <2>6. ClaimExclusive'
    BY <1>f, <2>2, <2>3, <2>4, <2>5 DEF IInv, ClaimExclusive
  <2>7. WithinBudget'
    <3> SUFFICES ASSUME NEW c \in Commits PROVE WithinBudget!(c)'
      BY DEF WithinBudget
    <3>1. CASE c = Commit(w)
      BY <1>a, <2>1, <2>4, <2>5, <3>1 DEF IInv, WithinBudget, Unspent, Budget, effects, Types
    <3>2. CASE c # Commit(w)
      BY <2>4, <2>5, <3>2 DEF IInv, WithinBudget, Budget, effects
    <3>3. QED
      BY <3>1, <3>2
  <2>8. Unspent'
    BY <1>f, <2>2, <2>3, <2>4 DEF IInv, Unspent, effects
  <2>9. QED
    BY <1>a, <2>6, <2>7, <2>8 DEF IInv
<1>3. ASSUME NEW w \in Workers, ClaimRaises(w) PROVE IInv'
  <2>1. Commit(w) \in Commits /\ msg[w].task \in Task /\ msg[w].task # None
    BY <1>a, <1>3, HoldingTypes, NoneAssumption DEF ClaimRaises, Task
  <2>2. \A v \in Workers : Commit(v)' = Commit(v)
    BY <1>3 DEF ClaimRaises, Commit
  <2>3. \A v \in Workers \ {w} : pc'[v] = pc[v]
    BY <1>a, <1>3 DEF ClaimRaises, Types
  <2>4. pc'[w] = "raised" /\ msg' = msg /\ UNCHANGED <<lapses, effects>>
    BY <1>a, <1>3 DEF ClaimRaises, Types
  <2>5. \A c \in Commits : claim'[c] = claim[c] \/ claim[c] = None
    BY <1>a, <1>3, <2>1 DEF ClaimRaises, Types
  <2>6. ClaimExclusive'
    BY <1>f, <2>2, <2>3, <2>4, <2>5 DEF IInv, ClaimExclusive
  <2>7. WithinBudget'
    <3> SUFFICES ASSUME NEW c \in Commits PROVE WithinBudget!(c)'
      BY DEF WithinBudget
    <3>1. Budget(c)' \in {Budget(c), Budget(c) + 1} /\ Budget(c) \in Nat
      BY <1>a, <2>4, <2>5 DEF Budget, Types
    <3>2. Len(checkRuns[c]) \in Nat /\ alerts[c] \in Nat /\ history[c] \in Nat /\ trail[c] \in Nat
      BY <1>a DEF Types
    <3>3. QED
      BY <2>4, <3>1, <3>2 DEF IInv, WithinBudget, effects
  <2>8. Unspent'
    BY <2>2, <2>3, <2>4 DEF IInv, Unspent, effects
  <2>9. QED
    BY <1>a, <2>6, <2>7, <2>8 DEF IInv
<1>4. ASSUME NEW w \in Workers, Publish(w) \/ PublishRaises(w) PROVE IInv'
  <2>1. Commit(w) \in Commits /\ claim[Commit(w)] # None
    BY <1>4, <1>f DEF Publish, PublishRaises
  <2>2. \A v \in Workers : Commit(v)' = Commit(v)
    BY <1>4 DEF Publish, PublishRaises, Commit
  <2>3. \A v \in Workers \ {w} : pc'[v] = pc[v] /\ (pc[v] \in Section => Commit(v) # Commit(w))
    BY <1>a, <1>4 DEF Publish, PublishRaises, IInv, ClaimExclusive, Types
  <2>4. /\ pc[w] = "publish" /\ pc'[w] \in {"notify", "raised"}
        /\ UNCHANGED <<claim, msg, lapses, alerts, history, trail>>
    BY <1>a, <1>4 DEF Publish, PublishRaises, Types
  <2>5. /\ Len(checkRuns'[Commit(w)]) \in {Len(checkRuns[Commit(w)]), Len(checkRuns[Commit(w)]) + 1}
        /\ \A c \in Commits \ {Commit(w)} : checkRuns'[c] = checkRuns[c]
        /\ \A c \in Commits : Len(checkRuns[c]) \in Nat
    <3>1. CASE UNCHANGED checkRuns
      BY <1>a, <2>1, <3>1 DEF Types
    <3>2. CASE CheckRun(w)
      <4>1. \A c \in Commits : Len(checkRuns[c]) \in Nat
        BY <1>a DEF Types
      <4>2. PICK run : checkRuns' = [checkRuns EXCEPT ![Commit(w)] = Append(checkRuns[Commit(w)], run)]
        BY <3>2 DEF CheckRun
      <4>3. checkRuns'[Commit(w)] = Append(checkRuns[Commit(w)], run)
        BY <1>a, <2>1, <4>2 DEF Types
      <4>4. Len(checkRuns'[Commit(w)]) = Len(checkRuns[Commit(w)]) + 1
        BY <1>a, <2>1, <4>3 DEF Types
      <4>5. QED
        BY <1>a, <4>1, <4>2, <4>4 DEF Types
    <3>3. QED
      BY <1>4, <3>1, <3>2 DEF Publish, PublishRaises
  <2>6. ClaimExclusive'
    BY <1>f, <2>2, <2>3, <2>4 DEF IInv, ClaimExclusive
  <2>7. WithinBudget'
    <3> SUFFICES ASSUME NEW c \in Commits PROVE WithinBudget!(c)'
      BY DEF WithinBudget
    <3>1. Budget(c)' = Budget(c) /\ Budget(Commit(w)) = lapses[Commit(w)] + 1
      BY <2>1, <2>4 DEF Budget
    <3>2. CASE c = Commit(w)
      BY <1>a, <2>1, <2>4, <2>5, <3>1, <3>2 DEF IInv, WithinBudget, Unspent, Types
    <3>3. CASE c # Commit(w)
      BY <2>4, <2>5, <3>1, <3>3 DEF IInv, WithinBudget
    <3>4. QED
      BY <3>2, <3>3
  <2>8. Unspent'
    <3> SUFFICES ASSUME NEW v \in Workers, pc'[v] \in Section PROVE Unspent!(v)'
      BY DEF Unspent
    <3>1. CASE v = w
      BY <2>2, <2>4, <3>1 DEF IInv, Unspent
    <3>2. CASE v # w
      BY <1>f, <2>2, <2>3, <2>4, <2>5, <3>2 DEF IInv, Unspent
    <3>3. QED
      BY <3>1, <3>2
  <2>9. QED
    BY <1>a, <2>6, <2>7, <2>8 DEF IInv
<1>5. ASSUME NEW w \in Workers, Notify(w) PROVE IInv'
  <2>1. Commit(w) \in Commits /\ claim[Commit(w)] # None
    BY <1>5, <1>f DEF Notify
  <2>2. \A v \in Workers : Commit(v)' = Commit(v)
    BY <1>5 DEF Notify, Commit
  <2>3. \A v \in Workers \ {w} : pc'[v] = pc[v] /\ (pc[v] \in Section => Commit(v) # Commit(w))
    BY <1>a, <1>5 DEF Notify, IInv, ClaimExclusive, Types
  <2>4. pc[w] = "notify" /\ pc'[w] = "save" /\ UNCHANGED <<claim, msg, lapses, checkRuns, history, trail>>
    BY <1>a, <1>5 DEF Notify, Types
  <2>5. /\ alerts'[Commit(w)] \in {alerts[Commit(w)], alerts[Commit(w)] + 1}
        /\ \A c \in Commits \ {Commit(w)} : alerts'[c] = alerts[c]
    BY <1>a, <1>5, <2>1 DEF Notify, Types, Count
  <2>6. ClaimExclusive'
    BY <1>f, <2>2, <2>3, <2>4 DEF IInv, ClaimExclusive
  <2>7. WithinBudget'
    <3> SUFFICES ASSUME NEW c \in Commits PROVE WithinBudget!(c)'
      BY DEF WithinBudget
    <3>1. Budget(c)' = Budget(c) /\ Budget(Commit(w)) = lapses[Commit(w)] + 1
      BY <2>1, <2>4 DEF Budget
    <3>2. CASE c = Commit(w)
      BY <1>a, <2>1, <2>4, <2>5, <3>1, <3>2 DEF IInv, WithinBudget, Unspent, Types
    <3>3. CASE c # Commit(w)
      BY <2>4, <2>5, <3>1, <3>3 DEF IInv, WithinBudget
    <3>4. QED
      BY <3>2, <3>3
  <2>8. Unspent'
    <3> SUFFICES ASSUME NEW v \in Workers, pc'[v] \in Section PROVE Unspent!(v)'
      BY DEF Unspent
    <3>1. CASE v = w
      BY <2>2, <2>4, <3>1 DEF IInv, Unspent
    <3>2. CASE v # w
      BY <1>f, <2>2, <2>3, <2>4, <2>5, <3>2 DEF IInv, Unspent
    <3>3. QED
      BY <3>1, <3>2
  <2>9. QED
    BY <1>a, <2>6, <2>7, <2>8 DEF IInv
<1>6. ASSUME NEW w \in Workers, SaveReview(w) PROVE IInv'
  <2>1. Commit(w) \in Commits /\ claim[Commit(w)] # None
    BY <1>6, <1>f DEF SaveReview
  <2>2. \A v \in Workers : Commit(v)' = Commit(v)
    BY <1>6 DEF SaveReview, Commit
  <2>3. \A v \in Workers \ {w} : pc'[v] = pc[v] /\ (pc[v] \in Section => Commit(v) # Commit(w))
    BY <1>a, <1>6 DEF SaveReview, IInv, ClaimExclusive, Types
  <2>4. pc[w] = "save" /\ pc'[w] = "audit" /\ UNCHANGED <<claim, msg, lapses, checkRuns, alerts, trail>>
    BY <1>a, <1>6 DEF SaveReview, Types
  <2>5. /\ history'[Commit(w)] \in {history[Commit(w)], history[Commit(w)] + 1}
        /\ \A c \in Commits \ {Commit(w)} : history'[c] = history[c]
    BY <1>a, <1>6, <2>1 DEF SaveReview, Types, Count
  <2>6. ClaimExclusive'
    BY <1>f, <2>2, <2>3, <2>4 DEF IInv, ClaimExclusive
  <2>7. WithinBudget'
    <3> SUFFICES ASSUME NEW c \in Commits PROVE WithinBudget!(c)'
      BY DEF WithinBudget
    <3>1. Budget(c)' = Budget(c) /\ Budget(Commit(w)) = lapses[Commit(w)] + 1
      BY <2>1, <2>4 DEF Budget
    <3>2. CASE c = Commit(w)
      BY <1>a, <2>1, <2>4, <2>5, <3>1, <3>2 DEF IInv, WithinBudget, Unspent, Types
    <3>3. CASE c # Commit(w)
      BY <2>4, <2>5, <3>1, <3>3 DEF IInv, WithinBudget
    <3>4. QED
      BY <3>2, <3>3
  <2>8. Unspent'
    <3> SUFFICES ASSUME NEW v \in Workers, pc'[v] \in Section PROVE Unspent!(v)'
      BY DEF Unspent
    <3>1. CASE v = w
      BY <2>2, <2>4, <3>1 DEF IInv, Unspent
    <3>2. CASE v # w
      BY <1>f, <2>2, <2>3, <2>4, <2>5, <3>2 DEF IInv, Unspent
    <3>3. QED
      BY <3>1, <3>2
  <2>9. QED
    BY <1>a, <2>6, <2>7, <2>8 DEF IInv
<1>7. ASSUME NEW w \in Workers, RecordAudit(w) PROVE IInv'
  <2>1. Commit(w) \in Commits /\ claim[Commit(w)] # None
    BY <1>7, <1>f DEF RecordAudit
  <2>2. \A v \in Workers : Commit(v)' = Commit(v)
    BY <1>7 DEF RecordAudit, Commit
  <2>3. \A v \in Workers \ {w} : pc'[v] = pc[v] /\ (pc[v] \in Section => Commit(v) # Commit(w))
    BY <1>a, <1>7 DEF RecordAudit, IInv, ClaimExclusive, Types
  <2>4. pc[w] = "audit" /\ pc'[w] = "ack" /\ UNCHANGED <<claim, msg, lapses, checkRuns, alerts, history>>
    BY <1>a, <1>7 DEF RecordAudit, Types
  <2>5. /\ trail'[Commit(w)] \in {trail[Commit(w)], trail[Commit(w)] + 1}
        /\ \A c \in Commits \ {Commit(w)} : trail'[c] = trail[c]
    BY <1>a, <1>7, <2>1 DEF RecordAudit, Types, Count
  <2>6. ClaimExclusive'
    BY <1>f, <2>2, <2>3, <2>4 DEF IInv, ClaimExclusive
  <2>7. WithinBudget'
    <3> SUFFICES ASSUME NEW c \in Commits PROVE WithinBudget!(c)'
      BY DEF WithinBudget
    <3>1. Budget(c)' = Budget(c) /\ Budget(Commit(w)) = lapses[Commit(w)] + 1
      BY <2>1, <2>4 DEF Budget
    <3>2. CASE c = Commit(w)
      BY <1>a, <2>1, <2>4, <2>5, <3>1, <3>2 DEF IInv, WithinBudget, Unspent, Types
    <3>3. CASE c # Commit(w)
      BY <2>4, <2>5, <3>1, <3>3 DEF IInv, WithinBudget
    <3>4. QED
      BY <3>2, <3>3
  <2>8. Unspent'
    <3> SUFFICES ASSUME NEW v \in Workers, pc'[v] \in Section PROVE Unspent!(v)'
      BY DEF Unspent
    <3>1. CASE v = w
      BY <2>2, <2>4, <3>1 DEF IInv, Unspent
    <3>2. CASE v # w
      BY <1>f, <2>2, <2>3, <2>4, <2>5, <3>2 DEF IInv, Unspent
    <3>3. QED
      BY <3>1, <3>2
  <2>9. QED
    BY <1>a, <2>6, <2>7, <2>8 DEF IInv
<1>8. ASSUME NEW c \in Commits, Lapse(c) PROVE IInv'
  <2>1. pc' = pc /\ msg' = msg /\ UNCHANGED effects
    BY <1>8 DEF Lapse, worker
  <2>2. \A v \in Workers : pc[v] \in Section => Commit(v) # c /\ Commit(v) \in Commits
    BY <1>8, <1>f DEF Lapse, Busy
  <2>3. /\ claim'[c] = None /\ lapses'[c] = lapses[c] + 1 /\ claim[c] # None
        /\ \A d \in Commits \ {c} : claim'[d] = claim[d] /\ lapses'[d] = lapses[d]
    BY <1>a, <1>8 DEF Lapse, Count, Types
  <2>4. \A v \in Workers : Commit(v)' = Commit(v)
    BY <2>1 DEF Commit
  <2>5. ClaimExclusive'
    BY <2>1, <2>2, <2>3, <2>4 DEF IInv, ClaimExclusive
  <2>6. ASSUME NEW d \in Commits PROVE Budget(d)' = Budget(d)
    <3>1. lapses[d] \in Nat
      BY <1>a DEF Types
    <3>2. CASE d = c
      BY <2>3, <3>1, <3>2 DEF Budget
    <3>3. CASE d # c
      BY <2>3, <3>3 DEF Budget
    <3>4. QED
      BY <3>2, <3>3
  <2>7. WithinBudget'
    <3> SUFFICES ASSUME NEW d \in Commits PROVE WithinBudget!(d)'
      BY DEF WithinBudget
    <3>1. QED
      BY <2>1, <2>6 DEF IInv, WithinBudget, effects
  <2>8. Unspent'
    BY <2>1, <2>2, <2>3, <2>4 DEF IInv, Unspent, effects
  <2>9. QED
    BY <1>a, <2>5, <2>7, <2>8 DEF IInv
<1>9. QED
  BY <1>b, <1>c, <1>d, <1>e, <1>1, <1>2, <1>3, <1>4, <1>5, <1>6, <1>7, <1>8, Zenon DEF Next, Work

\* The invariant says that reports keep within the claims.
LEMMA InvSafe == IInv => ReportedOnce
  BY DEF IInv, TypeOK, Types, WithinBudget, Budget, ReportedOnce

\* The strengthened invariant holds in every reachable state.
THEOREM Invariant == Spec => []IInv
  BY InvInit, InvStep, PTL DEF Spec

\* Two workers never work on one commit at once, and none works without the
\* claim.
THEOREM ClaimIsExclusive == Spec => []ClaimExclusive
<1>1. IInv => ClaimExclusive
  BY DEF IInv
<1>2. QED
  BY <1>1, Invariant, PTL

\* A commit is reported at most once per claim.
THEOREM CommitReportedOnce == Spec => []ReportedOnce
  BY InvSafe, Invariant, PTL

-----------------------------------------------------------------------------
(* The pipeline implements the life cycle of the claim.                    *)

busy == [c \in Commits |-> Busy(c)]

\* Workers that stay in the section, or out of it, leave every commit as busy
\* as it was.
LEMMA BusySame ==
    ASSUME \A v \in Workers : /\ pc'[v] \in Section <=> pc[v] \in Section
                              /\ pc[v] \in Section => msg'[v] = msg[v]
    PROVE  busy' = busy
<1>1. \A v \in Workers : pc[v] \in Section => Commit(v)' = Commit(v)
  BY DEF Commit
<1>2. ASSUME NEW c \in Commits PROVE Busy(c)' = Busy(c)
  BY <1>1 DEF Busy
<1>3. QED
  BY <1>2, Zenon DEF busy

\* The only worker of a commit leaves the section.
LEMMA BusyEnds ==
    ASSUME IInv, NEW w \in Workers, pc[w] \in Section, pc'[w] \notin Section,
           \A v \in Workers \ {w} : pc'[v] = pc[v] /\ msg'[v] = msg[v]
    PROVE  busy[Commit(w)] /\ busy' = [busy EXCEPT ![Commit(w)] = FALSE]
<1>1. Commit(w) \in Commits
  BY InSection DEF IInv
<1>2. \A v \in Workers \ {w} : Commit(v)' = Commit(v)
  BY DEF Commit
<1>3. Busy(Commit(w))
  BY DEF Busy
<1>4. \A v \in Workers \ {w} : pc'[v] \in Section => Commit(v)' # Commit(w)
  BY <1>2 DEF IInv, ClaimExclusive
<1>5. ASSUME NEW c \in Commits PROVE Busy(c)' = IF c = Commit(w) THEN FALSE ELSE Busy(c)
  <2>1. CASE c = Commit(w)
    BY <1>4, <2>1 DEF Busy
  <2>2. CASE c # Commit(w)
    BY <1>2, <2>2 DEF Busy
  <2>3. QED
    BY <2>1, <2>2
<1>6. QED
  BY <1>1, <1>3, <1>5 DEF busy

\* A worker enters the section, for a commit nobody else works on.
LEMMA BusyStarts ==
    ASSUME NEW w \in Workers, Commit(w) \in Commits, pc'[w] \in Section, msg' = msg,
           \A v \in Workers \ {w} : pc'[v] = pc[v]
    PROVE  busy' = [busy EXCEPT ![Commit(w)] = TRUE]
<1>1. \A v \in Workers : Commit(v)' = Commit(v)
  BY DEF Commit
<1>2. ASSUME NEW c \in Commits PROVE Busy(c)' = IF c = Commit(w) THEN TRUE ELSE Busy(c)
  <2>1. CASE c = Commit(w)
    BY <1>1, <2>1 DEF Busy
  <2>2. CASE c # Commit(w)
    BY <1>1, <2>2 DEF Busy
  <2>3. QED
    BY <2>1, <2>2
<1>3. QED
  BY <1>2 DEF busy

\* The abstract state in the vocabulary of the life cycle.
LEMMA LifeInit == Init => Lifecycle!Init
  BY DEF Init, Lifecycle!Init, Busy, Section

\* A step that changes neither who works nor the claims nor the completions
\* is a stutter of the life cycle.
LEMMA LifeStutter ==
    ASSUME busy' = busy, UNCHANGED <<claim, completed>>
    PROVE  UNCHANGED Lifecycle!vars
  BY DEF busy, Lifecycle!vars

\* Every step of the pipeline is a step of the life cycle or a stutter.
LEMMA LifeStep == IInv /\ [Next]_vars => [Lifecycle!Next]_(Lifecycle!vars)
<1> SUFFICES ASSUME IInv, [Next]_vars PROVE [Lifecycle!Next]_(Lifecycle!vars)
  OBVIOUS
<1> DEFINE Goal == [Lifecycle!Next]_(Lifecycle!vars)
<1> USE DEF Goto, Section
<1>a. TypeOK /\ Types /\ Equipped
  BY DEF IInv, TypeOK
<1>b. ASSUME NEW v \in Workers, pc[v] \in Section
      PROVE  /\ Commit(v) \in Commits /\ CommitOfTask(msg[v].task) = Commit(v)
             /\ claim[Commit(v)] = msg[v].task
  BY <1>a, <1>b, InSection DEF IInv, ClaimExclusive, Commit
<1>1. ASSUME NEW w \in Workers,
             Skip(w) \/ Review(w) \/ ReviewRaises(w) \/ Publish(w) \/ Notify(w) \/ SaveReview(w)
                \/ Retry(w) \/ RetryLost(w) \/ OnFailure(w) \/ OnFailureRaises(w) \/ Ack(w)
                \/ Redeliver(w)
      PROVE  Goal
  <2>1. UNCHANGED <<claim, completed>>
    BY <1>1 DEF Skip, Review, ReviewRaises, Publish, Notify, SaveReview, Retry, RetryLost,
       OnFailure, OnFailureRaises, Ack, Redeliver
  <2>2. \A v \in Workers : /\ pc'[v] \in Section <=> pc[v] \in Section
                           /\ pc[v] \in Section => msg'[v] = msg[v]
    BY <1>a, <1>1 DEF Types, AfterReview, Skip, Review, ReviewRaises, Publish, Notify,
       SaveReview, Retry, RetryLost, OnFailure, OnFailureRaises, Ack, Redeliver
  <2>3. QED
    BY <2>1, <2>2, BusySame, LifeStutter
<1>2. ASSUME NEW w \in Workers, NEW m \in Message, Deliver(w, m) PROVE Goal
  <2>1. UNCHANGED <<claim, completed>>
    BY <1>2 DEF Deliver
  <2>2. \A v \in Workers : /\ pc'[v] \in Section <=> pc[v] \in Section
                           /\ pc[v] \in Section => msg'[v] = msg[v]
    BY <1>a, <1>2 DEF Types, Deliver
  <2>3. QED
    BY <2>1, <2>2, BusySame, LifeStutter
<1>3. ASSUME \/ \E p \in Pushes : Webhook(p) \/ WebhookCutShort(p)
             \/ UNCHANGED vars
      PROVE  Goal
  <2>1. UNCHANGED <<claim, completed, pc, msg>>
    BY <1>3 DEF Webhook, WebhookCutShort, worker, vars
  <2>2. QED
    BY <2>1, BusySame, LifeStutter
<1>4. ASSUME NEW w \in Workers, Claim(w) PROVE Goal
  <2>1. Commit(w) \in Commits /\ msg[w].task \in Task /\ CommitOfTask(msg[w].task) = Commit(w)
    BY <1>a, <1>4, HoldingTypes DEF Claim
  <2>2. pc'[w] = "review" /\ msg' = msg /\ \A v \in Workers \ {w} : pc'[v] = pc[v]
    BY <1>a, <1>4 DEF Claim, Types
  <2>3. busy' = [busy EXCEPT ![Commit(w)] = TRUE]
    BY <2>1, <2>2, BusyStarts
  <2>4. Lifecycle!Start(msg[w].task)
    BY <1>4, <2>1, <2>3 DEF Claim, Lifecycle!Start, busy
  <2>5. QED
    BY <2>1, <2>4 DEF Lifecycle!Next
<1>5. ASSUME NEW w \in Workers, ClaimRaises(w) PROVE Goal
  <2>1. msg[w].task \in Task /\ CommitOfTask(msg[w].task) = Commit(w)
    BY <1>a, <1>5, HoldingTypes DEF ClaimRaises
  <2>2. busy' = busy
    <3>1. \A v \in Workers : /\ pc'[v] \in Section <=> pc[v] \in Section
                             /\ pc[v] \in Section => msg'[v] = msg[v]
      BY <1>a, <1>5 DEF Types, ClaimRaises
    <3>2. QED
      BY <3>1, BusySame
  <2>3. CASE UNCHANGED claim
    BY <1>5, <2>2, <2>3, LifeStutter DEF ClaimRaises
  <2>4. CASE ~UNCHANGED claim
    <3>1. Lifecycle!Spoil(msg[w].task)
      BY <1>5, <2>1, <2>2, <2>4 DEF ClaimRaises, Lifecycle!Spoil, busy
    <3>2. QED
      BY <2>1, <3>1 DEF Lifecycle!Next
  <2>5. QED
    BY <2>3, <2>4
<1>6. ASSUME NEW w \in Workers, pc[w] \in Section, pc'[w] \notin Section,
             \A v \in Workers \ {w} : pc'[v] = pc[v] /\ msg'[v] = msg[v],
             \/ UNCHANGED <<claim, completed>>
             \/ UNCHANGED completed /\ claim' = [claim EXCEPT ![Commit(w)] = None]
             \/ UNCHANGED claim /\ completed' = Count(completed, msg[w].task)
      PROVE  Goal
  <2>1. Commit(w) \in Commits /\ claim[Commit(w)] = msg[w].task
    BY <1>6, <1>b
  <2>2. busy[Commit(w)] /\ busy' = [busy EXCEPT ![Commit(w)] = FALSE]
    BY <1>6, BusyEnds
  <2>3. CASE UNCHANGED <<claim, completed>>
    <3>1. Lifecycle!Lose(Commit(w))
      BY <2>2, <2>3 DEF Lifecycle!Lose, busy
    <3>2. QED
      BY <2>1, <3>1 DEF Lifecycle!Next
  <2>4. CASE UNCHANGED completed /\ claim' = [claim EXCEPT ![Commit(w)] = None]
    <3>1. Lifecycle!GiveBack(Commit(w))
      BY <2>2, <2>4 DEF Lifecycle!GiveBack, busy
    <3>2. QED
      BY <2>1, <3>1 DEF Lifecycle!Next
  <2>5. CASE UNCHANGED claim /\ completed' = Count(completed, msg[w].task)
    <3>1. Lifecycle!Complete(Commit(w))
      BY <2>1, <2>2, <2>5 DEF Lifecycle!Complete, Count, busy
    <3>2. QED
      BY <2>1, <3>1 DEF Lifecycle!Next
  <2>6. QED
    BY <1>6, <2>3, <2>4, <2>5
<1>7. ASSUME NEW w \in Workers, Release(w) \/ ReleaseRaises(w) \/ PublishRaises(w) \/ RecordAudit(w)
      PROVE  Goal
  <2>1. pc[w] \in Section /\ pc'[w] \notin Section /\ UNCHANGED msg
    BY <1>a, <1>7 DEF Types, Release, ReleaseRaises, PublishRaises, RecordAudit
  <2>2. \A v \in Workers \ {w} : pc'[v] = pc[v]
    BY <1>a, <1>7 DEF Types, Release, ReleaseRaises, PublishRaises, RecordAudit
  <2>3. \/ UNCHANGED <<claim, completed>>
        \/ UNCHANGED completed /\ claim' = [claim EXCEPT ![Commit(w)] = None]
        \/ UNCHANGED claim /\ completed' = Count(completed, msg[w].task)
    BY <1>7 DEF Release, ReleaseRaises, PublishRaises, RecordAudit
  <2>4. QED
    BY <1>6, <2>1, <2>2, <2>3
<1>8. ASSUME NEW w \in Workers, Crash(w) PROVE Goal
  <2>1. pc'[w] = "idle" /\ UNCHANGED <<claim, completed>>
    BY <1>a, <1>8 DEF Types, Crash
  <2>2. \A v \in Workers \ {w} : pc'[v] = pc[v] /\ msg'[v] = msg[v]
    BY <1>a, <1>8 DEF Types, Crash
  <2>3. CASE pc[w] \in Section
    BY <1>6, <2>1, <2>2, <2>3
  <2>4. CASE pc[w] \notin Section
    <3>1. \A v \in Workers : /\ pc'[v] \in Section <=> pc[v] \in Section
                             /\ pc[v] \in Section => msg'[v] = msg[v]
      BY <2>1, <2>2, <2>4
    <3>2. QED
      BY <2>1, <3>1, BusySame, LifeStutter
  <2>5. QED
    BY <2>3, <2>4
<1>9. ASSUME NEW c \in Commits, Lapse(c) PROVE Goal
  <2>1. UNCHANGED <<pc, msg, completed>>
    BY <1>9 DEF Lapse, worker
  <2>2. busy' = busy
    BY <2>1, BusySame
  <2>3. Lifecycle!Expire(c)
    BY <1>9, <2>1, <2>2 DEF Lapse, Lifecycle!Expire, busy
  <2>4. QED
    BY <2>3 DEF Lifecycle!Next
<1>10. QED
  BY <1>1, <1>2, <1>3, <1>4, <1>5, <1>7, <1>8, <1>9, Zenon DEF Next, Work

\* The pipeline implements the life cycle of the claim.
THEOREM ImplementsLifecycle == Spec => ClaimLifecycleSpec
<1>1. Spec => Lifecycle!Init /\ [][Lifecycle!Next]_(Lifecycle!vars)
  BY LifeInit, LifeStep, Invariant, PTL DEF Spec
<1>2. QED
  BY <1>1 DEF ClaimLifecycleSpec, Lifecycle!Spec

-----------------------------------------------------------------------------
(* One attempt per task, as long as no message comes a second time.        *)

\* Nothing makes the broker deliver a message that a worker already had.
DeliveredOnce == Faults \cap {"crash", "redelivery"} = {}

\* Nothing but the review itself raises in an attempt.
OnlyReviewsRaise == Faults \cap {"crash", "redelivery", "redis", "github"} = {}

\* Worker w is at work on task t, or is about to retry it.
Alive(w, t) == pc[w] \notin {"idle", "ack"} /\ msg[w].task = t

\* The push of task t is there, and no attempt of t has come to its end.
Pending(t) == completed[t] = 0 /\ dlq[t] = 0 /\ t.push \in received

\* A queued message of t is the only one, and nobody works on t.
MessageAlone(t) ==
    \A m \in Message : m.task = t /\ queue[m] > 0 =>
        /\ queue[m] = 1
        /\ \A n \in Message \ {m} : n.task = t => queue[n] = 0
        /\ \A w \in Workers : ~Alive(w, t)
        /\ Pending(t)

\* A worker that is at work on t is the only one.
WorkerAlone(t) ==
    \A w \in Workers : Alive(w, t) =>
        /\ \A v \in Workers \ {w} : ~Alive(v, t)
        /\ Pending(t)

\* A task ends once, and not before its push.
EndsOnce(t) ==
    /\ completed[t] + dlq[t] <= 1
    /\ completed[t] + dlq[t] > 0 => t.push \in received

OneAttempt == \A t \in Task : MessageAlone(t) /\ WorkerAlone(t) /\ EndsOnce(t)

\* Before the first delivery there is no attempt.
LEMMA OneAttemptInit == Init => OneAttempt
  BY DEF Init, OneAttempt, MessageAlone, WorkerAlone, EndsOnce, Alive, Pending

\* A step that starts no attempt of t and ends none keeps t as it is.
LEMMA NoNewAttempt ==
    ASSUME NEW t \in Task, MessageAlone(t), WorkerAlone(t), EndsOnce(t),
           \A w \in Workers : Alive(w, t)' => Alive(w, t),
           \A m \in Message : m.task = t => queue'[m] = queue[m],
           completed'[t] = completed[t], dlq'[t] = dlq[t], received \subseteq received'
    PROVE  (MessageAlone(t) /\ WorkerAlone(t) /\ EndsOnce(t))'
<1>1. Pending(t) => Pending(t)'
  BY DEF Pending
<1>2. MessageAlone(t)'
  BY <1>1 DEF MessageAlone
<1>3. WorkerAlone(t)'
  BY <1>1 DEF WorkerAlone
<1>4. EndsOnce(t)'
  BY DEF EndsOnce
<1>5. QED
  BY <1>2, <1>3, <1>4

\* While a worker is at work on t, no message of t waits.
LEMMA NothingWaits ==
    ASSUME TypeOK, NEW t, MessageAlone(t), NEW w \in Workers, Alive(w, t),
           NEW m \in Message, m.task = t
    PROVE  queue[m] = 0
<1>1. queue[m] \in Nat
  BY DEF TypeOK, Types
<1>2. ~(queue[m] > 0)
  BY DEF MessageAlone
<1>3. QED
  BY <1>1, <1>2

\* Neither queues nor ends anything, and wakes nobody.
LEMMA CalmAttempts ==
    ASSUME OneAttempt, UNCHANGED <<queue, completed, dlq>>, received' = received,
           \A w \in Workers : pc'[w] \notin {"idle", "ack"} =>
               pc[w] \notin {"idle", "ack"} /\ msg'[w] = msg[w]
    PROVE  OneAttempt'
<1> SUFFICES ASSUME NEW t \in Task PROVE (MessageAlone(t) /\ WorkerAlone(t) /\ EndsOnce(t))'
  BY DEF OneAttempt
<1>1. \A w \in Workers : Alive(w, t)' => Alive(w, t)
  BY DEF Alive
<1>2. MessageAlone(t) /\ WorkerAlone(t) /\ EndsOnce(t)
  BY DEF OneAttempt
<1>3. QED
  BY <1>1, <1>2, NoNewAttempt

\* A push queues each of its tasks once, and there was nothing of them before.
LEMMA PushAttempts ==
    ASSUME TypeOK, OneAttempt, NEW p \in Pushes, p \notin received, received' = received \cup {p},
           NEW sent, sent \subseteq Jobs(p), Enqueue(sent), UNCHANGED <<pc, msg, completed, dlq>>
    PROVE  OneAttempt'
<1> SUFFICES ASSUME NEW t \in Task PROVE (MessageAlone(t) /\ WorkerAlone(t) /\ EndsOnce(t))'
  BY DEF OneAttempt
<1>1. MessageAlone(t) /\ WorkerAlone(t) /\ EndsOnce(t)
  BY DEF OneAttempt
<1>2. \A w \in Workers : Alive(w, t)' <=> Alive(w, t)
  BY DEF Alive
<1>3. \A m \in Message : queue'[m] = IF m \in sent THEN queue[m] + 1 ELSE queue[m]
  BY DEF Enqueue
<1>4. \A m \in sent : m.task.push = p /\ m.retries = 0
  BY DEF Jobs
<1>5. CASE t.push # p
  BY <1>1, <1>2, <1>3, <1>4, <1>5, NoNewAttempt
<1>6. CASE t.push = p
  <2>1. ~Pending(t)
    BY <1>6 DEF Pending
  <2>2. \A w \in Workers : ~Alive(w, t)'
    BY <1>1, <1>2, <2>1 DEF WorkerAlone
  <2>3. \A m \in Message : m.task = t => queue[m] = 0
    BY <1>1, <2>1 DEF MessageAlone, TypeOK, Types
  <2>4. completed[t] = 0 /\ dlq[t] = 0
    BY <1>1, <1>6 DEF EndsOnce, TypeOK, Types
  <2>5. Pending(t)'
    BY <1>6, <2>4 DEF Pending
  <2>6. \A m \in Message : m.task = t /\ queue'[m] > 0 => m.retries = 0 /\ queue'[m] = 1
    BY <1>3, <1>4, <2>3
  <2>7. \A m, n \in Message : m.task = n.task /\ m.retries = n.retries => m = n
    BY DEF Message
  <2>8. queue' \in [Message -> Nat]
    BY EnqueueType DEF TypeOK, Types
  <2>9. MessageAlone(t)'
    <3> SUFFICES ASSUME NEW m \in Message, m.task = t, queue'[m] > 0
                 PROVE  queue'[m] = 1 /\ \A n \in Message \ {m} : n.task = t => queue'[n] = 0
      BY <2>2, <2>5 DEF MessageAlone
    <3>1. m.retries = 0 /\ queue'[m] = 1
      BY <2>6
    <3>2. ASSUME NEW n \in Message, n # m, n.task = t PROVE queue'[n] = 0
      <4>1. ~(queue'[n] > 0)
        BY <2>6, <2>7, <3>1, <3>2
      <4>2. QED
        BY <2>8, <4>1
    <3>3. QED
      BY <3>1, <3>2
  <2>10. WorkerAlone(t)'
    BY <2>2 DEF WorkerAlone
  <2>11. EndsOnce(t)'
    BY <2>4 DEF EndsOnce
  <2>12. QED
    BY <2>9, <2>10, <2>11
<1>7. QED
  BY <1>5, <1>6

\* An idle worker takes the only message of a task.
LEMMA DeliverAttempts ==
    ASSUME TypeOK, OneAttempt, NEW w \in Workers, NEW m \in Message, Deliver(w, m)
    PROVE  OneAttempt'
<1> SUFFICES ASSUME NEW t \in Task PROVE (MessageAlone(t) /\ WorkerAlone(t) /\ EndsOnce(t))'
  BY DEF OneAttempt
<1>1. MessageAlone(t) /\ WorkerAlone(t) /\ EndsOnce(t)
  BY DEF OneAttempt
<1>2. /\ queue[m] > 0 /\ queue'[m] = queue[m] - 1
      /\ \A n \in Message \ {m} : queue'[n] = queue[n]
      /\ pc'[w] = "claim" /\ msg'[w] = m
      /\ \A v \in Workers \ {w} : pc'[v] = pc[v] /\ msg'[v] = msg[v]
      /\ UNCHANGED <<received, completed, dlq>>
  BY DEF Deliver, Goto, TypeOK, Types
<1>3. \A v \in Workers \ {w} : Alive(v, t)' <=> Alive(v, t)
  BY <1>2 DEF Alive
<1>4. CASE m.task # t
  <2>1. ~Alive(w, t)'
    BY <1>2, <1>4 DEF Alive
  <2>2. QED
    BY <1>1, <1>2, <1>3, <1>4, <2>1, NoNewAttempt
<1>5. CASE m.task = t
  <2>1. /\ queue[m] = 1 /\ Pending(t)
        /\ \A n \in Message \ {m} : n.task = t => queue[n] = 0
        /\ \A v \in Workers : ~Alive(v, t)
    BY <1>1, <1>2, <1>5 DEF MessageAlone
  <2>2. Pending(t)'
    BY <1>2, <2>1 DEF Pending
  <2>3. \A n \in Message : n.task = t => queue'[n] = 0
    BY <1>2, <2>1
  <2>4. \A v \in Workers \ {w} : ~Alive(v, t)'
    BY <1>3, <2>1
  <2>5. MessageAlone(t)'
    BY <2>3 DEF MessageAlone
  <2>6. WorkerAlone(t)'
    BY <2>2, <2>4 DEF WorkerAlone
  <2>7. EndsOnce(t)'
    BY <1>1, <1>2 DEF EndsOnce
  <2>8. QED
    BY <2>5, <2>6, <2>7
<1>6. QED
  BY <1>4, <1>5

\* A worker gives up its attempt for the one message that retries it.
LEMMA RetryAttempts ==
    ASSUME TypeOK, OneAttempt, NEW w \in Workers, Retry(w) \/ RetryLost(w)
    PROVE  OneAttempt'
<1> DEFINE again == [task |-> msg[w].task, retries |-> msg[w].retries + 1]
<1> SUFFICES ASSUME NEW t \in Task PROVE (MessageAlone(t) /\ WorkerAlone(t) /\ EndsOnce(t))'
  BY DEF OneAttempt
<1>1. MessageAlone(t) /\ WorkerAlone(t) /\ EndsOnce(t)
  BY DEF OneAttempt
<1>2. /\ \/ \A n \in Message : queue'[n] = IF n = again THEN queue[n] + 1 ELSE queue[n]
         \/ queue' = queue
      /\ pc[w] = "raised" /\ pc'[w] = "ack" /\ msg' = msg
      /\ \A v \in Workers \ {w} : pc'[v] = pc[v]
      /\ UNCHANGED <<received, completed, dlq>>
  BY DEF Retry, RetryLost, Enqueue, Goto, TypeOK, Types
<1>3. /\ ~Alive(w, t)'
      /\ \A v \in Workers \ {w} : Alive(v, t)' <=> Alive(v, t)
  BY <1>2 DEF Alive
<1>4. CASE msg[w].task # t
  <2>1. \A m \in Message : m.task = t => queue'[m] = queue[m]
    BY <1>2, <1>4
  <2>2. QED
    BY <1>1, <1>2, <1>3, <2>1, NoNewAttempt
<1>5. CASE msg[w].task = t
  <2>1. Alive(w, t)
    BY <1>2, <1>5 DEF Alive
  <2>2. Pending(t) /\ \A v \in Workers \ {w} : ~Alive(v, t)
    BY <1>1, <2>1 DEF WorkerAlone
  <2>3. Pending(t)'
    BY <1>2, <2>2 DEF Pending
  <2>4. \A n \in Message : n.task = t => queue[n] = 0
    BY <1>1, <2>1, NothingWaits
  <2>5. \A v \in Workers : ~Alive(v, t)'
    BY <1>3, <2>2
  <2>6. MessageAlone(t)'
    <3> HIDE DEF again
    <3>1. \A n \in Message : n.task = t => queue'[n] = 0 \/ (n = again /\ queue'[n] = 1)
      BY <1>2, <2>4
    <3>2. QED
      BY <2>3, <2>5, <3>1 DEF MessageAlone
  <2>7. WorkerAlone(t)'
    BY <2>5 DEF WorkerAlone
  <2>8. EndsOnce(t)'
    BY <1>1, <1>2 DEF EndsOnce
  <2>9. QED
    BY <2>6, <2>7, <2>8
<1>6. QED
  BY <1>4, <1>5

\* A worker's attempt ends, with at most one entry for it.
LEMMA EndAttempts ==
    ASSUME TypeOK, OneAttempt, NEW w \in Workers,
           pc[w] \in {"audit", "raised"}, pc' = [pc EXCEPT ![w] = "ack"],
           UNCHANGED <<received, queue, msg>>,
           \/ UNCHANGED <<completed, dlq>>
           \/ UNCHANGED dlq /\ completed' = Count(completed, msg[w].task)
           \/ UNCHANGED completed /\ dlq' = Count(dlq, msg[w].task)
    PROVE  OneAttempt'
<1> SUFFICES ASSUME NEW t \in Task PROVE (MessageAlone(t) /\ WorkerAlone(t) /\ EndsOnce(t))'
  BY DEF OneAttempt
<1>1. MessageAlone(t) /\ WorkerAlone(t) /\ EndsOnce(t)
  BY DEF OneAttempt
<1>2. pc'[w] = "ack" /\ \A v \in Workers \ {w} : pc'[v] = pc[v]
  BY DEF TypeOK, Types
<1>3. /\ ~Alive(w, t)'
      /\ \A v \in Workers \ {w} : Alive(v, t)' <=> Alive(v, t)
  BY <1>2 DEF Alive
<1>4. CASE msg[w].task # t
  <2>1. completed'[t] = completed[t] /\ dlq'[t] = dlq[t]
    BY <1>4 DEF Count, TypeOK, Types
  <2>2. QED
    BY <1>1, <1>3, <2>1, NoNewAttempt
<1>5. CASE msg[w].task = t
  <2>1. Alive(w, t)
    BY <1>5 DEF Alive
  <2>2. Pending(t) /\ \A v \in Workers \ {w} : ~Alive(v, t)
    BY <1>1, <2>1 DEF WorkerAlone
  <2>3. \A n \in Message : n.task = t => queue[n] = 0
    BY <1>1, <2>1, NothingWaits
  <2>4. \A v \in Workers : ~Alive(v, t)'
    BY <1>3, <2>2
  <2>5. MessageAlone(t)'
    BY <2>3 DEF MessageAlone
  <2>6. WorkerAlone(t)'
    BY <2>4 DEF WorkerAlone
  <2>7. EndsOnce(t)'
    <3>1. completed[t] = 0 /\ dlq[t] = 0 /\ t.push \in received'
      BY <2>2 DEF Pending
    <3>2. completed'[t] \in {0, 1} /\ dlq'[t] \in {0, 1} /\ (completed'[t] = 0 \/ dlq'[t] = 0)
      BY <1>5, <3>1 DEF Count, TypeOK, Types
    <3>3. QED
      BY <3>1, <3>2 DEF EndsOnce
  <2>8. QED
    BY <2>5, <2>6, <2>7
<1>6. QED
  BY <1>4, <1>5

\* Every step leaves at most one attempt of every task.
LEMMA OneAttemptStep ==
    DeliveredOnce /\ TypeOK /\ OneAttempt /\ [Next]_vars => OneAttempt'
<1> SUFFICES ASSUME DeliveredOnce, TypeOK, OneAttempt, [Next]_vars PROVE OneAttempt'
  OBVIOUS
<1> USE DEF Goto
<1>a. Types
  BY DEF TypeOK
<1>1. ASSUME NEW p \in Pushes, Webhook(p) PROVE OneAttempt'
  BY <1>1, PushAttempts DEF Webhook, worker
<1>2. ASSUME NEW p \in Pushes, WebhookCutShort(p) PROVE OneAttempt'
  <2>1. PICK sent \in SUBSET Jobs(p) : Enqueue(sent)
    BY <1>2 DEF WebhookCutShort
  <2>2. QED
    BY <1>2, <2>1, PushAttempts DEF WebhookCutShort, worker
<1>3. ASSUME NEW w \in Workers, NEW m \in Message, Deliver(w, m) PROVE OneAttempt'
  BY <1>3, DeliverAttempts
<1>4. ASSUME NEW w \in Workers,
             Claim(w) \/ Skip(w) \/ ClaimRaises(w) \/ Review(w) \/ ReviewRaises(w)
                \/ Release(w) \/ ReleaseRaises(w) \/ Publish(w) \/ PublishRaises(w)
                \/ Notify(w) \/ SaveReview(w) \/ Ack(w)
      PROVE  OneAttempt'
  <2>1. UNCHANGED <<queue, completed, dlq>> /\ received' = received
    BY <1>4 DEF Claim, Skip, ClaimRaises, Review, ReviewRaises, Release, ReleaseRaises, Publish,
       PublishRaises, Notify, SaveReview, Ack, broker
  <2>2. \A v \in Workers : pc'[v] \notin {"idle", "ack"} =>
            pc[v] \notin {"idle", "ack"} /\ msg'[v] = msg[v]
    BY <1>a, <1>4 DEF Types, Claim, Skip, ClaimRaises, Review, ReviewRaises, Release,
       ReleaseRaises, Publish, PublishRaises, Notify, SaveReview, Ack
  <2>3. QED
    BY <2>1, <2>2, CalmAttempts
<1>5. ASSUME NEW w \in Workers, RecordAudit(w) \/ OnFailure(w) \/ OnFailureRaises(w)
      PROVE  OneAttempt'
  BY <1>5, EndAttempts DEF RecordAudit, OnFailure, OnFailureRaises, broker
<1>6. ASSUME NEW w \in Workers, Retry(w) \/ RetryLost(w) PROVE OneAttempt'
  BY <1>6, RetryAttempts
<1>7. ASSUME NEW w \in Workers, Crash(w) \/ Redeliver(w) PROVE OneAttempt'
  BY <1>7 DEF Crash, Redeliver, Fault, DeliveredOnce
<1>8. ASSUME (\E c \in Commits : Lapse(c)) \/ UNCHANGED vars PROVE OneAttempt'
  <2>1. UNCHANGED <<received, queue, completed, dlq, pc, msg>>
    BY <1>8 DEF Lapse, broker, worker, vars
  <2>2. QED
    BY <2>1, CalmAttempts
<1>9. QED
  BY <1>1, <1>2, <1>3, <1>4, <1>5, <1>6, <1>7, <1>8, Zenon DEF Next, Work

\* Messages that come once leave at most one attempt of a task in the system.
LEMMA OneAttemptAlways == DeliveredOnce => (Spec => []OneAttempt)
<1> SUFFICES ASSUME DeliveredOnce PROVE Spec => []OneAttempt
  OBVIOUS
<1>1. TypeOK /\ OneAttempt /\ [Next]_vars => OneAttempt'
  BY OneAttemptStep
<1>2. QED
  BY <1>1, OneAttemptInit, TypeCorrect, PTL DEF Spec

\* A dead letter is final: the task has one at most, was never completed and
\* has no attempt left, as long as messages come once.
THEOREM DeadLettersAreFinal == DeliveredOnce => (Spec => []DeadLettersFinal)
<1> SUFFICES ASSUME DeliveredOnce PROVE Spec => []DeadLettersFinal
  OBVIOUS
<1>1. TypeOK /\ OneAttempt => DeadLettersFinal
  BY DEF TypeOK, Types, OneAttempt, MessageAlone, WorkerAlone, EndsOnce, Alive, Pending,
     DeadLettersFinal
<1>2. QED
  BY <1>1, OneAttemptAlways, TypeCorrect, PTL

-----------------------------------------------------------------------------
(* A retry finds no claim of its own task.                                 *)

\* The task that holds a claim is one of its commit's, has been pushed, and
\* has no attempt that would ask for the claim again.
HolderSettled ==
    \A c \in Commits : claim[c] # None =>
        /\ CommitOfTask(claim[c]) = c
        /\ claim[c].push \in received
        /\ \A m \in Message : m.task = claim[c] => queue[m] = 0
        /\ \A w \in Workers : pc[w] \in {"claim", "raised"} => msg[w].task # claim[c]

\* Before the first delivery nothing is claimed.
LEMMA HolderInit == Init => HolderSettled
  BY DEF Init, HolderSettled

\* Claims that stay or go, without a new attempt of a holder, keep the invariant.
LEMMA CalmHolders ==
    ASSUME HolderSettled, received \subseteq received',
           \A c \in Commits : claim'[c] \in {claim[c], None},
           \A c \in Commits : claim'[c] # None =>
               /\ \A m \in Message : m.task = claim[c] => queue'[m] = queue[m]
               /\ \A w \in Workers : pc'[w] \in {"claim", "raised"} =>
                     \/ pc[w] \in {"claim", "raised"} /\ msg'[w] = msg[w]
                     \/ msg'[w].task # claim[c]
    PROVE  HolderSettled'
  BY DEF HolderSettled

\* Every step leaves the holder of a claim without an attempt that asks for it.
LEMMA HolderStep ==
    OnlyReviewsRaise /\ IInv /\ OneAttempt /\ HolderSettled /\ [Next]_vars => HolderSettled'
<1> SUFFICES ASSUME OnlyReviewsRaise, IInv, OneAttempt, HolderSettled, [Next]_vars
             PROVE  HolderSettled'
  OBVIOUS
<1> USE DEF Goto
<1>a. TypeOK /\ Types /\ Equipped
  BY DEF IInv, TypeOK
<1>b. Faults \cap {"crash", "redelivery", "redis", "github"} = {}
  BY DEF OnlyReviewsRaise
<1>c. \A c \in Commits : claim[c] # None => claim[c] \in Task /\ claim[c].push \in received
  BY <1>a DEF Types, HolderSettled
<1>1. ASSUME NEW p \in Pushes, Webhook(p) \/ WebhookCutShort(p) PROVE HolderSettled'
  <2>1. PICK sent \in SUBSET Jobs(p) : Enqueue(sent)
    BY <1>1 DEF Webhook, WebhookCutShort
  <2>2. /\ p \notin received /\ received' = received \cup {p}
        /\ UNCHANGED <<claim, pc, msg>>
    BY <1>1 DEF Webhook, WebhookCutShort, worker
  <2>3. \A m \in sent : m.task.push = p
    BY DEF Jobs
  <2>4. \A c \in Commits : claim[c] # None =>
            \A m \in Message : m.task = claim[c] => queue'[m] = queue[m]
    BY <1>c, <2>1, <2>2, <2>3 DEF Enqueue
  <2>5. QED
    BY <2>2, <2>4, CalmHolders
<1>2. ASSUME NEW w \in Workers, NEW m \in Message, Deliver(w, m) PROVE HolderSettled'
  <2>1. /\ queue[m] > 0 /\ queue' = [queue EXCEPT ![m] = @ - 1]
        /\ msg' = [msg EXCEPT ![w] = m] /\ pc' = [pc EXCEPT ![w] = "claim"]
        /\ UNCHANGED <<received, claim>>
    BY <1>2 DEF Deliver
  <2>2. \A c \in Commits : claim[c] # None => m.task # claim[c]
    BY <1>a, <2>1 DEF HolderSettled, Types
  <2>3. \A c \in Commits : claim[c] # None =>
            \A n \in Message : n.task = claim[c] => queue'[n] = queue[n]
    BY <1>a, <2>1, <2>2 DEF Types
  <2>4. msg'[w] = m /\ \A v \in Workers \ {w} : msg'[v] = msg[v] /\ pc'[v] = pc[v]
    BY <1>a, <2>1 DEF Types
  <2>5. QED
    BY <2>1, <2>2, <2>3, <2>4, CalmHolders
<1>3. ASSUME NEW w \in Workers,
             Skip(w) \/ Review(w) \/ ReviewRaises(w) \/ Publish(w) \/ Notify(w) \/ SaveReview(w)
                \/ RecordAudit(w) \/ OnFailure(w) \/ Ack(w)
      PROVE  HolderSettled'
  <2>1. UNCHANGED <<queue, claim, received>>
    BY <1>3 DEF Skip, Review, ReviewRaises, Publish, Notify, SaveReview, RecordAudit, OnFailure,
       Ack, broker
  <2>2. \A v \in Workers : pc'[v] \in {"claim", "raised"} =>
            pc[v] \in {"claim", "raised"} /\ msg'[v] = msg[v]
    BY <1>a, <1>3 DEF Types, Skip, Review, AfterReview, ReviewRaises, Publish, Notify, SaveReview,
       RecordAudit, OnFailure, Ack
  <2>3. QED
    BY <2>1, <2>2, CalmHolders
<1>4. ASSUME NEW w \in Workers, Claim(w) PROVE HolderSettled'
  <2> DEFINE t == msg[w].task
  <2>1. /\ pc[w] = "claim" /\ pc'[w] = "review" /\ claim[Commit(w)] = None
        /\ claim' = [claim EXCEPT ![Commit(w)] = t]
        /\ \A v \in Workers \ {w} : pc'[v] = pc[v]
        /\ UNCHANGED <<msg, queue, received>>
    BY <1>a, <1>4 DEF Claim, Types, broker
  <2>2. t \in Task /\ Commit(w) \in Commits /\ CommitOfTask(t) = Commit(w)
    BY <1>a, <2>1, HoldingTypes
  <2>3. Alive(w, t)
    BY <2>1 DEF Alive
  <2>4. Pending(t) /\ \A v \in Workers \ {w} : ~Alive(v, t)
    BY <2>2, <2>3 DEF OneAttempt, WorkerAlone
  <2>5. \A m \in Message : m.task = t => queue[m] = 0
    BY <1>a, <2>2, <2>3, NothingWaits DEF OneAttempt
  <2>6. \A v \in Workers : pc'[v] \in {"claim", "raised"} => msg[v].task # t
    BY <2>1, <2>4 DEF Alive
  <2>7. ASSUME NEW c \in Commits, claim'[c] # None PROVE HolderSettled!(c)'
    <3>1. CASE c = Commit(w)
      BY <1>a, <2>1, <2>2, <2>4, <2>5, <2>6, <3>1 DEF Types, Pending
    <3>2. CASE c # Commit(w)
      BY <1>a, <2>1, <2>2, <3>2 DEF Types, HolderSettled
    <3>3. QED
      BY <3>1, <3>2
  <2>8. QED
    BY <2>7 DEF HolderSettled
<1>5. ASSUME NEW w \in Workers, Release(w) PROVE HolderSettled'
  <2>1. /\ pc[w] \in Section /\ pc[w] = "release"
        /\ claim' = [claim EXCEPT ![Commit(w)] = None]
        /\ \A v \in Workers \ {w} : pc'[v] = pc[v]
        /\ UNCHANGED <<msg, queue, received>>
    BY <1>a, <1>5 DEF Release, Types, broker, Section
  <2>2. Commit(w) \in Commits /\ claim[Commit(w)] = msg[w].task /\ msg[w].task \in Task
        /\ Commit(w) = CommitOfTask(msg[w].task)
    BY <1>a, <2>1, HoldingTypes DEF IInv, ClaimExclusive
  <2>3. \A c \in Commits : claim'[c] = IF c = Commit(w) THEN None ELSE claim[c]
    BY <1>a, <2>1, <2>2 DEF Types
  <2>4. \A c \in Commits \ {Commit(w)} : claim[c] # None => claim[c] # msg[w].task
    BY <2>2 DEF HolderSettled
  <2>5. QED
    BY <2>1, <2>3, <2>4, CalmHolders
<1>6. ASSUME NEW w \in Workers, Retry(w) \/ RetryLost(w) PROVE HolderSettled'
  <2>1. /\ pc[w] = "raised" /\ pc'[w] = "ack"
        /\ \/ queue' = queue
           \/ Enqueue({[task |-> msg[w].task, retries |-> msg[w].retries + 1]})
        /\ \A v \in Workers \ {w} : pc'[v] = pc[v]
        /\ UNCHANGED <<claim, msg, received>>
    BY <1>a, <1>6 DEF Retry, RetryLost, Types
  <2>2. \A c \in Commits : claim[c] # None => msg[w].task # claim[c]
    BY <2>1 DEF HolderSettled
  <2>3. \A c \in Commits : claim[c] # None =>
            \A m \in Message : m.task = claim[c] => queue'[m] = queue[m]
    BY <2>1, <2>2 DEF Enqueue
  <2>4. QED
    BY <2>1, <2>3, CalmHolders
<1>7. ASSUME NEW w \in Workers,
             ClaimRaises(w) \/ ReleaseRaises(w) \/ PublishRaises(w) \/ OnFailureRaises(w)
                \/ Crash(w) \/ Redeliver(w)
      PROVE  HolderSettled'
  BY <1>b, <1>7 DEF ClaimRaises, ReleaseRaises, PublishRaises, OnFailureRaises, Crash, Redeliver,
     Fault
<1>8. ASSUME NEW c \in Commits, Lapse(c) PROVE HolderSettled'
  <2>1. UNCHANGED <<received, queue, pc, msg>> /\ claim' = [claim EXCEPT ![c] = None]
    BY <1>8 DEF Lapse, broker, worker
  <2>2. \A d \in Commits : claim'[d] \in {claim[d], None}
    BY <1>a, <2>1 DEF Types
  <2>3. QED
    BY <2>1, <2>2, CalmHolders
<1>9. CASE UNCHANGED vars
  BY <1>9, CalmHolders DEF vars
<1>10. QED
  BY <1>1, <1>2, <1>3, <1>4, <1>5, <1>6, <1>7, <1>8, <1>9, Zenon DEF Next, Work

\* A retry is never turned away by the claim of its own task, as long as nothing
\* but the review raises.
THEOREM RetryIsNotBlocked == OnlyReviewsRaise => (Spec => RetryNotBlocked)
<1> SUFFICES ASSUME OnlyReviewsRaise PROVE Spec => RetryNotBlocked
  OBVIOUS
<1>1. DeliveredOnce
  BY DEF OnlyReviewsRaise, DeliveredOnce
<1>2. Spec => []OneAttempt
  BY <1>1, OneAttemptAlways
<1>3. IInv /\ OneAttempt /\ HolderSettled /\ [Next]_vars => HolderSettled'
  BY HolderStep
<1>4. TypeOK /\ HolderSettled =>
          \A w \in Workers : pc[w] = "claim" /\ pc'[w] = "ack" => claim[Commit(w)] # msg[w].task
  <2> SUFFICES ASSUME TypeOK, HolderSettled, NEW w \in Workers, pc[w] = "claim"
               PROVE  claim[Commit(w)] # msg[w].task
    OBVIOUS
  <2>1. Commit(w) \in Commits /\ msg[w].task \in Task
    BY HoldingTypes
  <2>2. None \notin Task
    BY NoneAssumption DEF Task
  <2>3. QED
    BY <2>1, <2>2 DEF HolderSettled
<1>5. QED
  BY <1>2, <1>3, <1>4, HolderInit, TypeCorrect, Invariant, PTL DEF Spec, RetryNotBlocked

=============================================================================
