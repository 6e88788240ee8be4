------------------------- MODULE Integrations_proofs -------------------------
(***************************************************************************)
(* Proofs about src/integrations: about Publisher, for any number of       *)
(* processes, faults, attempts and publications, and about the tokens of   *)
(* InstallationToken.                                                      *)
(***************************************************************************)
EXTENDS Publisher, InstallationToken, FiniteSetTheorems, SequenceTheorems, TLAPS

\* A review has a decision, and a decision a conclusion.
LEMMA DecisionTypes ==
    ASSUME NEW r \in Results
    PROVE  Decide(r) \in GateDecision /\ Conclusion(Decide(r)) \in Conclusions
<1>1. Decide(r) \in GateDecision
  BY DEF Decide, GateDecision
<1>2. \A d \in GateDecision : Conclusion(d) \in Conclusions
  BY DEF Conclusion, Conclusions, GateDecision
<1>3. QED
  BY <1>1, <1>2

-----------------------------------------------------------------------------
(* How many processes are at a step.                                       *)

\* There are finitely many.
LEMMA AtStepFinite ==
    ASSUME NEW step
    PROVE  /\ IsFiniteSet(AtStep(step))
           /\ Cardinality(AtStep(step)) \in Nat
           /\ Cardinality(AtStep(step)) <= Cardinality(Publishers)
  BY PublishersAssumption, FS_Subset, FS_CardinalityType DEF AtStep

\* Nobody is about to post and to store an id at once.
LEMMA PostOrRemember ==
    Cardinality(AtStep("post")) + Cardinality(AtStep("remember")) <= Cardinality(Publishers)
<1> DEFINE P == AtStep("post")
           R == AtStep("remember")
<1>1. IsFiniteSet(P) /\ IsFiniteSet(R)
  BY AtStepFinite
<1>2. P \cap R = {} /\ P \cup R \subseteq Publishers
  BY DEF AtStep
<1> HIDE DEF P, R
<1>3. Cardinality(P \cup R) = Cardinality(P) + Cardinality(R) - Cardinality({})
  BY <1>1, <1>2, FS_Union
<1>4. Cardinality(P \cup R) <= Cardinality(Publishers)
  BY <1>2, PublishersAssumption, FS_Subset
<1>5. Cardinality(P) \in Nat /\ Cardinality(R) \in Nat
  BY <1>1, FS_CardinalityType
<1>6. Cardinality(P) + Cardinality(R) <= Cardinality(Publishers)
  BY <1>3, <1>4, <1>5, FS_EmptySet
<1>7. QED
  BY <1>6 DEF P, R

\* A process that comes to a step makes them one more, ...
LEMMA Entered ==
    ASSUME TypeOK, NEW p \in Publishers, NEW step, pc[p] # step, pc' = [pc EXCEPT ![p] = step]
    PROVE  Cardinality(AtStep(step))' = Cardinality(AtStep(step)) + 1
<1> DEFINE S == AtStep(step)
<1>1. IsFiniteSet(S)
  BY AtStepFinite
<1>2. AtStep(step)' = S \cup {p} /\ p \notin S
  BY DEF AtStep, TypeOK
<1> HIDE DEF S
<1>3. Cardinality(S \cup {p}) = IF p \in S THEN Cardinality(S) ELSE Cardinality(S) + 1
  BY <1>1, FS_AddElement
<1>4. QED
  BY <1>2, <1>3 DEF S

\* ... and one that goes elsewhere one less, if it was there.
LEMMA Left ==
    ASSUME TypeOK, NEW p \in Publishers, NEW to, NEW step, to # step, pc' = [pc EXCEPT ![p] = to]
    PROVE  Cardinality(AtStep(step))' =
               IF pc[p] = step THEN Cardinality(AtStep(step)) - 1 ELSE Cardinality(AtStep(step))
<1> DEFINE S == AtStep(step)
<1>1. IsFiniteSet(S)
  BY AtStepFinite
<1>2. AtStep(step)' = S \ {p} /\ (p \in S <=> pc[p] = step)
  BY DEF AtStep, TypeOK
<1> HIDE DEF S
<1>3. Cardinality(S \ {p}) = IF p \in S THEN Cardinality(S) - 1 ELSE Cardinality(S)
  BY <1>1, FS_RemoveElement
<1>4. QED
  BY <1>2, <1>3 DEF S

-----------------------------------------------------------------------------
(* Types.                                                                  *)

\* An exception leaves everything of its type ...
LEMMA RaiseTypes ==
    ASSUME TypeOK, Equipped, NEW p \in Publishers, Raise(p)
    PROVE  /\ pc' \in [Publishers -> {"idle", "look_up", "update", "post", "remember", "check_run"}]
           /\ result' \in [Publishers -> Results \cup {None}]
           /\ comment' \in [Publishers -> Nat \cup {None}]
           /\ attempt' \in [Publishers -> 1 .. MaxAttempts]
           /\ settled' \in BOOLEAN
           /\ Equipped'
<1>1. pc' \in [Publishers -> {"idle", "look_up", "update", "post", "remember", "check_run"}]
  BY DEF Raise, Goto, Set, TypeOK
<1>2. result' \in [Publishers -> Results \cup {None}]
  BY DEF Raise, Goto, Set, TypeOK
<1>3. comment' \in [Publishers -> Nat \cup {None}]
  BY DEF Raise, Goto, Set, TypeOK
<1>4. attempt' \in [Publishers -> 1 .. MaxAttempts]
  BY AttemptsAssumption DEF Raise, Goto, Set, TypeOK
<1>5. Equipped'
  BY DEF Raise, Goto, Set, TypeOK, Equipped
<1>6. settled' \in BOOLEAN
  BY DEF Raise, Goto, Set
<1>7. QED
  BY <1>1, <1>2, <1>3, <1>4, <1>5, <1>6 DEF Raise, Goto, Set

\* ... and so does a request that gets no answer.
LEMMA AgainTypes ==
    ASSUME TypeOK, Equipped, NEW p \in Publishers, Again(p)
    PROVE  /\ pc' \in [Publishers -> {"idle", "look_up", "update", "post", "remember", "check_run"}]
           /\ result' \in [Publishers -> Results \cup {None}]
           /\ comment' \in [Publishers -> Nat \cup {None}]
           /\ attempt' \in [Publishers -> 1 .. MaxAttempts]
           /\ settled' \in BOOLEAN
           /\ Equipped'
<1>1. CASE Raise(p)
  BY <1>1, RaiseTypes DEF Again, Raise, Goto, Set
<1>2. CASE UNCHANGED <<pc, result, comment, settled>> /\ attempt[p] < MaxAttempts
             /\ attempt' = [attempt EXCEPT ![p] = attempt[p] + 1]
  <2>1. attempt' \in [Publishers -> 1 .. MaxAttempts]
    BY <1>2, AttemptsAssumption DEF Again, Raise, Goto, Set, TypeOK
  <2>2. QED
    BY <1>2, <2>1 DEF Again, Raise, Goto, Set, TypeOK, Equipped
<1>3. QED
  BY <1>1, <1>2 DEF Again, Raise, Goto, Set

\* A call adds a comment at the end, or rewrites one, and adds a check run.
LEMMA GitHubTypes ==
    ASSUME TypeOK, Equipped, NEW p \in Publishers, pc[p] # "idle"
    PROVE  /\ Rewrite(p) => /\ comments' \in Seq(GateDecision)
                            /\ Len(comments') = Len(comments) /\ DOMAIN comments' = DOMAIN comments
                            /\ comment[p] \in DOMAIN comments
                                   => comments'[comment[p]] = Decide(result[p])
           /\ Add(p) => /\ comments' \in Seq(GateDecision)
                        /\ Len(comments') = Len(comments) + 1
                        /\ Len(comments') \in DOMAIN comments'
                        /\ comments'[Len(comments')] = Decide(result[p])
                        /\ \A n \in DOMAIN comments : n \in DOMAIN comments' /\ comments'[n] = comments[n]
           /\ Conclude(p) => /\ checkRuns' \in Seq(Conclusions) /\ checkRuns' # << >>
                             /\ checkRuns'[Len(checkRuns')] = Conclusion(Decide(result[p]))
<1>1. Decide(result[p]) \in GateDecision /\ Conclusion(Decide(result[p])) \in Conclusions
  BY DecisionTypes DEF Equipped
<1>2. comments \in Seq(GateDecision) /\ checkRuns \in Seq(Conclusions)
  BY DEF TypeOK
<1>3. ASSUME Rewrite(p)
      PROVE  /\ comments' \in Seq(GateDecision)
             /\ Len(comments') = Len(comments) /\ DOMAIN comments' = DOMAIN comments
             /\ comment[p] \in DOMAIN comments => comments'[comment[p]] = Decide(result[p])
  <2>1. comments' = [comments EXCEPT ![comment[p]] = Decide(result[p])]
    BY <1>3 DEF Rewrite
  <2>2. /\ comments \in [1 .. Len(comments) -> GateDecision]
        /\ DOMAIN comments = 1 .. Len(comments) /\ Len(comments) \in Nat
    BY <1>2
  <2>3. /\ comments' \in [1 .. Len(comments) -> GateDecision]
        /\ DOMAIN comments' = DOMAIN comments
        /\ comment[p] \in DOMAIN comments => comments'[comment[p]] = Decide(result[p])
    BY <1>1, <2>1, <2>2
  <2>4. comments' \in Seq(GateDecision) /\ Len(comments') = Len(comments)
    BY <2>2, <2>3
  <2>5. QED
    BY <2>3, <2>4
<1>4. ASSUME Add(p)
      PROVE  /\ comments' \in Seq(GateDecision)
             /\ Len(comments') = Len(comments) + 1
             /\ Len(comments') \in DOMAIN comments'
             /\ comments'[Len(comments')] = Decide(result[p])
             /\ \A n \in DOMAIN comments : n \in DOMAIN comments' /\ comments'[n] = comments[n]
  <2>1. comments' = Append(comments, Decide(result[p]))
    BY <1>4 DEF Add
  <2>2. QED
    BY <1>1, <1>2, <2>1, AppendProperties
<1>5. ASSUME Conclude(p)
      PROVE  /\ checkRuns' \in Seq(Conclusions) /\ checkRuns' # << >>
             /\ checkRuns'[Len(checkRuns')] = Conclusion(Decide(result[p]))
  <2>1. checkRuns' = Append(checkRuns, Conclusion(Decide(result[p])))
    BY <1>5 DEF Conclude
  <2>2. QED
    BY <1>1, <1>2, <2>1, AppendProperties
<1>6. QED
  BY <1>3, <1>4, <1>5

\* Every step keeps the types.
LEMMA TypeStep ==
    ASSUME TypeOK, Equipped, [Next]_vars
    PROVE  TypeOK' /\ Equipped'
<1> USE FaultsAssumption, AttemptsAssumption, BoundAssumption, NoneAssumption
<1>1. ASSUME NEW p \in Publishers, NEW r \in Outcomes, Publish(p, r) PROVE TypeOK' /\ Equipped'
  <2>1. r \in Results
    BY OutcomesAssumption
  <2>2. publications' \in 0 .. MaxPublications
    BY <1>1 DEF Publish, TypeOK
  <2>3. overlap' \in BOOLEAN
    BY <1>1 DEF Publish
  <2>4. QED
    BY <1>1, <2>1, <2>2, <2>3 DEF Publish, Goto, Set, github, TypeOK, Equipped
<1>2. ASSUME NEW p \in Publishers, LookUp(p) PROVE TypeOK' /\ Equipped'
  BY <1>2 DEF LookUp, Goto, Set, github, TypeOK, Equipped
<1>3. ASSUME NEW p \in Publishers, LookUpRaises(p) PROVE TypeOK' /\ Equipped'
  BY <1>3, RaiseTypes DEF LookUpRaises, Fault, github, TypeOK
<1>4. ASSUME NEW p \in Publishers, Update(p) PROVE TypeOK' /\ Equipped'
  <2>1. comments' \in Seq(GateDecision)
    BY <1>4, GitHubTypes DEF Update
  <2>2. QED
    BY <1>4, <2>1 DEF Update, Goto, Set, TypeOK, Equipped
<1>5. ASSUME NEW p \in Publishers, UpdateUnanswered(p) PROVE TypeOK' /\ Equipped'
  <2>1. comments' \in Seq(GateDecision)
    BY <1>5, GitHubTypes DEF UpdateUnanswered, TypeOK
  <2>2. QED
    BY <1>5, <2>1, AgainTypes DEF UpdateUnanswered, Fault, TypeOK
<1>6. ASSUME NEW p \in Publishers, Post(p) PROVE TypeOK' /\ Equipped'
  <2>1. comments' \in Seq(GateDecision)
    BY <1>6, GitHubTypes DEF Post
  <2>2. Len(comments') \in Nat
    BY <2>1
  <2>3. QED
    BY <1>6, <2>1, <2>2 DEF Post, Goto, Set, TypeOK, Equipped
<1>7. ASSUME NEW p \in Publishers, PostUnanswered(p) PROVE TypeOK' /\ Equipped'
  <2>1. comments' \in Seq(GateDecision)
    BY <1>7, GitHubTypes DEF PostUnanswered, TypeOK
  <2>2. QED
    BY <1>7, <2>1, AgainTypes DEF PostUnanswered, Fault, TypeOK
<1>8. ASSUME NEW p \in Publishers, Remember(p) PROVE TypeOK' /\ Equipped'
  BY <1>8 DEF Remember, Goto, Set, github, TypeOK, Equipped
<1>9. ASSUME NEW p \in Publishers, RememberRaises(p) PROVE TypeOK' /\ Equipped'
  <2>1. stored' \in Nat \cup {None}
    BY <1>9 DEF RememberRaises, TypeOK
  <2>2. QED
    BY <1>9, <2>1, RaiseTypes DEF RememberRaises, Fault, github, TypeOK
<1>10. ASSUME NEW p \in Publishers, CheckRun(p) PROVE TypeOK' /\ Equipped'
  <2>1. checkRuns' \in Seq(Conclusions)
    BY <1>10, GitHubTypes DEF CheckRun
  <2>2. QED
    BY <1>10, <2>1 DEF CheckRun, Goto, Set, TypeOK, Equipped
<1>11. ASSUME NEW p \in Publishers, CheckRunUnanswered(p) PROVE TypeOK' /\ Equipped'
  <2>1. checkRuns' \in Seq(Conclusions)
    BY <1>11, GitHubTypes DEF CheckRunUnanswered, TypeOK
  <2>2. QED
    BY <1>11, <2>1, AgainTypes DEF CheckRunUnanswered, Fault, TypeOK
<1>12. ASSUME NEW p \in Publishers, UpdateGone(p) \/ Refused(p) \/ Crash(p) PROVE TypeOK' /\ Equipped'
  <2>1. /\ Raise(p) /\ UNCHANGED <<github, stored, publications, overlap>>
        /\ UNCHANGED faults \/ Fault("refused") \/ Fault("crash")
    BY <1>12 DEF UpdateGone, Refused, Crash
  <2>2. QED
    BY <2>1, RaiseTypes DEF Fault, github, TypeOK
<1>13. ASSUME NEW c \in DOMAIN comments, Delete(c) PROVE TypeOK' /\ Equipped'
  <2>1. c \in Nat
    BY DEF TypeOK
  <2>2. QED
    BY <1>13, <2>1 DEF Delete, TypeOK, Equipped
<1>14. CASE UNCHANGED vars
  BY <1>14 DEF vars, TypeOK, Equipped
<1>15. QED
  BY <1>1, <1>2, <1>3, <1>4, <1>5, <1>6, <1>7, <1>8, <1>9, <1>10, <1>11, <1>12, <1>13, <1>14
     DEF Next, Call

-----------------------------------------------------------------------------
(* Ids.                                                                    *)

\* A comment, once posted, is there; what an exception or another attempt leaves
\* of a call is no id that was not used before.
LEMMA IdsStep ==
    ASSUME TypeOK, Equipped, IdsKnown, [Next]_vars
    PROVE  IdsKnown'
<1> USE NoneAssumption
<1>1. ASSUME NEW p \in Publishers, NEW r \in Outcomes, Publish(p, r) PROVE IdsKnown'
  BY <1>1 DEF Publish, Goto, Set, github, TypeOK, IdsKnown
<1>2. ASSUME NEW p \in Publishers, LookUp(p) PROVE IdsKnown'
  BY <1>2 DEF LookUp, Goto, Set, github, TypeOK, IdsKnown
<1>3. ASSUME NEW p \in Publishers, LookUpRaises(p) PROVE IdsKnown'
  BY <1>3 DEF LookUpRaises, Raise, Goto, Set, github, TypeOK, IdsKnown
<1>4. ASSUME NEW p \in Publishers, Update(p) PROVE IdsKnown'
  <2>1. DOMAIN comments' = DOMAIN comments
    BY <1>4, GitHubTypes DEF Update
  <2>2. QED
    BY <1>4, <2>1 DEF Update, Goto, Set, TypeOK, IdsKnown
<1>5. ASSUME NEW p \in Publishers, UpdateUnanswered(p) PROVE IdsKnown'
  <2>1. DOMAIN comments' = DOMAIN comments
    BY <1>5, GitHubTypes DEF UpdateUnanswered
  <2>2. QED
    BY <1>5, <2>1 DEF UpdateUnanswered, Again, Raise, Goto, Set, TypeOK, IdsKnown
<1>6. ASSUME NEW p \in Publishers, Post(p) PROVE IdsKnown'
  <2>1. /\ DOMAIN comments \subseteq DOMAIN comments'
        /\ Len(comments') \in DOMAIN comments'
    BY <1>6, GitHubTypes DEF Post
  <2>2. QED
    BY <1>6, <2>1 DEF Post, Goto, Set, TypeOK, IdsKnown
<1>7. ASSUME NEW p \in Publishers, PostUnanswered(p) PROVE IdsKnown'
  <2>1. DOMAIN comments \subseteq DOMAIN comments'
    BY <1>7, GitHubTypes DEF PostUnanswered
  <2>2. QED
    BY <1>7, <2>1 DEF PostUnanswered, Again, Raise, Goto, Set, TypeOK, IdsKnown
<1>8. ASSUME NEW p \in Publishers, Remember(p) PROVE IdsKnown'
  BY <1>8 DEF Remember, Goto, Set, github, TypeOK, IdsKnown
<1>9. ASSUME NEW p \in Publishers, RememberRaises(p) PROVE IdsKnown'
  BY <1>9 DEF RememberRaises, Raise, Goto, Set, github, TypeOK, IdsKnown
<1>10. ASSUME NEW p \in Publishers, CheckRun(p) PROVE IdsKnown'
  BY <1>10 DEF CheckRun, Goto, Set, TypeOK, IdsKnown
<1>11. ASSUME NEW p \in Publishers, CheckRunUnanswered(p) PROVE IdsKnown'
  BY <1>11 DEF CheckRunUnanswered, Again, Raise, Goto, Set, TypeOK, IdsKnown
<1>12. ASSUME NEW p \in Publishers, UpdateGone(p) \/ Refused(p) \/ Crash(p) PROVE IdsKnown'
  BY <1>12 DEF UpdateGone, Refused, Crash, Raise, Goto, Set, github, TypeOK, IdsKnown
<1>13. ASSUME NEW c \in DOMAIN comments, Delete(c) PROVE IdsKnown'
  BY <1>13 DEF Delete, IdsKnown
<1>14. CASE UNCHANGED vars
  BY <1>14 DEF vars, IdsKnown
<1>15. QED
  BY <1>1, <1>2, <1>3, <1>4, <1>5, <1>6, <1>7, <1>8, <1>9, <1>10, <1>11, <1>12, <1>13, <1>14
     DEF Next, Call

-----------------------------------------------------------------------------
(* One story.                                                              *)

\* Who publishes while another does is marked, and who does not is alone.
LEMMA AloneStep ==
    ASSUME TypeOK, Alone, [Next]_vars
    PROVE  Alone'
<1>1. ASSUME NEW p \in Publishers, NEW r \in Outcomes, Publish(p, r) PROVE Alone'
  BY <1>1 DEF Publish, Goto, Set, TypeOK, Alone, Busy
<1>2. ASSUME NEW p \in Publishers, pc[p] # "idle", overlap' = overlap, NEW to,
             pc' = pc \/ pc' = [pc EXCEPT ![p] = to]
      PROVE  Alone'
  BY <1>2 DEF TypeOK, Alone, Busy
<1>3. ASSUME NEW p \in Publishers,
             \/ LookUp(p) \/ LookUpRaises(p)
             \/ Update(p) \/ UpdateUnanswered(p) \/ UpdateGone(p)
             \/ Post(p) \/ PostUnanswered(p)
             \/ Remember(p) \/ RememberRaises(p)
             \/ CheckRun(p) \/ CheckRunUnanswered(p)
             \/ Refused(p) \/ Crash(p)
      PROVE  /\ pc[p] # "idle" /\ overlap' = overlap
             /\ \E to : pc' = pc \/ pc' = [pc EXCEPT ![p] = to]
  BY <1>3 DEF LookUp, LookUpRaises, Update, UpdateUnanswered, UpdateGone, Post, PostUnanswered,
              Remember, RememberRaises, CheckRun, CheckRunUnanswered, Refused, Crash, Again, Raise, Goto, Set
<1>4. CASE UNCHANGED vars \/ \E c \in DOMAIN comments : Delete(c)
  BY <1>4 DEF vars, Delete, Alone, Busy
<1>5. QED
  BY <1>1, <1>2, <1>3, <1>4 DEF Next, Call

\* While a call is under way nothing is settled, and only its return settles it.
LEMMA Unsettled ==
    ASSUME TypeOK, Told, NEW p \in Publishers,
           \/ \E r \in Outcomes : Publish(p, r)
           \/ LookUp(p) \/ LookUpRaises(p)
           \/ Update(p) \/ UpdateUnanswered(p) \/ UpdateGone(p)
           \/ Post(p) \/ PostUnanswered(p)
           \/ Remember(p) \/ RememberRaises(p)
           \/ CheckRunUnanswered(p) \/ Refused(p) \/ Crash(p)
    PROVE  ~settled'
<1>1. pc[p] # "idle" => ~settled
  BY DEF Told, Busy
<1>2. QED
  BY <1>1 DEF Publish, LookUp, LookUpRaises, Update, UpdateUnanswered, UpdateGone, Post,
              PostUnanswered, Remember, RememberRaises, CheckRunUnanswered, Refused, Crash, Again, Raise, Goto, Set

\* Who is alone finds everybody else idle.
LEMMA OthersIdle ==
    ASSUME Alone, ~overlap, NEW p \in Publishers, pc[p] # "idle", NEW q \in Publishers, q # p
    PROVE  pc[q] = "idle"
  BY DEF Alone, Busy

\* What a call that is alone has written is what Redis and GitHub hold.
LEMMA OwnStoryStep ==
    ASSUME TypeOK, Equipped, IdsKnown, Alone, OwnStory, [Next]_vars
    PROVE  OwnStory'
<1>1. ASSUME NEW p \in Publishers, NEW r \in Outcomes, Publish(p, r) PROVE OwnStory'
  BY <1>1 DEF Publish, Goto, Set, TypeOK, OwnStory
<1>2. ASSUME NEW p \in Publishers, LookUp(p) PROVE OwnStory'
  <2>1. ~overlap => \A q \in Publishers : q # p => pc[q] = "idle"
    BY <1>2, OthersIdle DEF LookUp
  <2>2. QED
    BY <1>2, <2>1 DEF LookUp, Goto, Set, TypeOK, OwnStory
<1>3. ASSUME NEW p \in Publishers, Raise(p), pc[p] # "idle", overlap' = overlap PROVE OwnStory'
  <2>1. ~overlap => \A q \in Publishers : q # p => pc[q] = "idle"
    BY <1>3, OthersIdle
  <2>2. QED
    BY <1>3, <2>1 DEF Raise, Goto, Set, TypeOK, OwnStory
<1>4. ASSUME NEW p \in Publishers, Update(p) PROVE OwnStory'
  <2>1. ~overlap => \A q \in Publishers : q # p => pc[q] = "idle"
    BY <1>4, OthersIdle DEF Update
  <2>2. comments'[comment[p]] = Decide(result[p])
    BY <1>4, GitHubTypes DEF Update, IdsKnown
  <2>3. QED
    BY <1>4, <2>1, <2>2 DEF Update, Goto, Set, TypeOK, OwnStory
<1>5. ASSUME NEW p \in Publishers, UpdateUnanswered(p) PROVE OwnStory'
  <2>1. CASE Raise(p)
    BY <1>3, <1>5, <2>1 DEF UpdateUnanswered
  <2>2. CASE UNCHANGED <<pc, result, comment>>
    <3>1. ~overlap => \A q \in Publishers : q # p => pc[q] = "idle"
      BY <1>5, OthersIdle DEF UpdateUnanswered
    <3>2. QED
      BY <1>5, <2>2, <3>1 DEF UpdateUnanswered, OwnStory
  <2>3. QED
    BY <1>5, <2>1, <2>2 DEF UpdateUnanswered, Again
<1>6. ASSUME NEW p \in Publishers, Post(p) PROVE OwnStory'
  <2>1. ~overlap => \A q \in Publishers : q # p => pc[q] = "idle"
    BY <1>6, OthersIdle DEF Post
  <2>2. comments'[Len(comments')] = Decide(result[p])
    BY <1>6, GitHubTypes DEF Post
  <2>3. QED
    BY <1>6, <2>1, <2>2 DEF Post, Goto, Set, TypeOK, OwnStory
<1>7. ASSUME NEW p \in Publishers, PostUnanswered(p) PROVE OwnStory'
  <2>1. CASE Raise(p)
    BY <1>3, <1>7, <2>1 DEF PostUnanswered
  <2>2. CASE UNCHANGED <<pc, result, comment>>
    <3>1. ~overlap => \A q \in Publishers : q # p => pc[q] = "idle"
      BY <1>7, OthersIdle DEF PostUnanswered
    <3>2. QED
      BY <1>7, <2>2, <3>1 DEF PostUnanswered, OwnStory
  <2>3. QED
    BY <1>7, <2>1, <2>2 DEF PostUnanswered, Again
<1>8. ASSUME NEW p \in Publishers, Remember(p) PROVE OwnStory'
  <2>1. ~overlap => \A q \in Publishers : q # p => pc[q] = "idle"
    BY <1>8, OthersIdle DEF Remember
  <2>2. QED
    BY <1>8, <2>1 DEF Remember, Goto, Set, github, TypeOK, OwnStory
<1>9. ASSUME NEW p \in Publishers, CheckRun(p) PROVE OwnStory'
  <2>1. ~overlap => \A q \in Publishers : q # p => pc[q] = "idle"
    BY <1>9, OthersIdle DEF CheckRun
  <2>2. QED
    BY <1>9, <2>1 DEF CheckRun, Goto, Set, TypeOK, OwnStory
<1>10. ASSUME NEW p \in Publishers, CheckRunUnanswered(p) PROVE OwnStory'
  <2>1. CASE Raise(p)
    BY <1>3, <1>10, <2>1 DEF CheckRunUnanswered
  <2>2. CASE UNCHANGED <<pc, result, comment>>
    BY <1>10, <2>2 DEF CheckRunUnanswered, OwnStory
  <2>3. QED
    BY <1>10, <2>1, <2>2 DEF CheckRunUnanswered, Again
<1>11. ASSUME NEW p \in Publishers,
              LookUpRaises(p) \/ UpdateGone(p) \/ RememberRaises(p) \/ Refused(p) \/ Crash(p)
       PROVE  OwnStory'
  <2>1. Raise(p) /\ pc[p] # "idle" /\ overlap' = overlap
    BY <1>11 DEF LookUpRaises, UpdateGone, RememberRaises, Refused, Crash
  <2>2. QED
    BY <1>3, <2>1
<1>12. CASE UNCHANGED vars \/ \E c \in DOMAIN comments : Delete(c)
  BY <1>12 DEF vars, Delete, OwnStory
<1>13. QED
  BY <1>1, <1>2, <1>4, <1>5, <1>6, <1>7, <1>8, <1>9, <1>10, <1>11, <1>12 DEF Next, Call

\* The return of a call that was alone leaves one story, and the next call starts
\* another.
LEMMA ToldStep ==
    ASSUME TypeOK, Equipped, IdsKnown, Alone, OwnStory, Told, OneStory, [Next]_vars
    PROVE  Told' /\ OneStory'
<1>1. ASSUME NEW p \in Publishers, CheckRun(p) PROVE Told' /\ OneStory'
  <2>1. settled' => ~overlap
    BY <1>1 DEF CheckRun
  <2>2. CASE overlap
    BY <2>1, <2>2 DEF Told, OneStory
  <2>3. CASE ~overlap
    <3>1. \A q \in Publishers : q # p => pc[q] = "idle"
      BY <1>1, <2>3, OthersIdle DEF CheckRun
    <3>2. Busy' = {}
      BY <1>1, <3>1 DEF CheckRun, Goto, Set, Busy, TypeOK
    <3>3. /\ stored = comment[p] /\ comment[p] \in DOMAIN comments
          /\ comments[stored] = Decide(result[p])
      BY <1>1, <2>3 DEF CheckRun, OwnStory, IdsKnown
    <3>4. stored # None
      BY <3>3, NoneAssumption DEF TypeOK
    <3>5. checkRuns' # << >> /\ checkRuns'[Len(checkRuns')] = Conclusion(Decide(result[p]))
      BY <1>1, GitHubTypes DEF CheckRun
    <3>6. stored' = stored /\ comments' = comments
      BY <1>1 DEF CheckRun
    <3>7. QED
      BY <3>2, <3>3, <3>4, <3>5, <3>6 DEF Told, OneStory
  <2>4. QED
    BY <2>2, <2>3
<1>2. CASE UNCHANGED vars \/ \E c \in DOMAIN comments : Delete(c)
  BY <1>2 DEF vars, Delete, Told, OneStory, Busy
<1>3. CASE Next /\ ~settled'
  BY <1>3 DEF Told, OneStory
<1>4. QED
  BY <1>1, <1>2, <1>3, Unsettled DEF Next, Call

-----------------------------------------------------------------------------
(* What the comments have cost.                                            *)

\* How many are about to post and how many to store an id.
Posting == Cardinality(AtStep("post"))
Remembering == Cardinality(AtStep("remember"))

\* A process that goes to none of these two steps changes them by leaving only.
LEMMA Passing ==
    ASSUME TypeOK, NEW p \in Publishers, NEW to, to \notin {"post", "remember"},
           pc' = [pc EXCEPT ![p] = to]
    PROVE  /\ Posting' = IF pc[p] = "post" THEN Posting - 1 ELSE Posting
           /\ Remembering' = IF pc[p] = "remember" THEN Remembering - 1 ELSE Remembering
<1>1. to # "post" /\ to # "remember"
  OBVIOUS
<1>2. Cardinality(AtStep("post"))' =
          IF pc[p] = "post" THEN Cardinality(AtStep("post")) - 1 ELSE Cardinality(AtStep("post"))
  BY <1>1, Left
<1>3. Cardinality(AtStep("remember"))' =
          IF pc[p] = "remember" THEN Cardinality(AtStep("remember")) - 1
          ELSE Cardinality(AtStep("remember"))
  BY <1>1, Left
<1>4. QED
  BY <1>2, <1>3 DEF Posting, Remembering

\* PostsPaid in their terms, and their bounds.
LEMMA Paid ==
    ASSUME TypeOK
    PROVE  /\ PostsPaid <=>
                 /\ stored = None => Len(comments) <= Remembering + faults
                 /\ Len(comments) + (IF stored = None THEN 0 ELSE Posting)
                        <= Cardinality(Publishers) + faults
           /\ PostsPaid' <=>
                 /\ stored' = None => Len(comments') <= Remembering' + faults'
                 /\ Len(comments') + (IF stored' = None THEN 0 ELSE Posting')
                        <= Cardinality(Publishers) + faults'
           /\ Posting \in Nat /\ Remembering \in Nat /\ Cardinality(Publishers) \in Nat
           /\ Posting + Remembering <= Cardinality(Publishers)
           /\ Len(comments) \in Nat /\ faults \in Nat
<1>1. Posting \in Nat /\ Remembering \in Nat /\ Posting + Remembering <= Cardinality(Publishers)
  BY AtStepFinite, PostOrRemember DEF Posting, Remembering
<1>2. Cardinality(Publishers) \in Nat
  BY PublishersAssumption, FS_CardinalityType
<1>3. Len(comments) \in Nat /\ faults \in Nat
  BY FaultsAssumption DEF TypeOK
<1>4. QED
  BY <1>1, <1>2, <1>3 DEF PostsPaid, Posting, Remembering

\* Whoever leaves after a fault leaves no comment that is not paid for.
LEMMA PaidByFault ==
    ASSUME TypeOK, PostsPaid, NEW p \in Publishers, pc' = pc \/ pc' = [pc EXCEPT ![p] = "idle"],
           faults' = faults + 1, UNCHANGED stored,
           \/ Len(comments') = Len(comments)
           \/ Len(comments') = Len(comments) + 1 /\ pc[p] = "post"
    PROVE  PostsPaid'
<1>1. CASE pc' = [pc EXCEPT ![p] = "idle"]
  <2>1. /\ Posting' = IF pc[p] = "post" THEN Posting - 1 ELSE Posting
        /\ Remembering' = IF pc[p] = "remember" THEN Remembering - 1 ELSE Remembering
    BY <1>1, Passing
  <2>2. /\ Len(comments') = Len(comments) \/ (Len(comments') = Len(comments) + 1 /\ pc[p] = "post")
        /\ stored' = stored
    OBVIOUS
  <2>3. stored = None => Len(comments') <= Remembering' + faults'
    <3>1. /\ stored = None => Len(comments) <= Remembering + faults
          /\ Len(comments) \in Nat /\ Remembering \in Nat /\ faults \in Nat
      BY Paid
    <3>2. CASE pc[p] = "remember"
      <4>1. Len(comments') = Len(comments) /\ Remembering' = Remembering - 1
        BY <2>1, <2>2, <3>2
      <4>2. QED
        BY <3>1, <4>1
    <3>3. CASE pc[p] # "remember"
      BY <2>1, <2>2, <3>1, <3>3
    <3>4. QED
      BY <3>2, <3>3
  <2>4. Len(comments') + (IF stored = None THEN 0 ELSE Posting') <= Cardinality(Publishers) + faults'
    <3>1. /\ Len(comments) + (IF stored = None THEN 0 ELSE Posting) <= Cardinality(Publishers) + faults
          /\ Len(comments) \in Nat /\ Posting \in Nat /\ faults \in Nat
          /\ Cardinality(Publishers) \in Nat
      BY Paid
    <3>2. Len(comments') \in {Len(comments), Len(comments) + 1} /\ Posting' \in {Posting - 1, Posting}
      BY <2>1, <2>2
    <3>3. QED
      BY <3>1, <3>2
  <2>5. QED
    BY <2>2, <2>3, <2>4, Paid
<1>2. CASE pc' = pc
  <2>1. Posting' = Posting /\ Remembering' = Remembering
    BY <1>2 DEF Posting, Remembering, AtStep
  <2>2. /\ Len(comments') = Len(comments) \/ Len(comments') = Len(comments) + 1
        /\ stored' = stored /\ faults' = faults + 1
    OBVIOUS
  <2>3. stored = None => Len(comments') <= Remembering' + faults'
    <3>1. /\ stored = None => Len(comments) <= Remembering + faults
          /\ Len(comments) \in Nat /\ Remembering \in Nat /\ faults \in Nat
      BY Paid
    <3>2. QED
      BY <2>1, <2>2, <3>1
  <2>4. Len(comments') + (IF stored = None THEN 0 ELSE Posting') <= Cardinality(Publishers) + faults'
    BY <2>1, <2>2, Paid
  <2>5. QED
    BY <2>2, <2>3, <2>4, Paid
<1>3. QED
  BY <1>1, <1>2

\* An id that is stored ends the race: who has not looked yet will not post.
LEMMA PaidFromNowOn ==
    ASSUME TypeOK, PostsPaid, NEW p \in Publishers, pc[p] = "remember",
           NEW to \in {"idle", "check_run"}, pc' = [pc EXCEPT ![p] = to],
           UNCHANGED comments, stored' # None, faults' \in {faults, faults + 1}
    PROVE  PostsPaid'
<1>1. Posting' = Posting
  BY Passing
<1>2. QED
  BY <1>1, Paid

\* Every comment is somebody's first or is paid for.
LEMMA PaidStep ==
    ASSUME TypeOK, Equipped, IdsKnown, PostsPaid, [Next]_vars
    PROVE  PostsPaid'
<1>1. ASSUME NEW p \in Publishers, pc[p] \notin {"post", "remember"},
             NEW to, to \notin {"post", "remember"}, pc' = [pc EXCEPT ![p] = to],
             Len(comments') = Len(comments), UNCHANGED <<stored, faults>>
      PROVE  PostsPaid'
  <2>1. Posting' = Posting /\ Remembering' = Remembering
    BY <1>1, Passing
  <2>2. QED
    BY <1>1, <2>1, Paid
<1>2. ASSUME NEW p \in Publishers, NEW r \in Outcomes, Publish(p, r) PROVE PostsPaid'
  BY <1>1, <1>2 DEF Publish, Goto, Set, github
<1>3. ASSUME NEW p \in Publishers, LookUp(p) PROVE PostsPaid'
  <2>1. CASE stored # None
    BY <1>1, <1>3, <2>1 DEF LookUp, Goto, Set, github
  <2>2. CASE stored = None
    <3>1. pc' = [pc EXCEPT ![p] = "post"] /\ pc[p] = "look_up"
      BY <1>3, <2>2 DEF LookUp, Goto, Set
    <3>2. Remembering' = Remembering
      BY <3>1, Left DEF Remembering
    <3>3. UNCHANGED <<comments, stored, faults>>
      BY <1>3 DEF LookUp, github
    <3>4. QED
      BY <2>2, <3>2, <3>3, Paid
  <2>3. QED
    BY <2>1, <2>2
<1>4. ASSUME NEW p \in Publishers, Update(p) PROVE PostsPaid'
  <2>1. Len(comments') = Len(comments)
    BY <1>4, GitHubTypes DEF Update
  <2>2. QED
    BY <1>1, <1>4, <2>1 DEF Update, Goto, Set
<1>5. ASSUME NEW p \in Publishers, UpdateUnanswered(p) PROVE PostsPaid'
  <2>1. Len(comments') = Len(comments)
    BY <1>5, GitHubTypes DEF UpdateUnanswered
  <2>2. /\ pc' = pc \/ pc' = [pc EXCEPT ![p] = "idle"]
        /\ faults' = faults + 1 /\ UNCHANGED stored
    BY <1>5 DEF UpdateUnanswered, Fault, Again, Raise, Goto, Set
  <2>3. QED
    BY <2>1, <2>2, PaidByFault
<1>6. ASSUME NEW p \in Publishers, Post(p) PROVE PostsPaid'
  <2>1. pc' = [pc EXCEPT ![p] = "remember"] /\ pc[p] = "post" /\ UNCHANGED <<stored, faults>>
    BY <1>6 DEF Post, Goto, Set
  <2>2. Len(comments') = Len(comments) + 1
    BY <1>6, GitHubTypes DEF Post
  <2>3. Remembering' = Remembering + 1
    BY <2>1, Entered DEF Remembering
  <2>4. Posting' = Posting - 1
    BY <2>1, Left DEF Posting
  <2>5. Posting # 0
    <3>1. p \in AtStep("post")
      BY <2>1 DEF AtStep
    <3>2. QED
      BY <3>1, AtStepFinite, FS_EmptySet DEF Posting
  <2>6. QED
    BY <2>1, <2>2, <2>3, <2>4, <2>5, Paid
<1>7. ASSUME NEW p \in Publishers, PostUnanswered(p) PROVE PostsPaid'
  <2>1. Len(comments') = Len(comments) + 1 \/ UNCHANGED comments
    BY <1>7, GitHubTypes DEF PostUnanswered
  <2>2. QED
    BY <1>7, <2>1, PaidByFault DEF PostUnanswered, Fault, Again, Raise, Goto, Set
<1>8. ASSUME NEW p \in Publishers, Remember(p) PROVE PostsPaid'
  <2>1. comment[p] # None
    BY <1>8, NoneAssumption DEF Remember, IdsKnown, TypeOK
  <2>2. QED
    BY <1>8, <2>1, PaidFromNowOn DEF Remember, Goto, Set, github
<1>9. ASSUME NEW p \in Publishers, RememberRaises(p) PROVE PostsPaid'
  <2>1. /\ pc[p] = "remember" /\ pc' = [pc EXCEPT ![p] = "idle"]
        /\ UNCHANGED comments /\ faults' = faults + 1
        /\ UNCHANGED stored \/ stored' = comment[p]
    BY <1>9 DEF RememberRaises, Fault, Raise, Goto, Set, github
  <2>2. CASE UNCHANGED stored
    BY <2>1, <2>2, PaidByFault
  <2>3. CASE stored' = comment[p]
    <3>1. comment[p] # None
      BY <2>1, NoneAssumption DEF IdsKnown, TypeOK
    <3>2. QED
      BY <2>1, <2>3, <3>1, PaidFromNowOn
  <2>4. QED
    BY <2>1, <2>2, <2>3
<1>10. ASSUME NEW p \in Publishers, CheckRun(p) PROVE PostsPaid'
  BY <1>1, <1>10 DEF CheckRun, Goto, Set
<1>11. ASSUME NEW p \in Publishers, CheckRunUnanswered(p) PROVE PostsPaid'
  BY <1>11, PaidByFault DEF CheckRunUnanswered, Fault, Again, Raise, Goto, Set
<1>12. ASSUME NEW p \in Publishers,
              LookUpRaises(p) \/ Refused(p) \/ Crash(p)
       PROVE  PostsPaid'
  BY <1>12, PaidByFault DEF LookUpRaises, Refused, Crash, Fault, Raise, Goto, Set, github
<1>13. CASE UNCHANGED vars \/ \E c \in DOMAIN comments : Delete(c)
  <2>1. Posting' = Posting /\ Remembering' = Remembering
    BY <1>13 DEF vars, Delete, Posting, Remembering, AtStep
  <2>2. QED
    BY <1>13, <2>1, Paid DEF vars, Delete
<1>14. ASSUME NEW p \in Publishers, UpdateGone(p) PROVE PostsPaid'
  BY <1>1, <1>14 DEF UpdateGone, Raise, Goto, Set, github
<1>15. QED
  BY <1>2, <1>3, <1>4, <1>5, <1>6, <1>7, <1>8, <1>9, <1>10, <1>11, <1>12, <1>13, <1>14 DEF Next, Call

-----------------------------------------------------------------------------

\* The invariant holds at first ...
LEMMA InitIInv ==
    ASSUME Init
    PROVE  IInv
<1>1. TypeOK
  <2>1. 1 \in 1 .. MaxAttempts /\ 0 \in 0 .. MaxFaults /\ 0 \in 0 .. MaxPublications
    BY FaultsAssumption, AttemptsAssumption, BoundAssumption
  <2>2. comments \in Seq(GateDecision) /\ checkRuns \in Seq(Conclusions)
    BY DEF Init
  <2>3. /\ pc \in [Publishers -> {"idle", "look_up", "update", "post", "remember", "check_run"}]
        /\ result \in [Publishers -> Results \cup {None}]
        /\ comment \in [Publishers -> Nat \cup {None}]
        /\ attempt \in [Publishers -> 1 .. MaxAttempts]
    BY <2>1 DEF Init
  <2>4. QED
    BY <2>1, <2>2, <2>3 DEF Init, TypeOK
<1>2. Equipped /\ IdsKnown /\ Alone /\ OwnStory /\ Told /\ OneStory
  BY DEF Init, Equipped, IdsKnown, Alone, OwnStory, Told, OneStory, Busy
<1>3. Len(comments) = 0 /\ stored = None /\ faults = 0
  BY DEF Init
<1>4. PostsPaid
  BY <1>1, <1>3, Paid
<1>5. QED
  BY <1>1, <1>2, <1>4 DEF IInv

\* ... and after every step.
LEMMA NextIInv ==
    ASSUME IInv, [Next]_vars
    PROVE  IInv'
  BY TypeStep, IdsStep, AloneStep, OwnStoryStep, ToldStep, PaidStep DEF IInv

\* publish_review() and what it meets keep it.
LEMMA IInvHolds == Spec => []IInv
  BY InitIInv, NextIInv, PTL DEF Spec

\* Every value of a call of publish_review(), of Redis and of GitHub has its type.
THEOREM TypeCorrect == Spec => []TypeOK
<1>1. IInv => TypeOK
  BY DEF IInv
<1>2. QED
  BY <1>1, IInvHolds, PTL

\* For any number of processes and faults: every comment beyond one for each
\* process is due to a fault.
THEOREM DuplicatesAreExplained == Spec => []DuplicatesExplained
<1>1. IInv => DuplicatesExplained
  <2>1. ASSUME TypeOK, PostsPaid PROVE DuplicatesExplained
    BY <2>1, Paid DEF DuplicatesExplained
  <2>2. QED
    BY <2>1 DEF IInv
<1>2. QED
  BY <1>1, IInvHolds, PTL

\* After a call that met no other, the check run is the verdict the remembered
\* comment shows.
THEOREM OneStoryTold == Spec => []OneStory
<1>1. IInv => OneStory
  BY DEF IInv
<1>2. QED
  BY <1>1, IInvHolds, PTL

\* For any number of processes, runs and faults: once the comment Redis remembers
\* is deleted and no call is past its look-up with anything else, nothing is said
\* of the commit any more, in a comment or by a check run.
THEOREM SilenceIsKept == Spec => ForsakenStaysSilent
<1> DEFINE Silent == Forsaken => Forsaken' /\ UNCHANGED <<comments, checkRuns>>
<1>1. TypeOK /\ [Next]_vars => [Silent]_vars
  <2> SUFFICES ASSUME TypeOK, Next, Forsaken
               PROVE  Forsaken' /\ UNCHANGED <<comments, checkRuns>>
    OBVIOUS
  <2>1. ASSUME NEW p \in Publishers, Call(p) PROVE Forsaken' /\ UNCHANGED <<comments, checkRuns>>
    <3>1. pc[p] \in {"idle", "look_up", "update"} /\ (pc[p] = "update" => comment[p] \in deleted)
      BY DEF Forsaken
    <3>2. UNCHANGED <<comments, checkRuns, stored, deleted>>
      BY <2>1, <3>1 DEF Call, Publish, LookUp, LookUpRaises, Update, UpdateUnanswered, UpdateGone,
                        Rewrite, Post, PostUnanswered, Remember, RememberRaises, CheckRun,
                        CheckRunUnanswered, Refused, Crash, github
    <3>3. \A q \in Publishers \ {p} : pc'[q] = pc[q] /\ comment'[q] = comment[q]
      BY <2>1 DEF Call, Publish, LookUp, LookUpRaises, Update, UpdateUnanswered, UpdateGone,
                  Post, PostUnanswered, Remember, RememberRaises, CheckRun,
                  CheckRunUnanswered, Refused, Crash, Again, Raise, Goto, Set, TypeOK
    <3>4. pc'[p] \in {"idle", "look_up"} \/ (pc'[p] = "update" /\ comment'[p] = stored)
      BY <2>1, <3>1 DEF Forsaken, Call, Publish, LookUp, LookUpRaises, Update, UpdateUnanswered,
                        UpdateGone, Rewrite, Post, PostUnanswered, Remember, RememberRaises,
                        CheckRun, CheckRunUnanswered, Refused, Crash, Again, Raise, Goto, Set, TypeOK
    <3>5. QED
      BY <3>2, <3>3, <3>4 DEF Forsaken
  <2>2. ASSUME NEW c \in DOMAIN comments, Delete(c)
        PROVE  Forsaken' /\ UNCHANGED <<comments, checkRuns>>
    BY <2>2 DEF Delete, Forsaken
  <2>3. QED
    BY <2>1, <2>2 DEF Next
<1>2. QED
  BY <1>1, TypeCorrect, PTL DEF Spec, ForsakenStaysSilent

-----------------------------------------------------------------------------
(* GitHub App tokens, for all durations that meet their assumptions and   *)
(* for any time.                                                           *)

\* A clock within MaxSkew of a time.
LEMMA BetweenClocks ==
  ASSUME NEW time \in Int, NEW skew \in Int, NEW c \in time - skew .. time + skew
  PROVE  c \in Int /\ c - time <= skew /\ time - c <= skew
  OBVIOUS

\* The invariant holds before the first request.
LEMMA TokenInvInit == TokenInit => TokenInv
  BY DurationsAssumption, NoTokenAssumption
     DEF TokenInit, TokenInv, TokenTypeOK, InStep, LongEnough, NearlyUsedUp, UnderWay, NoJwt

\* Every step keeps it.
LEMMA TokenInvStep == TokenInv /\ [TokenNext]_tokenVars => TokenInv'
<1> SUFFICES ASSUME TokenInv, [TokenNext]_tokenVars PROVE TokenInv'
  OBVIOUS
<1> USE DurationsAssumption, NoTokenAssumption DEF TokenInv, TokenTypeOK
\* What is under way had a margin when it set out, and Tick does not let it
\* outlast its delay.
<1>1. CASE Tick
  <2>1. TokenTypeOK'
    BY <1>1 DEF Tick
  <2>2. InStep'
    <3>1. now' = now + 1 /\ UNCHANGED <<stage, since>> /\ (UnderWay => now < since + Delay)
      BY <1>1 DEF Tick
    <3>2. clock' \in now' - MaxSkew .. now' + MaxSkew
      BY <1>1 DEF Tick
    <3>3. clock' - now' <= MaxSkew /\ now' - clock' <= MaxSkew
      <4>1. now' \in Int /\ MaxSkew \in Int
        BY <3>1
      <4>2. QED
        BY <4>1, <3>2, BetweenClocks
    <3>4. UnderWay' => since' <= now' /\ now' <= since' + Delay
      BY <3>1 DEF InStep, UnderWay
    <3>5. QED
      BY <3>3, <3>4 DEF InStep
  <2>3. LongEnough' /\ NearlyUsedUp'
    BY <1>1 DEF Tick, LongEnough, NearlyUsedUp
  <2>4. QED
    BY <2>1, <2>2, <2>3
<1>2. CASE Begin
  BY <1>2 DEF Begin, InStep, LongEnough, NearlyUsedUp, UnderWay
\* The margin makes up for the clocks and for the way to GitHub.
<1>3. CASE UseCached
  <2>1. now + Delay < cache
    BY <1>3, TokenAssumption DEF UseCached, Usable, InStep
  <2>2. QED
    BY <1>3, <2>1 DEF UseCached, Usable, InStep, LongEnough, NearlyUsedUp, UnderWay
<1>4. CASE AskForToken
  <2>1. TokenTypeOK' /\ InStep'
    BY <1>4 DEF AskForToken, GenerateJwt, InStep, UnderWay
  <2>2. LongEnough'
    BY <1>4, JwtAssumption DEF AskForToken, GenerateJwt, InStep, LongEnough
  <2>3. NearlyUsedUp'
    BY <1>4 DEF AskForToken, Usable, InStep, NearlyUsedUp
  <2>4. QED
    BY <2>1, <2>2, <2>3
<1>5. CASE Receive
  <2>1. PICK issued \in since .. now : last' = issued /\ token' = issued + TokenLifetime
    BY <1>5 DEF Receive
  <2>2. issued \in Int /\ now <= issued + Delay
    BY <1>5, <2>1 DEF Receive, InStep, UnderWay
  <2>3. TokenTypeOK' /\ InStep'
    BY <1>5, <2>1, <2>2 DEF Receive, InStep, UnderWay, NoJwt
  <2>4. LongEnough'
    BY <1>5, <2>1, <2>2, TokenAssumption DEF Receive, LongEnough
  <2>5. NearlyUsedUp'
    BY <1>5, <2>1, <2>2 DEF Receive, NearlyUsedUp
  <2>6. QED
    BY <2>3, <2>4, <2>5
<1>6. CASE Repeat
  BY <1>6 DEF Repeat, NoJwt, InStep, LongEnough, NearlyUsedUp, UnderWay
<1>7. CASE Finish
  BY <1>7 DEF Finish, NoJwt, InStep, LongEnough, NearlyUsedUp, UnderWay
<1>8. CASE UNCHANGED tokenVars
  BY <1>8 DEF tokenVars, InStep, LongEnough, NearlyUsedUp, UnderWay
<1>9. QED
  BY <1>1, <1>2, <1>3, <1>4, <1>5, <1>6, <1>7, <1>8 DEF TokenNext

\* Every variable keeps to its type.
THEOREM TokenTypeCorrect == TokenSpec => []TokenTypeOK
<1>1. TokenInv => TokenTypeOK
  BY DEF TokenInv
<1>2. QED
  BY TokenInvInit, TokenInvStep, <1>1, PTL DEF TokenSpec

\* A token that goes out with a request is still alive when the request arrives,
\* as long as the margin covers the clocks and the way.
THEOREM TokenArrivesAlive == TokenSpec => []TokenAlive
<1>1. TokenInv => TokenAlive
  BY DurationsAssumption
     DEF TokenInv, TokenTypeOK, InStep, LongEnough, UnderWay, TokenAlive, TokenValid
<1>2. QED
  BY TokenInvInit, TokenInvStep, <1>1, PTL DEF TokenSpec

\* GitHub takes every JWT, as long as the clocks are no further apart than it is
\* dated back.
THEOREM JwtIsAccepted == TokenSpec => []JwtAccepted
<1>1. TokenInv => JwtAccepted
  BY DurationsAssumption
     DEF TokenInv, TokenTypeOK, InStep, LongEnough, UnderWay, JwtAccepted, JwtValid
<1>2. QED
  BY TokenInvInit, TokenInvStep, <1>1, PTL DEF TokenSpec

\* A token is used until it is nearly used up before another is asked for.
THEOREM TokensAreReused == TokenSpec => TokensReused
<1>1. TokenInv /\ [TokenNext]_tokenVars =>
         [last' # last /\ last # NoToken =>
             last' - last >= TokenLifetime - RefreshMargin - MaxSkew]_tokenVars
  <2> SUFFICES ASSUME TokenInv, Receive, last # NoToken
               PROVE  last' - last >= TokenLifetime - RefreshMargin - MaxSkew
    BY DEF TokenNext, Tick, Begin, UseCached, AskForToken, Repeat, Finish, tokenVars
  <2>1. PICK issued \in since .. now : last' = issued
    BY DEF Receive
  <2>2. since >= last + TokenLifetime - RefreshMargin - MaxSkew
    BY DurationsAssumption, NoTokenAssumption DEF TokenInv, TokenTypeOK, NearlyUsedUp, Receive
  <2>3. QED
    BY <2>1, <2>2, DurationsAssumption, NoTokenAssumption DEF TokenInv, TokenTypeOK
<1>2. QED
  BY TokenInvInit, TokenInvStep, <1>1, PTL DEF TokenSpec, TokensReused

=============================================================================
