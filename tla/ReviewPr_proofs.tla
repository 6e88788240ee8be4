--------------------------- MODULE ReviewPr_proofs ---------------------------
(***************************************************************************)
(* Proofs about ReviewPr for any files, contents and reviews, any number   *)
(* of runs, pushes and faults.                                             *)
(***************************************************************************)
EXTENDS ReviewPr, ApplyFixes_proofs

Content == Contents \cup {Absent}

-----------------------------------------------------------------------------
(* Facts about the operators.                                              *)

\* What a commit adds to the branch.
LEMMA CommitGrows ==
    ASSUME TypeOK, NEW p \in Paths, NEW c \in Content, Commit(p, c)
    PROVE  /\ commits' \in Seq([Paths -> Content])
           /\ Len(commits') = Len(commits) + 1
           /\ \A i \in 1 .. Len(commits) : commits'[i] = commits[i]
           /\ commits'[Len(commits) + 1] = [commits[Head_] EXCEPT ![p] = c]
<1> DEFINE tree == [commits[Head_] EXCEPT ![p] = c]
<1>1. commits \in Seq([Paths -> Content]) /\ Len(commits) \in Nat \ {0}
  BY LenProperties DEF TypeOK, Content
<1>2. commits[Head_] \in [Paths -> Content]
  BY <1>1, ElementOfSeq DEF Head_
<1>3. tree \in [Paths -> Content]
  BY <1>2
<1>4. commits' = Append(commits, tree)
  BY DEF Commit
<1> HIDE DEF tree
<1>5. QED
  <2>1. /\ commits' \in Seq([Paths -> Content])
        /\ Len(commits') = Len(commits) + 1
        /\ \A i \in 1 .. Len(commits) : commits'[i] = commits[i]
        /\ commits'[Len(commits) + 1] = tree
    BY <1>1, <1>3, <1>4, AppendProperties
  <2>2. QED
    BY <2>1 DEF tree

\* A page of a list is a list, and empty only if the list is.
LEMMA PageType ==
    ASSUME NEW S, NEW s \in Seq(S)
    PROVE  Page(s) \in Seq(S) /\ (s # << >> => Len(Page(s)) > 0)
<1> DEFINE n == IF Len(s) < PageSize THEN Len(s) ELSE PageSize
<1>1. Len(s) \in Nat /\ PageSize \in Nat \ {0} /\ n \in 0 .. Len(s)
  BY LenProperties, BoundsAssumption
<1>2. Page(s) = SubSeq(s, 1, n)
  BY DEF Page
<1>3. SubSeq(s, 1, n) \in Seq(S) /\ Len(SubSeq(s, 1, n)) = n
  BY <1>1, SubSeqProperties
<1>4. s # << >> => Len(s) > 0
  BY <1>1, EmptySeq
<1>5. QED
  BY <1>1, <1>2, <1>3, <1>4

\* The parts of what is read of a file.
LEMMA ReviewedParts ==
    ASSUME NEW x \in Reviewed
    PROVE  /\ x.content \in Contents
           /\ \E r \in ReviewOf(x.content) : r.status = x.status /\ r.findings = x.findings
  BY DEF Reviewed

\* Fixes lead from one content to another, and what is applied is a list.
LEMMA PatchType ==
    ASSUME NEW x \in Reviewed
    PROVE  /\ Patch(x.content, x.findings).lines \in Contents
           /\ Patch(x.content, x.findings).applied # << >>
                  => Len(Patch(x.content, x.findings).applied) \in Nat \ {0}
           /\ Len(Patch(x.content, x.findings).applied) \in Nat
<1> DEFINE P == Patch(x.content, x.findings)
<1>1. P.lines \in Contents /\ P.applied \in Seq(ToSet(x.findings))
  <2>1. PICK r \in ReviewOf(x.content) : r.findings = x.findings
    BY ReviewedParts
  <2>2. x.content \in Contents
    BY ReviewedParts
  <2>3. IsSeq(x.content) /\ AreFindings(x.findings) /\ P.lines \in Contents
    BY <2>1, <2>2, ReviewsAssumption
  <2>4. P \in Outcomes(x.content, x.findings)
    BY <2>3, PatchMade
  <2>5. QED
    BY <2>3, <2>4 DEF Outcomes, ToSet
<1> HIDE DEF P
<1>2. P.lines \in Contents /\ P.applied \in Seq(ToSet(x.findings))
  BY <1>1
<1>3. Len(P.applied) \in Nat /\ (P.applied # << >> => Len(P.applied) # 0)
  BY <1>2, LenProperties, EmptySeq
<1>4. QED
  BY <1>2, <1>3 DEF P

-----------------------------------------------------------------------------
(* Type correctness.                                                       *)

\* The types hold before the first run.
LEMMA TypeInit == Init => TypeOK
<1> SUFFICES ASSUME Init PROVE TypeOK
  OBVIOUS
<1>1. PICK t \in Trees : commits = <<t>>
  BY DEF Init
<1>2. commits \in Seq([Paths -> Contents \cup {Absent}]) /\ Len(commits) = 1
  <2>1. ASSUME NEW S, NEW e \in S PROVE <<e>> \in Seq(S) /\ Len(<<e>>) = 1
    OBVIOUS
  <2>2. t \in [Paths -> Contents \cup {Absent}]
    BY TreesAssumption
  <2>3. QED
    BY <1>1, <2>1, <2>2
<1>3. files \in Seq(Paths) /\ reviews \in Seq(Reviewed) /\ Len(reviews) = 0 /\ Len(files) = 0
  BY EmptySeq DEF Init
<1>4. auto \in BOOLEAN
  BY Zenon DEF Init
<1>5. /\ pc \in Steps /\ pc \notin {"list", "review", "rereview", "fix", "publish"}
      /\ head \in 1 .. Len(commits) /\ next \in Nat \ {0} /\ fixed \in Nat
      /\ edits \in Nat /\ runs \in Nat /\ faults \in Nat /\ happened \subseteq Faults
  <2>1. /\ pc = "idle" /\ head = 1 /\ next = 1 /\ fixed = 0
        /\ edits = 0 /\ runs = 0 /\ faults = 0 /\ happened = {}
    BY Zenon DEF Init
  <2>2. QED
    BY <1>2, <2>1 DEF Steps
<1>6. QED
  BY <1>2, <1>3, <1>4, <1>5 DEF TypeOK

\* A fault keeps the types of what it changes.
LEMMA FaultTypes ==
    ASSUME TypeOK, NEW k \in FaultKinds, Fault(k)
    PROVE  edits' \in Nat /\ runs' \in Nat /\ faults' \in Nat /\ happened' \subseteq Faults
  BY DEF TypeOK, Fault

\* A run that ends with an exception leaves typed variables behind.
LEMMA AbortTypes ==
    ASSUME TypeOK, Abort,
           commits' \in Seq([Paths -> Contents \cup {Absent}]), Len(commits') >= Len(commits),
           edits' \in Nat /\ runs' \in Nat /\ faults' \in Nat /\ happened' \subseteq Faults
    PROVE  TypeOK'
<1>1. Len(commits) \in Nat /\ Len(commits') \in Nat /\ 1 <= Len(commits)
  BY LenProperties DEF TypeOK
<1>2. files' \in Seq(Paths) /\ reviews' \in Seq(Reviewed) /\ Len(reviews') = 0 /\ Len(files') = 0
  BY EmptySeq DEF Abort
<1>3. head' \in 1 .. Len(commits')
  BY <1>1 DEF Abort
<1>4. /\ pc' = "raised" /\ pc' \in Steps /\ auto' \in BOOLEAN
      /\ next' \in Nat \ {0} /\ fixed' \in Nat
  <2>1. pc' = "raised" /\ auto' = FALSE /\ next' = 1 /\ fixed' = 0
    BY Zenon DEF Abort
  <2>2. auto' \in BOOLEAN
    BY <2>1, Zenon
  <2>3. pc' \in Steps /\ next' \in Nat \ {0} /\ fixed' \in Nat
    BY <2>1 DEF Steps
  <2>4. QED
    BY <2>1, <2>2, <2>3
<1>5. /\ pc' \notin {"list", "review", "rereview", "fix", "publish"}
      /\ Len(reviews') <= Len(files')
  BY <1>2 DEF Abort
<1>6. QED
  BY <1>2, <1>3, <1>4, <1>5, Zenon DEF TypeOK

\* The file to read next is one of the files.
LEMMA ReadingType ==
    ASSUME TypeOK, pc \in {"review", "rereview"}
    PROVE  Reading \in Paths /\ Read \in Contents \cup {Absent}
<1>1. Len(reviews) \in Nat /\ Len(files) \in Nat /\ Len(reviews) + 1 \in 1 .. Len(files)
  BY LenProperties DEF TypeOK
<1>2. Reading \in Paths
  BY <1>1, ElementOfSeq DEF TypeOK, Reading
<1>3. commits[head] \in [Paths -> Contents \cup {Absent}]
  BY ElementOfSeq DEF TypeOK
<1>4. QED
  BY <1>2, <1>3 DEF Read

\* While fixes are pushed, the next file and its review are at hand.
LEMMA FixingType ==
    ASSUME TypeOK, pc = "fix"
    PROVE  /\ Fixing \in Paths /\ reviews[next] \in Reviewed /\ Len(reviews) = Len(files)
           /\ Patched.lines \in Contents
           /\ Len(Patched.applied) \in Nat
           /\ Patched.applied # << >> => Len(Patched.applied) \in Nat \ {0}
<1>1. next \in 1 .. Len(files) /\ next \in 1 .. Len(reviews) /\ Len(reviews) = Len(files)
  BY LenProperties DEF TypeOK
<1>2. Fixing \in Paths /\ reviews[next] \in Reviewed
  BY <1>1, ElementOfSeq DEF TypeOK, Fixing
<1>3. QED
  BY <1>1, <1>2, PatchType DEF Patched

\* Going on to the next file keeps the types.
LEMMA AfterFixTypes ==
    ASSUME TypeOK, pc = "fix", NEW n \in Nat, AfterFix(n)
    PROVE  /\ pc' \in {"fix", "rereview", "publish"}
           /\ reviews' \in Seq(Reviewed) /\ Len(reviews') <= Len(files)
           /\ pc' = "rereview" => Len(reviews') < Len(files)
           /\ pc' \notin {"list", "review"}
           /\ pc' \in {"fix", "publish"} => Len(reviews') = Len(files)
           /\ next' \in Nat \ {0} /\ (pc' = "fix" => next' <= Len(files))
           /\ fixed' \in Nat
<1>1. Len(files) \in Nat /\ next \in 1 .. Len(files) /\ Len(reviews) = Len(files)
  BY LenProperties DEF TypeOK
<1>2. << >> \in Seq(Reviewed) /\ Len(<< >>) = 0
  BY EmptySeq
<1>3. fixed' \in Nat
  BY DEF TypeOK, AfterFix
<1>4. CASE next < Len(files)
  BY <1>1, <1>3, <1>4 DEF TypeOK, AfterFix
<1>5. CASE ~(next < Len(files)) /\ fixed' > 0
  BY <1>1, <1>2, <1>3, <1>5 DEF TypeOK, AfterFix
<1>6. CASE ~(next < Len(files)) /\ ~(fixed' > 0)
  BY <1>1, <1>3, <1>6 DEF TypeOK, AfterFix
<1>7. QED
  BY <1>4, <1>5, <1>6

\* A commit put on top leaves head where it is, and typed.
LEMMA HeadStays ==
    ASSUME TypeOK, NEW p \in Paths, NEW c \in Content, Commit(p, c)
    PROVE  /\ commits' \in Seq([Paths -> Contents \cup {Absent}])
           /\ Len(commits') >= Len(commits) /\ head \in 1 .. Len(commits')
           /\ Len(commits') \in 1 .. Len(commits')
<1>1. Len(commits) \in Nat
  BY LenProperties DEF TypeOK
<1>2. commits' \in Seq([Paths -> Content]) /\ Len(commits') = Len(commits) + 1
  BY CommitGrows, Zenon
<1>3. head \in 1 .. Len(commits)
  BY DEF TypeOK
<1>4. QED
  BY <1>1, <1>2, <1>3 DEF Content

\* A push by a developer keeps the types.
LEMMA TypeEdit ==
    ASSUME TypeOK, NEW p \in Paths, NEW c \in Contents \cup {Absent}, Edit(p, c)
    PROVE  TypeOK'
<1>1. Commit(p, c)
  BY DEF Edit
<1>2. commits' \in Seq([Paths -> Contents \cup {Absent}]) /\ head \in 1 .. Len(commits')
  BY <1>1, HeadStays DEF Content
<1>3. QED
  BY <1>2 DEF TypeOK, Edit, run, work

\* So does the start of a run ...
LEMMA TypeBegin ==
    ASSUME TypeOK, NEW isAuto \in BOOLEAN, Begin(isAuto)
    PROVE  TypeOK'
<1>1. Len(commits) \in Nat /\ 1 <= Len(commits)
  BY LenProperties DEF TypeOK
<1>2. head' \in 1 .. Len(commits) /\ faults' \in Nat /\ happened' \subseteq Faults
  BY <1>1 DEF TypeOK, Begin, Head_
<1>3. /\ files' = << >> /\ reviews' = << >> /\ next' = 1 /\ fixed' = 0
      /\ pc' = "list" /\ auto' = isAuto /\ commits' = commits /\ edits' = edits
      /\ runs' = runs + 1
  BY DEF Begin, github
<1>4. files' \in Seq(Paths) /\ reviews' \in Seq(Reviewed) /\ Len(reviews') <= Len(files')
  BY <1>3, EmptySeq
<1>5. /\ commits' \in Seq([Paths -> Contents \cup {Absent}]) /\ pc' \in Steps
      /\ head' \in 1 .. Len(commits')
      /\ next' \in Nat \ {0} /\ fixed' \in Nat /\ edits' \in Nat /\ runs' \in Nat
  BY <1>2, <1>3 DEF TypeOK, Steps
<1>6. auto' \in BOOLEAN
  BY <1>3, Zenon
<1>7. /\ pc' = "list" => reviews' = << >>
      /\ pc' \in {"list", "review"} => next' = 1
      /\ pc' \notin {"review", "rereview", "fix", "publish"}
  BY <1>3
<1>8. QED
  BY <1>2, <1>4, <1>5, <1>6, <1>7, Zenon DEF TypeOK

\* ... and the list of its files, ...
LEMMA TypeListFiles ==
    ASSUME TypeOK, ListFiles
    PROVE  TypeOK'
<1> DEFINE S == {p \in Paths : commits[Head_][p] # Absent}
<1>1. Listing[S] \in Seq(S)
  BY ListingAssumption
<1>2. files' \in Seq(S) /\ files' = Page(Listing[S])
  BY <1>1, PageType DEF ListFiles
<1>3. files' \in Seq(Paths)
  BY <1>2, SeqMonotonic
<1>4. files' # << >> => Len(files') \in Nat \ {0}
  BY <1>2, EmptySeq, LenProperties
<1>5. Len(reviews) = 0 /\ Len(files') \in Nat
  BY <1>3, LenProperties, EmptySeq DEF TypeOK, ListFiles
<1> HIDE DEF S
<1>6. /\ pc = "list" /\ pc' \in {"done", "review"}
      /\ files' = << >> => pc' = "done"
      /\ UNCHANGED <<commits, auto, head, reviews, next, fixed, edits, runs, happened, faults>>
  BY DEF ListFiles, github, work, env
<1>7. QED
  BY <1>3, <1>4, <1>5, <1>6 DEF TypeOK, Steps

\* ... reading what a file does not have, ...
LEMMA TypeMissing ==
    ASSUME TypeOK, Missing
    PROVE  TypeOK'
<1>1. Len(commits) \in Nat
  BY LenProperties DEF TypeOK
<1>2. commits' = commits /\ UNCHANGED <<edits, runs, happened, faults>> /\ Abort
  BY DEF Missing, github, env
<1>3. QED
  BY <1>1, <1>2, AbortTypes DEF TypeOK

\* ... and the review of one.
LEMMA TypeReviewCode ==
    ASSUME TypeOK, ReviewCode
    PROVE  TypeOK'
<1>1. pc \in {"review", "rereview"} /\ Read \in Contents
  BY ReadingType DEF ReviewCode
<1>2. PICK r \in ReviewOf(Read) :
          reviews' = Append(reviews, [content  |-> Read, status |-> r.status,
                                      findings |-> r.findings])
  BY DEF ReviewCode
<1>3. [content |-> Read, status |-> r.status, findings |-> r.findings] \in Reviewed
  BY <1>1, <1>2 DEF Reviewed
<1>4. reviews' \in Seq(Reviewed) /\ Len(reviews') = Len(reviews) + 1
  BY <1>2, <1>3, AppendProperties DEF TypeOK
<1>5. Len(reviews) \in Nat /\ Len(files) \in Nat /\ Len(reviews) < Len(files)
  BY <1>1, LenProperties DEF TypeOK
<1>6. UNCHANGED <<commits, auto, head, files, next, fixed, edits, runs, happened, faults>>
  BY DEF ReviewCode, github, run, env
<1>7. \/ Len(reviews') < Len(files) /\ pc' = pc
      \/ Len(reviews') = Len(files) /\ pc = "review" /\ pc' = "fix"
      \/ Len(reviews') = Len(files) /\ pc' = "publish"
  <2>1. Len(reviews') < Len(files) \/ Len(reviews') = Len(files)
    BY <1>4, <1>5
  <2>2. pc' = IF Len(reviews') < Len(files) THEN pc
              ELSE IF pc = "review" /\ auto THEN "fix" ELSE "publish"
    BY DEF ReviewCode
  <2>3. QED
    BY <2>1, <2>2, <1>4, <1>5
<1>8. CASE Len(reviews') < Len(files) /\ pc' = pc
  BY <1>1, <1>4, <1>5, <1>6, <1>8 DEF TypeOK, Steps
<1>9. CASE Len(reviews') = Len(files) /\ pc = "review" /\ pc' = "fix"
  BY <1>1, <1>4, <1>5, <1>6, <1>9 DEF TypeOK, Steps
<1>10. CASE Len(reviews') = Len(files) /\ pc' = "publish"
  BY <1>1, <1>4, <1>5, <1>6, <1>10 DEF TypeOK, Steps
<1>11. QED
  BY <1>7, <1>8, <1>9, <1>10

\* The three ways on from a file that is to be fixed: nothing to do, ...
LEMMA TypeNothingToFix ==
    ASSUME TypeOK, NothingToFix
    PROVE  TypeOK'
<1>1. pc = "fix" /\ AfterFix(0)
  BY DEF NothingToFix
<1>2. UNCHANGED <<commits, auto, head, files, edits, runs, happened, faults>>
  BY DEF NothingToFix, github, run, env
<1>3. QED
  BY <1>1, <1>2, AfterFixTypes DEF TypeOK, Steps

\* ... a push, ...
LEMMA TypePush ==
    ASSUME TypeOK, Push
    PROVE  TypeOK'
<1>1. pc = "fix" /\ Patched.applied # << >> /\ AfterFix(Len(Patched.applied))
  BY DEF Push
<1>2. Commit(Fixing, Patched.lines) /\ Fixing \in Paths /\ Patched.lines \in Content
  BY <1>1, FixingType DEF Push, CommitFixes, Content
<1>3. /\ commits' \in Seq([Paths -> Contents \cup {Absent}])
      /\ Len(commits') \in 1 .. Len(commits')
  BY <1>2, HeadStays
<1>4. /\ head' = Len(commits')
      /\ UNCHANGED <<auto, files, edits, runs, happened, faults>>
  BY DEF Push, env
<1>5. Len(Patched.applied) \in Nat
  BY <1>1, FixingType
<1>6. QED
  BY <1>1, <1>3, <1>4, <1>5, AfterFixTypes DEF TypeOK, Steps

\* ... or the end of the run, whether the push is refused or its answer lost.
LEMMA TypePushFails ==
    ASSUME TypeOK, PushRejected \/ PushUnanswered
    PROVE  TypeOK'
<1>1. Len(commits) \in Nat
  BY LenProperties DEF TypeOK
<1>2. CASE PushRejected
  <2>1. commits' = commits /\ UNCHANGED <<edits, runs, happened, faults>> /\ Abort
    BY <1>2 DEF PushRejected, github, env
  <2>2. QED
    BY <1>1, <2>1, AbortTypes DEF TypeOK
<1>3. CASE PushUnanswered
  <2>1. pc = "fix" /\ Abort /\ Fault("unanswered") /\ Commit(Fixing, Patched.lines)
    BY <1>3 DEF PushUnanswered, CommitFixes
  <2>2. Fixing \in Paths /\ Patched.lines \in Content
    BY <2>1, FixingType DEF Content
  <2>3. /\ commits' \in Seq([Paths -> Contents \cup {Absent}])
        /\ Len(commits') >= Len(commits)
    BY <2>1, <2>2, HeadStays
  <2>4. edits' \in Nat /\ runs' \in Nat /\ faults' \in Nat /\ happened' \subseteq Faults
    BY <2>1, FaultTypes DEF FaultKinds
  <2>5. QED
    BY <2>1, <2>3, <2>4, AbortTypes
<1>4. QED
  BY <1>2, <1>3

\* A step that ends the run, or leaves the branch and what was read of it alone,
\* keeps the types.
LEMMA TypeRest ==
    ASSUME TypeOK, commits' = commits,
           edits' \in Nat /\ runs' \in Nat /\ faults' \in Nat /\ happened' \subseteq Faults,
           \/ Abort
           \/ /\ pc' \in {"suggest", "suggesting", "commenting", "done"}
              /\ UNCHANGED <<auto, head, files, reviews, next, fixed>>
    PROVE  TypeOK'
<1>1. Len(commits) \in Nat
  BY LenProperties DEF TypeOK
<1>2. CASE Abort
  BY <1>1, <1>2, AbortTypes DEF TypeOK
<1>3. CASE /\ pc' \in {"suggest", "suggesting", "commenting", "done"}
           /\ UNCHANGED <<auto, head, files, reviews, next, fixed>>
  BY <1>3 DEF TypeOK, Steps
<1>4. QED
  BY <1>2, <1>3

\* Publishing and commenting keep the types, ...
LEMMA TypePublish ==
    ASSUME TypeOK, Publish \/ PublishRefused \/ PublishRaises \/ Raise
    PROVE  TypeOK'
<1>1. CASE Publish
  BY <1>1, TypeRest DEF TypeOK, Publish, github, run, work, env
<1>2. CASE PublishRefused
  BY <1>2, TypeRest, FaultTypes DEF PublishRefused, github, run, work, FaultKinds
<1>3. CASE PublishRaises
  BY <1>3, TypeRest, FaultTypes DEF PublishRaises, github, FaultKinds
<1>4. CASE Raise
  BY <1>4, TypeRest, FaultTypes DEF Raise, github, FaultKinds
<1>5. QED
  BY <1>1, <1>2, <1>3, <1>4

\* commenting included, ...
LEMMA TypeComment ==
    ASSUME TypeOK, ListSuggestions \/ ListComments \/ Post \/ PostUnanswered \/ Finish
    PROVE  TypeOK'
<1>1. CASE ListSuggestions
  BY <1>1, TypeRest DEF TypeOK, ListSuggestions, github, run, env
<1>2. CASE ListComments
  BY <1>2, TypeRest DEF TypeOK, ListComments, github, run, env
<1>3. CASE Post
  BY <1>3, TypeRest DEF TypeOK, Post, run, env
<1>4. CASE PostUnanswered
  BY <1>4, TypeRest, FaultTypes DEF PostUnanswered, run, FaultKinds
<1>5. CASE Finish
  BY <1>5, TypeRest DEF TypeOK, Finish, github, run, work, env
<1>6. QED
  BY <1>1, <1>2, <1>3, <1>4, <1>5

\* ... and so does every step.
LEMMA TypeStep == TypeOK /\ [Next]_vars => TypeOK'
<1> SUFFICES ASSUME TypeOK, [Next]_vars PROVE TypeOK'
  OBVIOUS
<1>1. ASSUME NEW p \in Paths, NEW c \in Contents \cup {Absent}, Edit(p, c) PROVE TypeOK'
  BY <1>1, TypeEdit
<1>2. ASSUME NEW isAuto \in BOOLEAN, Begin(isAuto) PROVE TypeOK'
  BY <1>2, TypeBegin
<1>3. ASSUME ListFiles \/ Missing \/ ReviewCode PROVE TypeOK'
  BY <1>3, TypeListFiles, TypeMissing, TypeReviewCode
<1>4. ASSUME NothingToFix \/ Push \/ PushRejected \/ PushUnanswered PROVE TypeOK'
  BY <1>4, TypeNothingToFix, TypePush, TypePushFails
<1>5. ASSUME UNCHANGED vars PROVE TypeOK'
  BY <1>5 DEF vars, TypeOK
<1>6. QED
  BY <1>1, <1>2, <1>3, <1>4, <1>5, TypePublish, TypeComment DEF Next

\* The types hold in every state: a run reads, fixes and posts files, contents
\* and reviews it really has.
THEOREM TypeCorrect == Spec => []TypeOK
<1>1. QED
  BY TypeInit, TypeStep, PTL DEF Spec

-----------------------------------------------------------------------------
(* What a step does with the branch, with what was reported and with what  *)
(* was pushed.                                                             *)

\* Commits are only ever put on top of what is there: by a developer or by a
\* push of the run, which is made for the very content it was read with.
LEMMA BranchStep ==
    ASSUME TypeOK, [Next]_vars
    PROVE  /\ Len(commits') >= Len(commits)
           /\ \A i \in 1 .. Len(commits) : commits'[i] = commits[i]
           /\ \/ pushes' = pushes
              \/ /\ pc = "fix" /\ commits[Head_][Fixing] = reviews[next].content
                 /\ CommitFixes
<1> DEFINE Goal == /\ Len(commits') >= Len(commits)
                   /\ \A i \in 1 .. Len(commits) : commits'[i] = commits[i]
           Same == \/ pushes' = pushes
                   \/ /\ pc = "fix" /\ commits[Head_][Fixing] = reviews[next].content
                      /\ CommitFixes
<1>1. Len(commits) \in Nat
  BY LenProperties DEF TypeOK
<1>2. ASSUME NEW p \in Paths, NEW c \in Content, Commit(p, c) PROVE Goal
  <2>1. /\ Len(commits') = Len(commits) + 1
        /\ \A i \in 1 .. Len(commits) : commits'[i] = commits[i]
    BY <1>2, CommitGrows, Zenon
  <2>2. QED
    BY <1>1, <2>1
<1>3. ASSUME commits' = commits PROVE Goal
  BY <1>1, <1>3
<1>4. ASSUME NEW p \in Paths, NEW c \in Contents \cup {Absent}, Edit(p, c)
      PROVE  Goal /\ Same
  <2>1. Commit(p, c) /\ pushes' = pushes
    BY <1>4 DEF Edit, past
  <2>2. Goal
    BY <1>2, <2>1 DEF Content
  <2>3. QED
    BY <2>1, <2>2
<1>5. ASSUME Push \/ PushUnanswered PROVE Goal /\ Same
  <2>1. pc = "fix" /\ commits[Head_][Fixing] = reviews[next].content /\ CommitFixes
    BY <1>5 DEF Push, PushUnanswered
  <2>2. Commit(Fixing, Patched.lines) /\ Fixing \in Paths /\ Patched.lines \in Content
    BY <2>1, FixingType DEF CommitFixes, Content
  <2>3. Goal
    BY <1>2, <2>2
  <2>4. QED
    BY <2>1, <2>3
<1>6. ASSUME commits' = commits, pushes' = pushes PROVE Goal /\ Same
  BY <1>3, <1>6
<1> HIDE DEF Goal, Same
<1>7. ASSUME NEW isAuto \in BOOLEAN, Begin(isAuto) PROVE Goal /\ Same
  BY <1>6, <1>7 DEF Begin, github, past
<1>8. ASSUME ListFiles \/ Missing \/ ReviewCode PROVE Goal /\ Same
  BY <1>6, <1>8 DEF ListFiles, Missing, ReviewCode, github, past
<1>9. ASSUME NothingToFix \/ PushRejected PROVE Goal /\ Same
  BY <1>6, <1>9 DEF NothingToFix, PushRejected, github, past
<1>10. ASSUME Publish \/ PublishRefused \/ PublishRaises \/ Raise PROVE Goal /\ Same
  BY <1>6, <1>10 DEF Publish, PublishRefused, PublishRaises, Raise, github, past
<1>11. ASSUME ListSuggestions \/ ListComments \/ Post \/ PostUnanswered \/ Finish
       PROVE  Goal /\ Same
  BY <1>6, <1>11 DEF ListSuggestions, ListComments, Post, PostUnanswered, Finish, github, past
<1>12. ASSUME UNCHANGED vars PROVE Goal /\ Same
  BY <1>6, <1>12 DEF vars
<1>13. Goal /\ Same
  BY <1>4, <1>5, <1>7, <1>8, <1>9, <1>10, <1>11, <1>12 DEF Next
<1>14. QED
  BY <1>13 DEF Goal, Same

\* What reaches GitHub as a result is the one the run holds when it publishes.
LEMMA ReportsStep ==
    ASSUME [Next]_vars
    PROVE  \/ reports' = reports
           \/ /\ pc = "publish"
              /\ \A r \in reports' : r \in reports \/ \E kind : r = Report(kind)
<1> DEFINE Goal == \/ reports' = reports
                   \/ /\ pc = "publish"
                      /\ \A r \in reports' : r \in reports \/ \E kind : r = Report(kind)
<1>1. ASSUME Publish \/ PublishRefused \/ PublishRaises PROVE Goal
  <2>1. pc = "publish"
    BY <1>1 DEF Publish, PublishRefused, PublishRaises
  <2>2. reports' \subseteq reports \cup {Report("comment"), Report("check")}
    BY <1>1 DEF Publish, PublishRefused, PublishRaises
  <2>3. QED
    BY <2>1, <2>2
<1>2. ASSUME NEW p \in Paths, NEW c \in Contents \cup {Absent}, Edit(p, c) PROVE Goal
  BY <1>2 DEF Edit, past
<1>3. ASSUME NEW isAuto \in BOOLEAN, Begin(isAuto) PROVE Goal
  BY <1>3 DEF Begin, past
<1>4. ASSUME ListFiles \/ Missing \/ ReviewCode PROVE Goal
  BY <1>4 DEF ListFiles, Missing, ReviewCode, past
<1>5. ASSUME NothingToFix \/ Push \/ PushRejected \/ PushUnanswered PROVE Goal
  BY <1>5 DEF NothingToFix, Push, PushRejected, PushUnanswered, past
<1>6. ASSUME ListSuggestions \/ ListComments \/ Post \/ PostUnanswered \/ Finish \/ Raise
      PROVE  Goal
  BY <1>6 DEF ListSuggestions, ListComments, Post, PostUnanswered, Finish, Raise, past
<1>7. ASSUME UNCHANGED vars PROVE Goal
  BY <1>7 DEF vars
<1> HIDE DEF Goal
<1>8. Goal
  BY <1>1, <1>2, <1>3, <1>4, <1>5, <1>6, <1>7 DEF Next
<1>9. QED
  BY <1>8 DEF Goal

-----------------------------------------------------------------------------
(* Safety.                                                                 *)

\* Nothing has been read, reported or pushed before the first run.
LEMMA SafeInit == Init => IInv
<1> SUFFICES ASSUME Init PROVE IInv
  OBVIOUS
<1>1. pc = "idle" /\ reports = {} /\ pushes = {}
  BY Zenon DEF Init
<1>2. QED
  BY <1>1, TypeInit DEF IInv, Fresh, Filed, PostedIsReviewed, Grounded

\* What the run holds is in the commit it looks at: while that commit stays what
\* it is nothing can change this ...
LEMMA FreshKept ==
    ASSUME TypeOK, Fresh, [Next]_vars,
           UNCHANGED <<head, files, reviews, fixed>>,
           \/ pc' = pc
           \/ pc' \notin {"review", "rereview", "fix", "publish"}
    PROVE  Fresh'
<1>1. head \in 1 .. Len(commits)
  BY DEF TypeOK
<1>2. commits'[head] = commits[head]
  BY <1>1, BranchStep
<1>3. QED
  BY <1>2 DEF Fresh

\* ... a review adds what it has just read there ...
LEMMA FreshReviewCode ==
    ASSUME TypeOK, Fresh, ReviewCode
    PROVE  Fresh'
<1>1. pc \in {"review", "rereview"} /\ Len(reviews) \in Nat
  BY LenProperties DEF TypeOK, ReviewCode
<1>2. PICK x \in Reviewed : reviews' = Append(reviews, x) /\ x.content = Read
  <2>1. Read \in Contents
    BY <1>1, ReadingType DEF ReviewCode
  <2>2. PICK r \in ReviewOf(Read) :
            reviews' = Append(reviews, [content  |-> Read, status |-> r.status,
                                        findings |-> r.findings])
    BY DEF ReviewCode
  <2>3. [content |-> Read, status |-> r.status, findings |-> r.findings] \in Reviewed
    BY <2>1, <2>2 DEF Reviewed
  <2>4. QED
    BY <2>2, <2>3
<1>3. /\ Len(reviews') = Len(reviews) + 1
      /\ \A i \in 1 .. Len(reviews) : reviews'[i] = reviews[i]
      /\ reviews'[Len(reviews) + 1] = x
      /\ reviews' \in Seq(Reviewed)
  BY <1>2, AppendProperties DEF TypeOK
<1>4. commits' = commits /\ head' = head /\ files' = files
  BY DEF ReviewCode, github, run
<1>5. \A i \in 1 .. Len(reviews) : commits[head][files[i]] = reviews[i].content
  <2>1. DOMAIN reviews = 1 .. Len(reviews)
    BY LenProperties DEF TypeOK
  <2>2. QED
    BY <1>1, <2>1 DEF Fresh
<1>6. commits[head][files[Len(reviews) + 1]] = x.content
  BY <1>2 DEF Read, Reading
<1>7. DOMAIN reviews' = 1 .. Len(reviews')
  BY <1>3, LenProperties
<1>8. \A i \in DOMAIN reviews' : commits'[head'][files'[i]] = reviews'[i].content
  BY <1>1, <1>3, <1>4, <1>5, <1>6, <1>7
<1>9. QED
  BY <1>8 DEF Fresh

\* ... and after a push nothing is held until all has been read again.
LEMMA FreshAfterFix ==
    ASSUME TypeOK, Fresh, [Next]_vars, pc = "fix", NEW n \in Nat, AfterFix(n), files' = files,
           head' = head \/ n # 0
    PROVE  Fresh'
<1>1. fixed \in Nat /\ fixed' = fixed + n
  BY DEF TypeOK, AfterFix
<1>2. CASE fixed' > 0
  <2>1. \/ pc' = "fix"
        \/ pc' = "rereview" /\ reviews' = << >>
    BY <1>2 DEF AfterFix
  <2>2. QED
    BY <1>2, <2>1 DEF Fresh
<1>3. CASE ~(fixed' > 0)
  <2>1. fixed = 0 /\ fixed' = 0 /\ head' = head
    BY <1>1, <1>3
  <2>2. reviews' = reviews
    BY <1>3 DEF AfterFix
  <2>3. commits'[head] = commits[head]
    BY BranchStep DEF TypeOK
  <2>4. QED
    BY <2>1, <2>2, <2>3 DEF Fresh
<1>4. QED
  BY <1>2, <1>3

\* Between a review and its publication no step makes it untrue of the commit.
LEMMA FreshStep ==
    ASSUME TypeOK, Fresh, [Next]_vars
    PROVE  Fresh'
<1>1. ASSUME NEW p \in Paths, NEW c \in Contents \cup {Absent}, Edit(p, c) PROVE Fresh'
  BY <1>1, FreshKept DEF Edit, run, work
<1>2. ASSUME NEW isAuto \in BOOLEAN, Begin(isAuto) PROVE Fresh'
  BY <1>2 DEF Begin, Fresh
<1>3. ASSUME ListFiles PROVE Fresh'
  BY <1>3 DEF TypeOK, ListFiles, work, Fresh
<1>4. ASSUME ReviewCode PROVE Fresh'
  BY <1>4, FreshReviewCode
<1>5. ASSUME NothingToFix PROVE Fresh'
  BY <1>5, FreshAfterFix DEF NothingToFix, run
<1>6. ASSUME Push PROVE Fresh'
  <2>1. pc = "fix" /\ Len(Patched.applied) \in Nat \ {0}
    BY <1>6, FixingType DEF Push
  <2>2. AfterFix(Len(Patched.applied)) /\ files' = files
    BY <1>6 DEF Push
  <2>3. QED
    BY <2>1, <2>2, FreshAfterFix
<1>7. ASSUME \/ Abort
             \/ pc' \in {"suggest", "suggesting", "commenting", "done"}
      PROVE  Fresh'
  BY <1>7 DEF Abort, Fresh
<1>8. ASSUME Missing \/ PushRejected \/ PushUnanswered PROVE Fresh'
  BY <1>7, <1>8 DEF Missing, PushRejected, PushUnanswered
<1>9. ASSUME Publish \/ PublishRefused \/ PublishRaises \/ Raise PROVE Fresh'
  BY <1>7, <1>9 DEF Publish, PublishRefused, PublishRaises, Raise
<1>10. ASSUME ListSuggestions \/ ListComments \/ Post \/ PostUnanswered \/ Finish PROVE Fresh'
  BY <1>7, <1>10 DEF ListSuggestions, ListComments, Post, PostUnanswered, Finish
<1>11. ASSUME UNCHANGED vars PROVE Fresh'
  BY <1>11 DEF vars, Fresh
<1>12. QED
  BY <1>1, <1>2, <1>3, <1>4, <1>5, <1>6, <1>8, <1>9, <1>10, <1>11 DEF Next

\* What has been reported, now or before, is a typed result on a commit there is,
LEMMA FiledStep ==
    ASSUME TypeOK, Filed, [Next]_vars
    PROVE  Filed'
<1>1. Len(commits) \in Nat /\ Len(commits') >= Len(commits) /\ Len(commits') \in Nat
  BY TypeStep, BranchStep, LenProperties DEF TypeOK
<1>2. ASSUME NEW r \in reports
      PROVE  /\ r.sha \in 1 .. Len(commits')
             /\ r.files \in Seq(Paths) /\ r.reviews \in Seq(Reviewed)
             /\ r.decision = Decide(Result(r.reviews))
  BY <1>1 DEF Filed
<1>3. ASSUME NEW kind, NEW r, r = Report(kind)
      PROVE  /\ r.sha \in 1 .. Len(commits')
             /\ r.files \in Seq(Paths) /\ r.reviews \in Seq(Reviewed)
             /\ r.decision = Decide(Result(r.reviews))
  <2>1. r.sha = head /\ r.files = files /\ r.reviews = reviews
        /\ r.decision = Decide(Result(reviews))
    BY <1>3 DEF Report
  <2>2. QED
    BY <1>1, <2>1 DEF TypeOK
<1>4. QED
  BY <1>2, <1>3, ReportsStep DEF Filed

\* and on that commit it stays true.
LEMMA PostedStep ==
    ASSUME TypeOK, Fresh, Filed, PostedIsReviewed, [Next]_vars
    PROVE  PostedIsReviewed'
<1>1. ASSUME NEW r \in reports
      PROVE  /\ Len(r.reviews) = Len(r.files)
             /\ \A i \in DOMAIN r.files : commits'[r.sha][r.files[i]] = r.reviews[i].content
  <2>1. r.sha \in 1 .. Len(commits)
    BY DEF Filed
  <2>2. commits'[r.sha] = commits[r.sha]
    BY <2>1, BranchStep
  <2>3. QED
    BY <2>2 DEF PostedIsReviewed
<1>2. ASSUME pc = "publish", NEW kind, NEW r, r = Report(kind)
      PROVE  /\ Len(r.reviews) = Len(r.files)
             /\ \A i \in DOMAIN r.files : commits'[r.sha][r.files[i]] = r.reviews[i].content
  <2>1. r.sha = head /\ r.files = files /\ r.reviews = reviews
    BY <1>2 DEF Report
  <2>2. Len(reviews) = Len(files) /\ DOMAIN files = DOMAIN reviews
    BY <1>2, LenProperties DEF TypeOK
  <2>3. commits'[head] = commits[head]
    BY BranchStep DEF TypeOK
  <2>4. \A i \in DOMAIN reviews : commits[head][files[i]] = reviews[i].content
    BY <1>2 DEF Fresh
  <2>5. QED
    BY <2>1, <2>2, <2>3, <2>4
<1>3. QED
  BY <1>1, <1>2, ReportsStep DEF PostedIsReviewed

\* A push goes on top of the content its fixes were made for, and both commits
\* stay as they are.
LEMMA GroundedStep ==
    ASSUME TypeOK, Grounded, [Next]_vars
    PROVE  Grounded'
<1> DEFINE Good(cs, u) ==
        /\ u.sha \in 2 .. Len(cs) /\ u.path \in Paths
        /\ cs[u.sha - 1][u.path] \in Contents
        /\ \E r \in ReviewOf(cs[u.sha - 1][u.path]) : r.findings = u.findings
        /\ cs[u.sha] = [cs[u.sha - 1] EXCEPT ![u.path] = Patch(@, u.findings).lines]
<1>1. Len(commits) \in Nat \ {0} /\ Len(commits') >= Len(commits) /\ Len(commits') \in Nat
  BY TypeStep, BranchStep, LenProperties DEF TypeOK
<1>2. ASSUME NEW u \in pushes PROVE Good(commits', u)
  <2>1. Good(commits, u)
    BY DEF Grounded
  <2>2. u.sha \in 1 .. Len(commits) /\ u.sha - 1 \in 1 .. Len(commits)
        /\ u.sha \in 2 .. Len(commits')
    BY <1>1, <2>1
  <2>3. commits'[u.sha] = commits[u.sha] /\ commits'[u.sha - 1] = commits[u.sha - 1]
    BY <2>2, BranchStep
  <2>4. QED
    BY <2>1, <2>2, <2>3
<1>3. ASSUME pc = "fix", commits[Head_][Fixing] = reviews[next].content, CommitFixes,
             NEW u, u = [sha |-> Len(commits'), path |-> Fixing,
                         findings |-> reviews[next].findings]
      PROVE  Good(commits', u)
  <2> DEFINE n == Len(commits)
             x == reviews[next]
  <2>1. Fixing \in Paths /\ x \in Reviewed /\ Patched.lines \in Content
    BY <1>3, FixingType DEF Content
  <2>2. Commit(Fixing, Patched.lines)
    BY <1>3 DEF CommitFixes
  <2>3. /\ Len(commits') = n + 1
        /\ \A i \in 1 .. n : commits'[i] = commits[i]
        /\ commits'[n + 1] = [commits[Head_] EXCEPT ![Fixing] = Patched.lines]
    BY <2>1, <2>2, CommitGrows, Zenon
  <2>4. u.sha = n + 1 /\ u.sha - 1 = n /\ u.path = Fixing /\ u.findings = x.findings
    BY <1>1, <1>3, <2>3
  <2>5. commits'[n] = commits[Head_] /\ commits'[n][Fixing] = x.content
    BY <1>1, <1>3, <2>3 DEF Head_
  <2>6. x.content \in Contents /\ \E r \in ReviewOf(x.content) : r.findings = x.findings
    BY <2>1, ReviewedParts
  <2>7. commits'[n + 1] =
            [commits'[n] EXCEPT ![Fixing] = Patch(commits'[n][Fixing], x.findings).lines]
    BY <2>3, <2>5 DEF Patched
  <2>8. u.sha \in 2 .. Len(commits')
    BY <1>1, <2>3, <2>4
  <2>9. QED
    BY <2>1, <2>4, <2>5, <2>6, <2>7, <2>8
<1>4. CASE pushes' = pushes
  BY <1>2, <1>4 DEF Grounded
<1>5. CASE pc = "fix" /\ commits[Head_][Fixing] = reviews[next].content /\ CommitFixes
  <2>1. pushes' = pushes \cup {[sha |-> Len(commits'), path |-> Fixing,
                                findings |-> reviews[next].findings]}
    BY <1>5 DEF CommitFixes
  <2>2. \A u \in pushes' : Good(commits', u)
    BY <1>2, <1>3, <1>5, <2>1
  <2>3. QED
    BY <2>2 DEF Grounded
<1>6. QED
  BY <1>4, <1>5, BranchStep

\* Together these are inductive ...
LEMMA SafeStep == IInv /\ [Next]_vars => IInv'
  BY TypeStep, FreshStep, FiledStep, PostedStep, GroundedStep DEF IInv

\* ... and so hold in every state.
LEMMA Safe == Spec => []IInv
<1>1. QED
  BY SafeInit, SafeStep, PTL DEF Spec

\* What is posted on a commit was found in that commit, whoever else pushes,
\* whatever the run has pushed itself and whichever step has failed.
THEOREM PostedWasReviewed == Spec => []PostedIsReviewed
<1>1. IInv => PostedIsReviewed
  BY DEF IInv
<1>2. QED
  BY <1>1, Safe, PTL

-----------------------------------------------------------------------------
(* The verdict.                                                            *)

\* _combine() and evaluate(): the combination of results is approved exactly if
\* each is complete and free of critical findings.
LEMMA ApproveMeans ==
    ASSUME NEW rs \in Seq(Reviewed)
    PROVE  Decide(Result(rs)) = "approve" <=>
               \A i \in DOMAIN rs :
                   /\ rs[i].status = "completed"
                   /\ \A k \in DOMAIN rs[i].findings : ~rs[i].findings[k].critical
<1> DEFINE statuses == {rs[i].status : i \in DOMAIN rs}
           Critical == \E i \in DOMAIN rs : \E k \in DOMAIN rs[i].findings :
                           rs[i].findings[k].critical
<1>1. \A i \in DOMAIN rs : rs[i].status \in ReviewStatus
  <2>1. ASSUME NEW i \in DOMAIN rs PROVE rs[i] \in Reviewed
    BY ElementOfSeq, LenProperties
  <2>2. ASSUME NEW x \in Reviewed PROVE x.status \in ReviewStatus
    BY ReviewedParts, ReviewsAssumption
  <2>3. QED
    BY <2>1, <2>2
<1>2. Result(rs) = [status |-> Worst(statuses), critical |-> Critical]
  BY DEF Result
<1>3. Worst(statuses) = "completed" <=> \A i \in DOMAIN rs : rs[i].status = "completed"
  BY <1>1 DEF Worst, ReviewStatus
<1> HIDE DEF statuses
<1>4. Decide(Result(rs)) = "approve" <=> Worst(statuses) = "completed" /\ ~Critical
  <2> HIDE DEF Critical
  <2>1. Result(rs).status = Worst(statuses) /\ (Result(rs).critical <=> Critical)
    BY <1>2
  <2>2. QED
    BY <2>1 DEF Decide
<1>5. QED
  BY <1>3, <1>4

\* The pull request is approved only if each of its files would have been on
\* its own.
THEOREM ApprovalNeedsAll == Spec => []ApprovalIsUnanimous
<1>1. IInv => ApprovalIsUnanimous
  <2> SUFFICES ASSUME IInv, NEW r \in reports, r.decision = "approve",
                      NEW i \in DOMAIN r.reviews
               PROVE  Decide(Result(<<r.reviews[i]>>)) = "approve"
    BY DEF ApprovalIsUnanimous
  <2> DEFINE x == r.reviews[i]
             one == <<x>>
  <2>1. r.reviews \in Seq(Reviewed) /\ Decide(Result(r.reviews)) = "approve"
    BY DEF IInv, Filed
  <2>2. x.status = "completed" /\ \A k \in DOMAIN x.findings : ~x.findings[k].critical
    BY <2>1, ApproveMeans
  <2>3. x \in Reviewed
    BY <2>1, ElementOfSeq, LenProperties
  <2> HIDE DEF x
  <2>4. one \in Seq(Reviewed) /\ DOMAIN one = {1} /\ one[1] = x
    BY <2>3
  <2> HIDE DEF one
  <2>5. Decide(Result(one)) = "approve"
    BY <2>2, <2>4, ApproveMeans
  <2>6. QED
    BY <2>5 DEF one, x
<1>2. QED
  BY <1>1, Safe, PTL

\* Every commit the run pushes differs from the one before it by the fixes of
\* its one file, line by line what they are meant to do: no change made between
\* the review and the push is lost.
THEOREM FixesApplied == Spec => []PushesApplyFixes
<1>1. IInv => PushesApplyFixes
  <2> SUFFICES ASSUME IInv, NEW u \in pushes
               PROVE  commits[u.sha] =
                          [commits[u.sha - 1] EXCEPT ![u.path] = Intended(@, u.findings)]
    BY DEF PushesApplyFixes
  <2> DEFINE before == commits[u.sha - 1]
  <2>1. /\ before[u.path] \in Contents
        /\ \E r \in ReviewOf(before[u.path]) : r.findings = u.findings
        /\ commits[u.sha] = [before EXCEPT ![u.path] = Patch(before[u.path], u.findings).lines]
    BY DEF IInv, Grounded
  <2>2. Patch(before[u.path], u.findings).lines = Intended(before[u.path], u.findings)
    <3>1. IsSeq(before[u.path]) /\ AreFindings(u.findings)
      BY <2>1, ReviewsAssumption
    <3>2. QED
      BY <3>1, PatchIsIntended
  <2>3. QED
    BY <2>1, <2>2
<1>2. QED
  BY <1>1, Safe, PTL

-----------------------------------------------------------------------------
(* The inline comments.                                                    *)

\* What one more element makes of a list.
LEMMA OneMore ==
    ASSUME NEW s, IsSeq(s), NEW r, NEW t, t = Append(s, r)
    PROVE  /\ IsSeq(t) /\ Len(s) \in Nat
           /\ DOMAIN s = 1 .. Len(s) /\ DOMAIN t = 1 .. Len(s) + 1
           /\ \A i \in DOMAIN s : t[i] = s[i]
           /\ t[Len(s) + 1] = r
<1> DEFINE S == {s[i] : i \in DOMAIN s} \cup {r}
<1>1. s \in Seq(S)
  <2>1. s \in Seq({s[i] : i \in DOMAIN s}) /\ \A i \in DOMAIN s : s[i] \in S
    BY DEF IsSeq
  <2> HIDE DEF S
  <2>2. QED
    BY <2>1
<1>2. r \in S
  OBVIOUS
<1> HIDE DEF S
<1>3. /\ t \in Seq(S)
      /\ Len(t) = Len(s) + 1
      /\ \A i \in 1 .. Len(s) : t[i] = s[i]
      /\ t[Len(s) + 1] = r
  BY <1>1, <1>2, AppendProperties
<1>4. IsSeq(t)
  BY <1>3 DEF IsSeq
<1>5. DOMAIN t = 1 .. Len(s) + 1 /\ Len(s) \in Nat /\ DOMAIN s = 1 .. Len(s)
  BY <1>1, <1>3
<1>6. QED
  BY <1>3, <1>4, <1>5

\* What a page has of a list, the list has; what fits the page is all on it.
LEMMA PageOf ==
    ASSUME NEW s, IsSeq(s)
    PROVE  /\ ToSet(Page(s)) \subseteq ToSet(s)
           /\ Len(s) <= PageSize => ToSet(s) \subseteq ToSet(Page(s))
<1> DEFINE S == {s[i] : i \in DOMAIN s}
           n == IF Len(s) < PageSize THEN Len(s) ELSE PageSize
<1>1. s \in Seq(S)
  BY DEF IsSeq
<1>2. Len(s) \in Nat /\ DOMAIN s = 1 .. Len(s) /\ PageSize \in Nat \ {0} /\ n \in 0 .. Len(s)
  BY <1>1, BoundsAssumption
<1>3. \A i \in 1 .. n : s[i] \in S
  BY <1>2
<1> HIDE DEF S
<1>4. Page(s) = SubSeq(s, 1, n)
  BY DEF Page
<1> HIDE DEF n
<1>5. /\ SubSeq(s, 1, n) \in Seq(S) /\ Len(SubSeq(s, 1, n)) = n
      /\ \A i \in 1 .. n : SubSeq(s, 1, n)[i] = s[i]
  BY <1>2, <1>3, SubSeqProperties
<1>6. DOMAIN Page(s) = 1 .. n /\ \A i \in 1 .. n : Page(s)[i] = s[i]
  BY <1>4, <1>5
<1>7. Len(s) <= PageSize => n = Len(s)
  <2>1. Len(s) \in Nat /\ PageSize \in Nat
    BY <1>2
  <2>2. QED
    BY ONLY <2>1 DEF n
<1>8. ToSet(Page(s)) = {s[i] : i \in 1 .. n}
  BY <1>6 DEF ToSet
<1>9. ToSet(s) = {s[i] : i \in 1 .. Len(s)}
  BY <1>2 DEF ToSet
<1>10. 1 .. n \subseteq 1 .. Len(s)
  BY <1>2
<1>11. QED
  BY <1>7, <1>8, <1>9, <1>10

\* A comment is posted once, or twice if the answer to the first is lost.
LEMMA Posted ==
    ASSUME IsSeq(comments), NEW c,
           comments' = Append(comments, c) \/ comments' = Append(Append(comments, c), c)
    PROVE  /\ IsSeq(comments')
           /\ \A i \in DOMAIN comments : i \in DOMAIN comments' /\ comments'[i] = comments[i]
           /\ \A i \in DOMAIN comments' :
                  comments'[i] = c \/ (i \in DOMAIN comments /\ comments'[i] = comments[i])
           /\ c \in ToSet(comments')
<1> DEFINE once == Append(comments, c)
<1>1. /\ IsSeq(once) /\ Len(comments) \in Nat
      /\ DOMAIN comments = 1 .. Len(comments) /\ DOMAIN once = 1 .. Len(comments) + 1
  BY OneMore
<1>2. \A i \in DOMAIN comments : once[i] = comments[i]
  BY OneMore
<1>3. once[Len(comments) + 1] = c
  BY OneMore
<1>4. /\ \A i \in DOMAIN comments : i \in DOMAIN once
      /\ \A i \in DOMAIN once : i \in DOMAIN comments \/ i = Len(comments) + 1
      /\ Len(comments) + 1 \in DOMAIN once
  BY <1>1
<1> HIDE DEF once
<1>5. CASE comments' = once
  BY <1>1, <1>2, <1>3, <1>4, <1>5 DEF ToSet
<1>6. CASE comments' = Append(once, c)
  <2>1. /\ IsSeq(comments') /\ Len(once) \in Nat
        /\ DOMAIN once = 1 .. Len(once) /\ DOMAIN comments' = 1 .. Len(once) + 1
    BY <1>1, <1>6, OneMore
  <2>2. \A i \in DOMAIN once : comments'[i] = once[i]
    BY <1>1, <1>6, OneMore
  <2>3. comments'[Len(once) + 1] = c
    BY <1>1, <1>6, OneMore
  <2>4. /\ \A i \in DOMAIN once : i \in DOMAIN comments'
        /\ \A i \in DOMAIN comments' : i \in DOMAIN once \/ i = Len(once) + 1
        /\ Len(once) + 1 \in DOMAIN comments'
    BY <2>1
  <2>5. c \in ToSet(comments')
    BY <2>3, <2>4 DEF ToSet
  <2>6. \A i \in DOMAIN comments' :
            comments'[i] = c \/ (i \in DOMAIN comments /\ comments'[i] = comments[i])
    BY <1>2, <1>3, <1>4, <2>2, <2>3, <2>4
  <2>7. QED
    BY <1>2, <1>4, <2>1, <2>2, <2>4, <2>5, <2>6
<1>7. QED
  BY <1>5, <1>6 DEF once

\* A fix is on offer or is not.
LEMMA EitherWay ==
    ASSUME TypeOK, NEW p \in Places
    PROVE  /\ p[1] \in DOMAIN reviews /\ p[2] \in DOMAIN reviews[p[1]].findings
           /\ reviews[p[1]] \in Reviewed
           /\ FindingAt(p).finding.has_fix \in BOOLEAN
<1>1. p[1] \in DOMAIN reviews /\ p[2] \in DOMAIN reviews[p[1]].findings
  BY DEF Places
<1>2. reviews[p[1]] \in Reviewed
  BY <1>1 DEF TypeOK
<1>3. PICK r \in ReviewOf(reviews[p[1]].content) : r.findings = reviews[p[1]].findings
  BY <1>2, ReviewedParts
<1>4. reviews[p[1]].content \in Contents
  BY <1>2, ReviewedParts
<1>5. r.findings[p[2]].has_fix \in BOOLEAN
  BY <1>1, <1>3, <1>4, ReviewsAssumption DEF AreFindings
<1>6. QED
  BY <1>1, <1>2, <1>3, <1>5 DEF FindingAt

\* The branch only grows.
LEMMA BranchKept ==
    ASSUME TypeOK, [Next]_vars
    PROVE  /\ Len(commits) \in Nat /\ Len(commits') \in Nat
           /\ 1 .. Len(commits) \subseteq 1 .. Len(commits')
           /\ \A i \in 1 .. Len(commits) : commits'[i] = commits[i]
           /\ \A n \in Nat : n .. Len(commits) \subseteq n .. Len(commits')
<1>1. TypeOK'
  BY TypeStep
<1>2. Len(commits) \in Nat /\ Len(commits') \in Nat
  BY <1>1, LenProperties DEF TypeOK
<1>3. Len(commits') >= Len(commits) /\ \A i \in 1 .. Len(commits) : commits'[i] = commits[i]
  BY <1>2, BranchStep
<1>4. QED
  BY <1>2, <1>3

\* What has been dealt with remains so while the run goes on about it.
LEMMA DealtWithKept ==
    ASSUME TypeOK, Dated, [Next]_vars,
           UNCHANGED <<head, files, reviews, runs>>,
           \A i \in DOMAIN comments : i \in DOMAIN comments' /\ comments'[i] = comments[i],
           NEW p, DealtWith(p)
    PROVE  DealtWith(p)'
<1>1. /\ Places' = Places /\ \A q : FindingAt(q)' = FindingAt(q)
      /\ \A f : Comment(f)' = Comment(f) /\ Anchor(f)' = Anchor(f)
  BY DEF Places, FindingAt, Comment, Anchor
<1>2. \A q : Own(q) => Own(q)'
  <2>1. ToSet(comments) \subseteq ToSet(comments')
    BY DEF ToSet
  <2>2. QED
    BY <1>1, <2>1 DEF Own
<1>3. Sidestepped(p) => Sidestepped(p)'
  BY <1>1, <1>2 DEF Sidestepped
<1>4. HeardBefore(p) => HeardBefore(p)'
  <2>1. SUFFICES ASSUME HeardBefore(p) PROVE HeardBefore(p)'
    OBVIOUS
  <2>2. PICK i \in DOMAIN comments :
            /\ comments[i].run < runs
            /\ Anchor(comments[i]) = Anchor(FindingAt(p))
            /\ \E t \in head .. Len(commits) :
                   commits[t][comments[i].path] = commits[comments[i].sha][comments[i].path]
    BY <2>1 DEF HeardBefore
  <2>3. PICK t \in head .. Len(commits) :
            commits[t][comments[i].path] = commits[comments[i].sha][comments[i].path]
    BY <2>2
  <2>4. head \in 1 .. Len(commits) /\ comments[i].sha \in 1 .. Len(commits)
    BY DEF TypeOK, Dated
  <2>5. t \in 1 .. Len(commits) /\ t \in head' .. Len(commits')
    BY <2>3, <2>4, BranchKept
  <2>6. commits'[t] = commits[t] /\ commits'[comments[i].sha] = commits[comments[i].sha]
    BY <2>4, <2>5, BranchKept
  <2>7. i \in DOMAIN comments' /\ comments'[i] = comments[i]
    OBVIOUS
  <2>8. Anchor(comments[i])' = Anchor(FindingAt(p))'
    BY <1>1, <2>2, <2>7
  <2>9. QED
    BY <2>2, <2>3, <2>5, <2>6, <2>7, <2>8 DEF HeardBefore
<1>5. QED
  BY <1>2, <1>3, <1>4 DEF DealtWith

\* A comment remains the one of its commit and of its run.
LEMMA DatedKept ==
    ASSUME TypeOK, Dated, [Next]_vars, comments' = comments,
           runs' = runs \/ runs' = runs + 1
    PROVE  /\ IsSeq(comments')
           /\ \A i \in DOMAIN comments' : /\ comments'[i].sha \in 1 .. Len(commits')
                                          /\ comments'[i].run \in 0 .. runs'
<1>1. runs \in Nat
  BY DEF TypeOK
<1>2. 0 .. runs \subseteq 0 .. runs'
  BY <1>1
<1>3. QED
  BY <1>2, BranchKept DEF Dated

BeforePosting == {"list", "review", "fix", "rereview", "publish", "suggest"}

LEMMA DatedElsewhere ==
    ASSUME TypeOK, Dated, [Next]_vars, comments' = comments, runs' = runs,
           pc' # "suggesting", pc' \in BeforePosting => pc \in BeforePosting
    PROVE  Dated'
<1>1. pc' \in BeforePosting => \A i \in DOMAIN comments' : comments'[i].run < runs'
  BY DEF Dated, BeforePosting
<1>2. QED
  BY <1>1, DatedKept DEF Dated, BeforePosting

\* The steps that neither begin a run nor are about comments.
LEMMA DatedRest ==
    ASSUME TypeOK, Dated, [Next]_vars,
           \/ ListFiles \/ Missing \/ ReviewCode
           \/ NothingToFix \/ Push \/ PushRejected \/ PushUnanswered
           \/ Publish \/ PublishRefused \/ PublishRaises \/ Raise \/ ListComments \/ Finish
    PROVE  Dated'
<1>1. CASE ListFiles \/ ReviewCode
  BY <1>1, DatedElsewhere DEF ListFiles, ReviewCode, github, env, BeforePosting
<1>2. CASE Missing \/ PushRejected \/ PushUnanswered \/ PublishRaises \/ Raise
  <2>1. comments' = comments /\ runs' = runs /\ Abort
    BY <1>2 DEF Missing, PushRejected, PushUnanswered, PublishRaises, Raise, Fault, github, env
  <2>2. QED
    BY <2>1, DatedElsewhere DEF Abort, BeforePosting
<1>3. CASE NothingToFix \/ Push
  <2>1. comments' = comments /\ runs' = runs /\ pc = "fix"
    BY <1>3 DEF NothingToFix, Push, github, env
  <2>2. PICK n \in Nat : AfterFix(n)
    <3>1. Len(Patched.applied) \in Nat
      BY <2>1, FixingType
    <3>2. QED
      BY <1>3, <3>1 DEF NothingToFix, Push
  <2>3. pc' \in {"fix", "rereview", "publish"}
    BY <2>1, <2>2, AfterFixTypes
  <2>4. QED
    BY <2>1, <2>3, DatedElsewhere DEF BeforePosting
<1>4. CASE Publish \/ PublishRefused
  <2>1. comments' = comments /\ runs' = runs /\ pc = "publish" /\ pc' = "suggest"
    BY <1>4 DEF Publish, PublishRefused, Fault, github, env
  <2>2. QED
    BY <2>1, DatedElsewhere DEF BeforePosting
<1>5. CASE ListComments \/ Finish
  BY <1>5, DatedElsewhere DEF ListComments, Finish, github, env, BeforePosting
<1>6. QED
  BY <1>1, <1>2, <1>3, <1>4, <1>5

\* What the run posts in its first pass is about findings with a fix.
LEMMA DatedPost ==
    ASSUME TypeOK, Attended, [Next]_vars, Post \/ PostUnanswered
    PROVE  Dated'
<1>1. PICK p \in pending :
          /\ pending' = pending \ {p}
          /\ LET c == Comment(FindingAt(p))
             IN  comments' = Append(comments, c) \/ comments' = Append(Append(comments, c), c)
  BY DEF Post, PostUnanswered
<1>2. UNCHANGED <<commits, head, files, reviews, runs>> /\ pc' = pc /\ pc \in {"suggesting", "commenting"}
  BY DEF Post, PostUnanswered, run, env, Fault
<1> DEFINE new == Comment(FindingAt(p))
<1>3. /\ Places' = Places /\ \A q : FindingAt(q)' = FindingAt(q)
      /\ \A f : Comment(f)' = Comment(f)
  BY <1>2 DEF Places, FindingAt, Comment
<1>4. new.sha \in 1 .. Len(commits) /\ new.run \in 0 .. runs
  BY DEF Comment, TypeOK
<1>5. p \in Places /\ (pc = "suggesting" => FindingAt(p).finding.has_fix)
  BY <1>1, <1>2 DEF Attended
<1>6. comments' = Append(comments, new) \/ comments' = Append(Append(comments, new), new)
  BY <1>1
<1>7. pc = "suggesting" => \E q \in Places : FindingAt(q).finding.has_fix /\ new = Comment(FindingAt(q))
  BY <1>5
<1> HIDE DEF new
<1>8. IsSeq(comments')
      /\ \A i \in DOMAIN comments' :
             comments'[i] = new \/ (i \in DOMAIN comments /\ comments'[i] = comments[i])
  BY <1>6, Posted DEF Attended, Dated
<1>9. \A i \in DOMAIN comments' : comments'[i].sha \in 1 .. Len(commits) /\ comments'[i].run \in 0 .. runs
  BY <1>4, <1>8 DEF Attended, Dated
<1>10. pc = "suggesting" =>
           \A i \in DOMAIN comments' : comments'[i].run = runs =>
               \E q \in Places : FindingAt(q).finding.has_fix /\ comments'[i] = Comment(FindingAt(q))
  BY <1>7, <1>8 DEF Attended, Dated
<1>11. QED
  BY <1>2, <1>3, <1>8, <1>9, <1>10 DEF Dated

LEMMA DatedStep ==
    ASSUME TypeOK, Attended, [Next]_vars
    PROVE  Dated'
<1>1. Dated
  BY DEF Attended
<1>2. ASSUME UNCHANGED <<comments, pc, head, files, reviews, runs>> PROVE Dated'
  <2>1. /\ Places' = Places /\ \A q : FindingAt(q)' = FindingAt(q)
        /\ \A f : Comment(f)' = Comment(f)
    BY <1>2 DEF Places, FindingAt, Comment
  <2>2. \A i \in DOMAIN comments' : comments'[i].sha \in 1 .. Len(commits') /\ comments'[i].run \in 0 .. runs'
    BY <1>1, <1>2, DatedKept
  <2>3. QED
    BY <1>1, <1>2, <2>1, <2>2 DEF Dated
<1>3. ASSUME NEW p \in Paths, NEW c \in Contents \cup {Absent}, Edit(p, c) PROVE Dated'
  BY <1>2, <1>3 DEF Edit, run, work
<1>4. ASSUME NEW isAuto \in BOOLEAN, Begin(isAuto) PROVE Dated'
  <2>1. comments' = comments /\ runs' = runs + 1 /\ pc' = "list"
    BY <1>4 DEF Begin, github
  <2>2. runs \in Nat
    BY DEF TypeOK
  <2>3. \A i \in DOMAIN comments : comments[i].run < runs + 1
    BY <1>1, <2>2 DEF Dated
  <2>4. QED
    BY <1>1, <2>1, <2>3, DatedKept DEF Dated
<1>5. CASE ListSuggestions
  <2>1. comments' = comments /\ runs' = runs /\ pc = "suggest" /\ pc' = "suggesting"
    BY <1>5 DEF ListSuggestions, github, env
  <2>2. runs \in Nat
    BY DEF TypeOK
  <2>3. \A i \in DOMAIN comments : comments[i].run # runs
    BY <1>1, <2>1, <2>2 DEF Dated
  <2>4. QED
    BY <1>1, <2>1, <2>3, DatedKept DEF Dated
<1>6. CASE Post \/ PostUnanswered
  BY <1>6, DatedPost
<1>7. CASE UNCHANGED vars
  BY <1>2, <1>7 DEF vars
<1>8. QED
  BY <1>1, <1>3, <1>4, <1>5, <1>6, <1>7, DatedRest, Zenon DEF Next

\* Between the passes nothing waits.
LEMMA AttendedElsewhere ==
    ASSUME Dated', pending' = {},
           pc' \notin {"suggesting", "commenting", "done"} \/ Places' = {}
    PROVE  Attended'
<1>1. pending' \subseteq Places' /\ \A p \in pending' : FALSE
  OBVIOUS
<1>2. pc' \in {"suggesting", "commenting", "done"} => Places' = {}
  OBVIOUS
<1>3. QED
  BY <1>1, <1>2 DEF Attended

\* A step of the run that is not about comments leaves none waiting.
LEMMA AttendedRest ==
    ASSUME TypeOK, Attended, Dated',
           \/ \E isAuto \in BOOLEAN : Begin(isAuto)
           \/ ListFiles \/ Missing \/ ReviewCode
           \/ NothingToFix \/ Push \/ PushRejected \/ PushUnanswered
           \/ Publish \/ PublishRefused \/ PublishRaises \/ Raise
    PROVE  Attended'
<1>1. ASSUME NEW isAuto \in BOOLEAN, Begin(isAuto) PROVE Attended'
  BY <1>1, AttendedElsewhere DEF Begin
<1>2. CASE ListFiles
  <2>1. pending' = pending /\ reviews' = reviews /\ pc = "list"
    BY <1>2 DEF ListFiles, work
  <2>2. pending' = {} /\ reviews' = << >>
    BY <2>1 DEF Attended, TypeOK
  <2>3. Places' = {}
    BY <2>2 DEF Places
  <2>4. QED
    BY <2>2, <2>3, AttendedElsewhere
<1>3. CASE Missing \/ PushRejected \/ PushUnanswered \/ PublishRaises \/ Raise
  <2>1. Abort
    BY <1>3 DEF Missing, PushRejected, PushUnanswered, PublishRaises, Raise
  <2>2. pending' = {} /\ pc' = "raised"
    BY <2>1 DEF Abort
  <2>3. QED
    BY <2>2, AttendedElsewhere
<1>4. CASE ReviewCode
  <2>1. /\ pending' = pending
        /\ pc \in {"review", "rereview"} /\ pc' \in {"review", "rereview", "fix", "publish"}
    BY <1>4 DEF ReviewCode
  <2>2. QED
    BY <2>1, AttendedElsewhere DEF Attended
<1>5. CASE NothingToFix \/ Push
  <2>1. pending' = pending /\ pc = "fix"
    BY <1>5 DEF NothingToFix, Push
  <2>2. PICK n \in Nat : AfterFix(n)
    <3>1. Len(Patched.applied) \in Nat
      BY <2>1, FixingType
    <3>2. QED
      BY <1>5, <3>1 DEF NothingToFix, Push
  <2>3. pc' \in {"fix", "rereview", "publish"}
    BY <2>1, <2>2, AfterFixTypes
  <2>4. QED
    BY <2>1, <2>3, AttendedElsewhere DEF Attended
<1>6. CASE Publish \/ PublishRefused
  <2>1. pending' = pending /\ pc = "publish" /\ pc' = "suggest"
    BY <1>6 DEF Publish, PublishRefused, work
  <2>2. QED
    BY <2>1, AttendedElsewhere DEF Attended
<1>7. QED
  BY <1>1, <1>2, <1>3, <1>4, <1>5, <1>6

\* A finding for whose line GitHub lists a comment: an earlier run made it, or
\* this one did, on a fix.
LEMMA ExistingDealtWith ==
    ASSUME TypeOK, Dated, NEW p \in Places, Anchor(FindingAt(p)) \in Existing,
           pc = "suggest" \/ (pc = "suggesting" /\ ~FindingAt(p).finding.has_fix)
    PROVE  DealtWith(p)
<1>1. PICK c \in ToSet(Page(comments)) :
          Shown(c) /\ Anchor(FindingAt(p)) = [path |-> c.path, line |-> End(c.finding)]
  BY DEF Existing
<1>2. PICK i \in DOMAIN comments : c = comments[i]
  BY <1>1, PageOf DEF ToSet, Dated
<1>3. Anchor(c) = Anchor(FindingAt(p))
  BY <1>1 DEF Anchor
<1>4. runs \in Nat /\ head \in 1 .. Len(commits) /\ Len(commits) \in Nat /\ c.run \in 0 .. runs
  BY <1>2, LenProperties DEF TypeOK, Dated
<1>5. CASE c.run < runs
  <2>1. Len(commits) \in head .. Len(commits)
    BY <1>4
  <2>2. commits[Len(commits)][c.path] = commits[c.sha][c.path]
    BY <1>1 DEF Shown, Head_
  <2>3. QED
    BY <1>2, <1>3, <1>5, <2>1, <2>2 DEF HeardBefore, DealtWith
<1>6. CASE c.run = runs
  <2>1. pc = "suggesting" /\ ~FindingAt(p).finding.has_fix
    BY <1>2, <1>4, <1>6 DEF Dated
  <2>2. PICK q \in Places : FindingAt(q).finding.has_fix /\ c = Comment(FindingAt(q))
    BY <1>2, <1>6, <2>1 DEF Dated
  <2>3. Anchor(FindingAt(q)) = Anchor(FindingAt(p))
    BY <1>3, <2>2 DEF Anchor, Comment
  <2>4. Own(q)
    BY <1>2, <2>2 DEF Own, ToSet
  <2>5. QED
    BY <2>1, <2>2, <2>3, <2>4 DEF Sidestepped, DealtWith
<1>7. QED
  BY <1>4, <1>5, <1>6

\* A pass begins with all the findings it is for whose line has no comment.
LEMMA AttendedList ==
    ASSUME TypeOK, Attended, Dated', [Next]_vars, ListSuggestions \/ ListComments
    PROVE  Attended'
<1>1. UNCHANGED <<commits, comments, head, files, reviews, runs>>
  BY DEF ListSuggestions, ListComments, github, run, env
<1>2. /\ Places' = Places /\ \A p : FindingAt(p)' = FindingAt(p)
      /\ \A p : DealtWith(p) => DealtWith(p)'
  BY <1>1, DealtWithKept DEF Places, FindingAt, Attended
<1>3. ASSUME NEW hasFix, NEW p \in Places \ Uncommented(hasFix),
             FindingAt(p).finding.has_fix = hasFix,
             pc = "suggest" \/ (pc = "suggesting" /\ hasFix = FALSE)
      PROVE  DealtWith(p)
  <2>1. Anchor(FindingAt(p)) \in Existing
    BY <1>3 DEF Uncommented
  <2>2. QED
    BY <1>3, <2>1, ExistingDealtWith DEF Attended
<1>4. \A hasFix : \A p \in Uncommented(hasFix) : p \in Places /\ FindingAt(p).finding.has_fix = hasFix
  BY DEF Uncommented
<1>5. pending' \subseteq Places'
  BY <1>2, <1>4 DEF ListSuggestions, ListComments
<1>6. CASE ListSuggestions
  <2>1. pc = "suggest" /\ pc' = "suggesting" /\ pending' = Uncommented(TRUE)
    BY <1>6 DEF ListSuggestions
  <2>2. ASSUME NEW p \in Places \ pending', FindingAt(p).finding.has_fix
        PROVE  DealtWith(p)
    <3>1. FindingAt(p).finding.has_fix = TRUE
      BY <2>2, EitherWay
    <3>2. QED
      BY <1>3, <2>1, <2>2, <3>1
  <2>3. \A p \in pending' : FindingAt(p)'.finding.has_fix = TRUE
    BY <1>2, <1>4, <2>1
  <2>4. QED
    BY <1>2, <1>5, <2>1, <2>2, <2>3 DEF Attended
<1>7. CASE ListComments
  <2>1. pc = "suggesting" /\ pending = {} /\ pc' = "commenting" /\ pending' = Uncommented(FALSE)
    BY <1>7 DEF ListComments
  <2>2. ASSUME NEW p \in Places \ pending' PROVE DealtWith(p)
    <3>1. CASE FindingAt(p).finding.has_fix = FALSE
      BY <1>3, <2>1, <2>2, <3>1
    <3>2. CASE FindingAt(p).finding.has_fix = TRUE
      BY <2>1, <2>2, <3>2 DEF Attended
    <3>3. QED
      BY <2>2, <3>1, <3>2, EitherWay
  <2>3. \A p \in pending' : FindingAt(p)'.finding.has_fix = FALSE
    BY <1>2, <1>4, <2>1
  <2>4. QED
    BY <1>2, <1>5, <2>1, <2>2, <2>3 DEF Attended
<1>8. QED
  BY <1>6, <1>7

\* A finding whose turn it is has its comment then.
LEMMA AttendedPost ==
    ASSUME TypeOK, Attended, Dated', [Next]_vars, Post \/ PostUnanswered
    PROVE  Attended'
<1>1. PICK p \in pending :
          /\ pending' = pending \ {p}
          /\ LET c == Comment(FindingAt(p))
             IN  comments' = Append(comments, c) \/ comments' = Append(Append(comments, c), c)
  BY DEF Post, PostUnanswered
<1>2. UNCHANGED <<head, files, reviews, runs>> /\ pc' = pc /\ pc \in {"suggesting", "commenting"}
  BY DEF Post, PostUnanswered, run, env, Fault
<1>3. /\ Places' = Places /\ \A q : FindingAt(q)' = FindingAt(q)
      /\ \A f : Comment(f)' = Comment(f)
  BY <1>2 DEF Places, FindingAt, Comment
<1>4. /\ \A i \in DOMAIN comments : i \in DOMAIN comments' /\ comments'[i] = comments[i]
      /\ Comment(FindingAt(p)) \in ToSet(comments')
  BY <1>1, Posted DEF Attended, Dated
<1>5. \A q : DealtWith(q) => DealtWith(q)'
  BY <1>2, <1>4, DealtWithKept DEF Attended
<1>6. DealtWith(p)'
  BY <1>3, <1>4 DEF DealtWith, Own
<1>7. \A q \in Places \ pending' : q = p \/ q \in Places \ pending
  BY <1>1
<1>8. /\ pending' \subseteq Places'
      /\ \A q \in pending' : FindingAt(q)'.finding.has_fix = (pc' = "suggesting")
  BY <1>1, <1>2, <1>3 DEF Attended
<1>9. ASSUME NEW q \in Places' \ pending', FindingAt(q)'.finding.has_fix \/ pc' # "suggesting"
      PROVE  DealtWith(q)'
  BY <1>2, <1>3, <1>5, <1>6, <1>7, <1>9 DEF Attended
<1>10. QED
  BY <1>2, <1>8, <1>9 DEF Attended

\* Whatever happens, a finding waits for its turn or has been dealt with.
LEMMA AttendedStep == TypeOK /\ Attended /\ [Next]_vars => Attended'
<1> SUFFICES ASSUME TypeOK, Attended, [Next]_vars PROVE Attended'
  OBVIOUS
<1>1. Dated /\ Dated'
  BY DatedStep DEF Attended
<1>2. ASSUME UNCHANGED <<comments, head, files, reviews, runs, pending>>,
             pc' = pc \/ (pc = "commenting" /\ pending = {} /\ pc' = "done")
      PROVE  Attended'
  <2>1. /\ Places' = Places /\ \A p : FindingAt(p)' = FindingAt(p)
        /\ \A p : DealtWith(p) => DealtWith(p)'
    BY <1>1, <1>2, DealtWithKept DEF Places, FindingAt
  <2>2. pending' \subseteq Places' /\ (pc' \notin {"suggesting", "commenting"} => pending' = {})
    BY <1>2, <2>1 DEF Attended
  <2>3. pc' \in {"suggesting", "commenting"} =>
            \A p \in pending' : FindingAt(p)'.finding.has_fix = (pc' = "suggesting")
    BY <1>2, <2>1 DEF Attended
  <2>4. ASSUME pc' \in {"suggesting", "commenting", "done"}, NEW p \in Places' \ pending',
               FindingAt(p)'.finding.has_fix \/ pc' # "suggesting"
        PROVE  DealtWith(p)'
    BY <1>2, <2>1, <2>4 DEF Attended
  <2>5. QED
    BY <1>1, <2>2, <2>3, <2>4 DEF Attended
<1>3. ASSUME NEW p \in Paths, NEW c \in Contents \cup {Absent}, Edit(p, c) PROVE Attended'
  BY <1>2, <1>3 DEF Edit, run, work
<1>4. CASE ListSuggestions \/ ListComments
  BY <1>1, <1>4, AttendedList
<1>5. CASE Post \/ PostUnanswered
  BY <1>1, <1>5, AttendedPost
<1>6. CASE Finish
  BY <1>2, <1>6 DEF Finish, github, run, work, env
<1>7. CASE UNCHANGED vars
  BY <1>2, <1>7 DEF vars
<1>8. QED
  BY <1>1, <1>3, <1>4, <1>5, <1>6, <1>7, AttendedRest, Zenon DEF Next

\* Nothing waits before the first run.
LEMMA AttendedInit == Init => Attended
<1> SUFFICES ASSUME Init PROVE Attended
  OBVIOUS
<1>1. comments = << >> /\ pc = "idle" /\ pending = {}
  BY Zenon DEF Init
<1>2. IsSeq(comments)
  BY <1>1 DEF IsSeq
<1>3. QED
  BY <1>1, <1>2 DEF Attended, Dated

\* A run that goes through has commented on each of its findings, whatever others
\* push in the meantime and whichever answers are lost: the two passes skip only
\* what an earlier run's comment shows, or what shares its last line with a fix
\* that this run has offered.
THEOREM NoFindingForgotten == Spec => []EachFindingCommented
<1>1. Attended => EachFindingCommented
  BY DEF Attended, EachFindingCommented
<1>2. QED
  BY <1>1, TypeInit, TypeStep, AttendedInit, AttendedStep, PTL DEF Spec

-----------------------------------------------------------------------------
(* Nothing is said twice.                                                  *)

\* Pushes and faults are counted, and only a pass adds comments.
LEMMA PastKept ==
    ASSUME [Next]_vars
    PROVE  /\ edits' = edits \/ edits' = edits + 1
           /\ happened \subseteq happened'
           /\ comments' = comments \/ Post \/ PostUnanswered
<1> DEFINE Goal == /\ edits' = edits \/ edits' = edits + 1
                   /\ happened \subseteq happened'
                   /\ comments' = comments \/ Post \/ PostUnanswered
<1> SUFFICES Goal
  OBVIOUS
<1>1. ASSUME NEW p \in Paths, NEW c \in Contents \cup {Absent}, Edit(p, c) PROVE Goal
  BY <1>1 DEF Edit
<1>2. ASSUME NEW isAuto \in BOOLEAN, Begin(isAuto) PROVE Goal
  BY <1>2 DEF Begin, github
<1>3. CASE ListFiles \/ Missing \/ ReviewCode \/ NothingToFix \/ Push \/ PushRejected
  BY <1>3 DEF ListFiles, Missing, ReviewCode, NothingToFix, Push, PushRejected, github, env
<1>4. CASE Publish \/ ListSuggestions \/ ListComments \/ Finish
  BY <1>4 DEF Publish, ListSuggestions, ListComments, Finish, github, env
<1>5. CASE PushUnanswered \/ PublishRefused \/ PublishRaises \/ Raise
  BY <1>5 DEF PushUnanswered, PublishRefused, PublishRaises, Raise, Fault, github
<1>6. CASE Post
  BY <1>6 DEF Post, env
<1>7. CASE PostUnanswered
  BY <1>7 DEF PostUnanswered, Fault
<1>8. CASE UNCHANGED vars
  BY <1>8 DEF vars
<1> HIDE DEF Goal
<1>9. QED
  BY <1>1, <1>2, <1>3, <1>4, <1>5, <1>6, <1>7, <1>8, Zenon DEF Next

\* The listing of a commit has each file once, and so has a page of it.
LEMMA FilesDiffer ==
    ASSUME TypeOK, Unsaid, [Next]_vars
    PROVE  \A i, j \in DOMAIN files' : files'[i] = files'[j] => i = j
<1> DEFINE Goal == \A i, j \in DOMAIN files' : files'[i] = files'[j] => i = j
<1> SUFFICES Goal
  OBVIOUS
<1>1. ASSUME files' = files PROVE Goal
  BY <1>1 DEF Unsaid
<1>2. ASSUME files' = << >> PROVE Goal
  BY <1>2
<1>3. CASE ListFiles
  <2> DEFINE S == {p \in Paths : commits[Head_][p] # Absent}
             L == Listing[S]
             n == IF Len(L) < PageSize THEN Len(L) ELSE PageSize
  <2>1. L \in Seq(S) /\ \A i, j \in DOMAIN L : L[i] = L[j] => i = j
    BY ListingAssumption
  <2>2. files' = Page(L)
    BY <1>3 DEF ListFiles
  <2> HIDE DEF S, L
  <2>3. Len(L) \in Nat /\ DOMAIN L = 1 .. Len(L) /\ PageSize \in Nat \ {0} /\ n \in 0 .. Len(L)
    BY <2>1, BoundsAssumption
  <2>4. files' = SubSeq(L, 1, n)
    BY <2>2 DEF Page
  <2> HIDE DEF n
  <2>5. \A i \in 1 .. n : L[i] \in S
    BY <2>1, <2>3
  <2>6. /\ files' \in Seq(S) /\ Len(files') = n
        /\ \A i \in 1 .. n : files'[i] = L[i]
    BY <2>3, <2>4, <2>5, SubSeqProperties
  <2>7. DOMAIN files' = 1 .. n /\ 1 .. n \subseteq DOMAIN L
    BY <2>3, <2>6
  <2>8. QED
    BY <2>1, <2>6, <2>7
<1> HIDE DEF Goal
<1>4. ASSUME NEW p \in Paths, NEW c \in Contents \cup {Absent}, Edit(p, c) PROVE Goal
  BY <1>1, <1>4 DEF Edit, run
<1>5. ASSUME NEW isAuto \in BOOLEAN, Begin(isAuto) PROVE Goal
  BY <1>2, <1>5 DEF Begin
<1>6. CASE Missing \/ PushRejected \/ PushUnanswered \/ PublishRaises \/ Raise
  BY <1>2, <1>6 DEF Missing, PushRejected, PushUnanswered, PublishRaises, Raise, Abort
<1>7. CASE ReviewCode \/ NothingToFix \/ Push \/ Publish \/ PublishRefused
  BY <1>1, <1>7 DEF ReviewCode, NothingToFix, Push, Publish, PublishRefused, run
<1>8. CASE ListSuggestions \/ ListComments \/ Post \/ PostUnanswered \/ Finish
  BY <1>1, <1>8 DEF ListSuggestions, ListComments, Post, PostUnanswered, Finish, run
<1>9. CASE UNCHANGED vars
  BY <1>1, <1>9 DEF vars
<1>10. QED
  BY <1>3, <1>4, <1>5, <1>6, <1>7, <1>8, <1>9, Zenon DEF Next

\* The list of the comments only grows.
LEMMA CalmBefore ==
    ASSUME TypeOK, Attended, [Next]_vars, Calm'
    PROVE  /\ Calm
           /\ comments' # comments => Post
           /\ \A p \in Paths, c \in Contents \cup {Absent} : ~Edit(p, c)
<1>1. edits' = 0 /\ "stale" \notin happened' /\ "unanswered" \notin happened'
      /\ Len(comments') <= PageSize
  BY DEF Calm
<1>2. edits = 0 /\ happened \cap {"stale", "unanswered"} = {}
  BY <1>1, PastKept DEF TypeOK
<1>3. ~PostUnanswered
  BY <1>1 DEF PostUnanswered, Fault
<1>4. \A p \in Paths, c \in Contents \cup {Absent} : ~Edit(p, c)
  BY <1>1, <1>2 DEF Edit
<1>5. Len(comments) <= PageSize
  <2>1. CASE comments' = comments
    BY <1>1, <2>1
  <2>2. CASE Post
    <3>1. PICK c : comments' = Append(comments, c)
      BY <2>2 DEF Post
    <3>2. Len(comments) \in Nat /\ Len(comments') = Len(comments) + 1
      BY <3>1, OneMore DEF Attended, Dated, IsSeq
    <3>3. QED
      BY <1>1, <3>2, BoundsAssumption
  <2>3. QED
    BY <1>3, <2>1, <2>2, PastKept
<1>6. QED
  BY <1>2, <1>3, <1>4, <1>5, PastKept DEF Calm

\* Nobody but the run pushes and every answer is true: it knows the latest commit.
LEMMA HeadKnown ==
    ASSUME TypeOK, Attended, Unsaid, [Next]_vars, Calm', pc' # "raised"
    PROVE  head' = Len(commits')
<1> DEFINE Goal == head' = Len(commits')
<1> SUFFICES Goal
  OBVIOUS
<1>1. pc # "raised" => head = Len(commits)
  BY CalmBefore DEF Unsaid, Head_
<1>2. ASSUME pc # "raised", head' = head, commits' = commits PROVE Goal
  BY <1>1, <1>2
<1> HIDE DEF Goal
<1>3. \A p \in Paths, c \in Contents \cup {Absent} : ~Edit(p, c)
  BY CalmBefore
<1>4. ASSUME NEW isAuto \in BOOLEAN, Begin(isAuto) PROVE Goal
  <2>1. head' = Len(commits) \/ "stale" \in happened'
    BY <1>4 DEF Begin, Head_
  <2>2. commits' = commits
    BY <1>4 DEF Begin, github
  <2>3. QED
    BY <2>1, <2>2 DEF Goal, Calm
<1>5. CASE ListFiles \/ ReviewCode \/ NothingToFix
  BY <1>2, <1>5 DEF ListFiles, ReviewCode, NothingToFix, github, run
<1>6. CASE Push
  BY <1>6 DEF Push, Goal
<1>7. CASE Missing \/ PushRejected \/ PushUnanswered \/ PublishRaises \/ Raise
  BY <1>7 DEF Missing, PushRejected, PushUnanswered, PublishRaises, Raise, Abort
<1>8. CASE Publish \/ PublishRefused \/ ListSuggestions \/ ListComments \/ Finish
  BY <1>2, <1>8 DEF Publish, PublishRefused, ListSuggestions, ListComments, Finish, github, run
<1>9. CASE Post \/ PostUnanswered
  BY <1>2, <1>9 DEF Post, PostUnanswered, run
<1>10. CASE UNCHANGED vars
  BY <1>2, <1>10 DEF vars
<1>11. QED
  BY <1>3, <1>4, <1>5, <1>6, <1>7, <1>8, <1>9, <1>10, Zenon DEF Next

\* Which steps leave a comment waiting.
LEMMA WaitingSteps ==
    ASSUME TypeOK, Attended, [Next]_vars, Calm', pc' \in {"suggesting", "commenting"}
    PROVE  ListSuggestions \/ ListComments \/ Post \/ UNCHANGED vars
<1>1. \A p \in Paths, c \in Contents \cup {Absent} : ~Edit(p, c)
  BY CalmBefore
<1>2. ~PostUnanswered
  BY DEF PostUnanswered, Fault, Calm
<1>3. \A isAuto \in BOOLEAN : ~Begin(isAuto)
  BY DEF Begin
<1>4. ~ListFiles /\ ~ReviewCode
  BY DEF ListFiles, ReviewCode
<1>5. ~NothingToFix /\ ~Push
  <2>1. ASSUME NEW n \in Nat, pc = "fix" PROVE ~AfterFix(n)
    BY <2>1, AfterFixTypes
  <2>2. pc = "fix" => Len(Patched.applied) \in Nat
    BY FixingType
  <2>3. QED
    BY <2>1, <2>2 DEF NothingToFix, Push
<1>6. ~Missing /\ ~PushRejected /\ ~PushUnanswered /\ ~PublishRaises /\ ~Raise
  BY DEF Missing, PushRejected, PushUnanswered, PublishRaises, Raise, Abort
<1>7. ~Publish /\ ~PublishRefused /\ ~Finish
  BY DEF Publish, PublishRefused, Finish
<1>8. QED
  BY <1>1, <1>2, <1>3, <1>4, <1>5, <1>6, <1>7, Zenon DEF Next

\* Two findings of one pass say different things.
LEMMA PlacesDiffer ==
    ASSUME FindingsDiffer, TypeOK, Unsaid, NEW p \in Places, NEW q \in Places,
           Said(Comment(FindingAt(p))) = Said(Comment(FindingAt(q)))
    PROVE  p = q
<1>1. /\ p = <<p[1], p[2]>> /\ p[1] \in DOMAIN reviews /\ p[2] \in DOMAIN reviews[p[1]].findings
      /\ q = <<q[1], q[2]>> /\ q[1] \in DOMAIN reviews /\ q[2] \in DOMAIN reviews[q[1]].findings
  BY DEF Places
<1>2. files[p[1]] = files[q[1]]
      /\ reviews[p[1]].findings[p[2]] = reviews[q[1]].findings[q[2]]
  BY DEF Said, Comment, FindingAt
<1>3. DOMAIN reviews \subseteq DOMAIN files
  BY LenProperties DEF TypeOK
<1>4. p[1] = q[1]
  BY <1>1, <1>2, <1>3 DEF Unsaid
<1>5. reviews[p[1]] \in Reviewed
  BY <1>1 DEF TypeOK
<1>6. reviews[p[1]].content \in Contents
      /\ \E r \in ReviewOf(reviews[p[1]].content) : r.findings = reviews[p[1]].findings
  BY <1>5, ReviewedParts
<1>7. p[2] = q[2]
  BY <1>1, <1>2, <1>4, <1>6 DEF FindingsDiffer
<1>8. QED
  BY <1>1, <1>4, <1>7

\* A pass takes up only what no comment says yet of the commit at head.
LEMMA ListedUnsaid ==
    ASSUME TypeOK, Attended, Calm, head = Head_,
           NEW hasFix, NEW p \in Uncommented(hasFix), NEW i \in DOMAIN comments
    PROVE  Said(comments[i]) # Said(Comment(FindingAt(p)))
<1> DEFINE c == comments[i]
           f == FindingAt(p)
<1>1. SUFFICES ASSUME Said(c) = Said(Comment(f)) PROVE FALSE
  OBVIOUS
<1>2. c.path = f.path /\ c.finding = f.finding /\ commits[c.sha][c.path] = commits[head][f.path]
  BY <1>1 DEF Said, Comment
<1>3. Shown(c)
  BY <1>2 DEF Shown
<1>4. c \in ToSet(Page(comments))
  <2>1. IsSeq(comments) /\ Len(comments) <= PageSize
    BY DEF Calm, Attended, Dated
  <2>2. c \in ToSet(comments)
    BY DEF ToSet
  <2>3. QED
    BY <2>1, <2>2, PageOf
<1>5. Anchor(f) \in Existing
  BY <1>2, <1>3, <1>4 DEF Anchor, Existing
<1>6. QED
  BY <1>5 DEF Uncommented

\* What waits is still unsaid after a step, ...
LEMMA WaitingUnsaid ==
    ASSUME FindingsDiffer, TypeOK, Attended, Unsaid, [Next]_vars, Calm',
           NEW p \in pending', NEW i \in DOMAIN comments'
    PROVE  Said(comments[i])' # Said(Comment(FindingAt(p)))'
<1>1. pc' \in {"suggesting", "commenting"} /\ Calm
  BY AttendedStep, CalmBefore DEF Attended
<1>2. CASE UNCHANGED vars
  <2>1. p \in pending /\ i \in DOMAIN comments /\ Said(comments[i])' = Said(comments[i])
        /\ Said(Comment(FindingAt(p)))' = Said(Comment(FindingAt(p)))
    BY <1>2 DEF vars, Said, Comment, FindingAt
  <2>2. QED
    BY <1>1, <2>1 DEF Unsaid
<1>3. CASE ListSuggestions \/ ListComments
  <2>1. UNCHANGED <<commits, comments, head, files, reviews>> /\ pc # "raised"
    BY <1>3 DEF ListSuggestions, ListComments, github, run
  <2>2. PICK hasFix : p \in Uncommented(hasFix)
    BY <1>3 DEF ListSuggestions, ListComments
  <2>3. head = Head_
    BY <1>1, <2>1 DEF Unsaid
  <2>4. Said(comments[i])' = Said(comments[i])
        /\ Said(Comment(FindingAt(p)))' = Said(Comment(FindingAt(p)))
    BY <2>1 DEF Said, Comment, FindingAt
  <2>5. i \in DOMAIN comments
    BY <2>1
  <2>6. QED
    BY <1>1, <2>2, <2>3, <2>4, <2>5, ListedUnsaid
<1>4. CASE Post
  <2>1. PICK q \in pending : comments' = Append(comments, Comment(FindingAt(q)))
                             /\ pending' = pending \ {q}
    BY <1>4 DEF Post
  <2>2. UNCHANGED <<commits, head, files, reviews>>
    BY <1>4 DEF Post, run
  <2>3. p \in pending /\ p # q /\ p \in Places /\ q \in Places
    BY <2>1 DEF Attended
  <2>4. Said(Comment(FindingAt(p)))' = Said(Comment(FindingAt(p)))
    BY <2>2 DEF Said, Comment, FindingAt
  <2>5. Said(comments[i])' = Said(comments'[i])
    BY <2>2 DEF Said
  <2>6. /\ DOMAIN comments = 1 .. Len(comments) /\ DOMAIN comments' = 1 .. Len(comments) + 1
        /\ Len(comments) \in Nat
    BY <2>1, OneMore DEF Attended, Dated
  <2>7. comments'[Len(comments) + 1] = Comment(FindingAt(q))
    BY <2>1, OneMore DEF Attended, Dated
  <2>8. \A j \in DOMAIN comments : comments'[j] = comments[j]
    BY <2>1, OneMore DEF Attended, Dated
  <2>9. i \in DOMAIN comments \/ i = Len(comments) + 1
    BY <2>6
  <2>10. CASE i \in DOMAIN comments
    BY <1>1, <2>3, <2>4, <2>5, <2>8, <2>10 DEF Unsaid
  <2>11. CASE i = Len(comments) + 1
    <3>1. Said(comments'[i]) = Said(Comment(FindingAt(q)))
      BY <2>7, <2>11
    <3>2. QED
      BY <2>3, <2>4, <2>5, <3>1, PlacesDiffer
  <2>12. QED
    BY <2>9, <2>10, <2>11
<1>5. QED
  BY <1>1, <1>2, <1>3, <1>4, WaitingSteps

\* ... so what is posted was not there.
LEMMA SaidOnceStep ==
    ASSUME TypeOK, Attended, Unsaid, SaidOnce, [Next]_vars
    PROVE  SaidOnce'
<1> DEFINE After(c) == <<c.path, c.finding, commits'[c.sha][c.path]>>
<1>1. SUFFICES ASSUME Calm'
               PROVE  \A i, j \in DOMAIN comments' :
                          After(comments'[i]) = After(comments'[j]) => i = j
  BY DEF SaidOnce, Said
<1>2. Calm
  BY <1>1, CalmBefore
<1>3. \A c : c.sha \in 1 .. Len(commits) => After(c) = Said(c)
  BY BranchKept DEF Said
<1> HIDE DEF After
<1>4. \A i \in DOMAIN comments : After(comments[i]) = Said(comments[i])
  BY <1>3 DEF Attended, Dated
<1>5. \A i, j \in DOMAIN comments : After(comments[i]) = After(comments[j]) => i = j
  BY <1>2, <1>4 DEF SaidOnce
<1>6. CASE comments' = comments
  BY <1>5, <1>6
<1>7. CASE Post
  <2>1. PICK q \in pending : comments' = Append(comments, Comment(FindingAt(q)))
    BY <1>7 DEF Post
  <2> DEFINE new == Comment(FindingAt(q))
  <2>2. new.sha \in 1 .. Len(commits)
    BY DEF TypeOK, Comment
  <2>3. \A i \in DOMAIN comments : After(comments[i]) # After(new)
    BY <1>2, <1>3, <1>4, <2>2 DEF Unsaid
  <2>4. /\ DOMAIN comments = 1 .. Len(comments) /\ DOMAIN comments' = 1 .. Len(comments) + 1
        /\ Len(comments) \in Nat
    BY <2>1, OneMore DEF Attended, Dated
  <2>5. comments'[Len(comments) + 1] = new
    BY <2>1, OneMore DEF Attended, Dated
  <2>6. \A j \in DOMAIN comments : comments'[j] = comments[j]
    BY <2>1, OneMore DEF Attended, Dated
  <2> HIDE DEF new
  <2>7. \A j \in DOMAIN comments' : j \in DOMAIN comments \/ j = Len(comments) + 1
    BY <2>4
  <2>8. QED
    BY <1>5, <2>3, <2>5, <2>6, <2>7
<1>8. QED
  BY <1>1, <1>6, <1>7, CalmBefore

\* These are inductive ...
LEMMA UnsaidStep ==
    ASSUME FindingsDiffer, TypeOK, Attended, Unsaid, [Next]_vars
    PROVE  Unsaid'
<1>1. \A i, j \in DOMAIN files' : files'[i] = files'[j] => i = j
  BY FilesDiffer
<1>2. Calm' /\ pc' # "raised" => head' = Len(commits')
  BY HeadKnown
<1>3. ASSUME Calm', NEW p \in pending', NEW i \in DOMAIN comments'
      PROVE  Said(comments[i])' # Said(Comment(FindingAt(p)))'
  BY <1>3, WaitingUnsaid
<1>4. QED
  BY <1>1, <1>2, <1>3 DEF Unsaid, Head_

\* ... and hold in the beginning.
LEMMA UnsaidInit == Init => Unsaid /\ SaidOnce
<1> SUFFICES ASSUME Init PROVE Unsaid /\ SaidOnce
  OBVIOUS
<1>1. PICK t \in Trees : commits = <<t>>
  BY Zenon DEF Init
<1>2. comments = << >> /\ files = << >> /\ pending = {} /\ head = 1
  BY Zenon DEF Init
<1>3. Len(commits) = 1
  BY <1>1
<1>4. QED
  BY <1>2, <1>3 DEF Unsaid, SaidOnce, Head_

\* As long as nobody else pushes, no answer is lost or out of date, and the
\* comments fit GitHub's page, no run repeats a comment on a file that has not
\* changed since, neither its own nor one of a run before it.
THEOREM NothingSaidTwice ==
    ASSUME FindingsDiffer
    PROVE  Spec => []SaidOnce
<1> DEFINE Inv == TypeOK /\ Attended /\ Unsaid /\ SaidOnce
<1>1. Init => Inv
  BY TypeInit, AttendedInit, UnsaidInit
<1>2. Inv /\ [Next]_vars => Inv'
  BY TypeStep, AttendedStep, UnsaidStep, SaidOnceStep
<1>3. Inv => SaidOnce
  OBVIOUS
<1>4. QED
  BY <1>1, <1>2, <1>3, PTL DEF Spec

=============================================================================
