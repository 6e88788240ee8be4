------------------------------ MODULE ReviewPr ------------------------------
(***************************************************************************)
(* cli/review_pr.py: review_pr() with --post, on one pull request that its *)
(* developers go on pushing to.  The run reviews the Python files of the   *)
(* head commit; with --auto-apply it commits the fixes, one push for each  *)
(* file, and reviews the commit it has arrived at; it publishes the        *)
(* combined result and comments on the lines of its findings.              *)
(*                                                                         *)
(* GitHub's side is external and modelled as review_pr() uses it: a branch *)
(* is the list of its commits; PUT contents is refused unless the caller   *)
(* knows the file's blob, which its content determines; a listing is one   *)
(* page; the comment on a line that has changed since has no line.         *)
(***************************************************************************)
EXTENDS Integers, Sequences, SequencesExt, FiniteSets, ApplyFixes, Gate

CONSTANTS
    Paths,       \* the Python files the pull request may have
    Listing,     \* those on GitHub's page of all the files, in its order
    Contents,    \* what may be in a file
    Reviews,     \* the results review_code() may return for a content
    Absent,      \* a file that a commit does not have
    Trees,       \* what the branch may look like in the beginning
    PageSize,    \* GitHub's default page
    MaxRuns,     \* bound on the runs of the command
    MaxEdits,    \* bound on the developers' pushes
    Faults,      \* the kinds of fault the environment may inject
    MaxFaults    \* bound on their number

FaultKinds == {"stale", "refused", "down", "unanswered"}

ReviewOf(c) == Reviews[c]

\* What is read of a file together with what is found in it.
Reviewed ==
    UNION {{[content |-> c, status |-> r.status, findings |-> r.findings] : r \in ReviewOf(c)} :
               c \in Contents}

ASSUME ListingAssumption ==
    \A S \in SUBSET Paths :
        /\ Listing[S] \in Seq(S)
        /\ \A i, j \in DOMAIN Listing[S] : Listing[S][i] = Listing[S][j] => i = j
ASSUME ReviewsAssumption ==
    \A c \in Contents : \A r \in ReviewOf(c) :
        /\ r.status \in ReviewStatus
        /\ IsSeq(c) /\ AreFindings(r.findings)
        /\ Patch(c, r.findings).lines \in Contents
ASSUME TreesAssumption == Trees \subseteq [Paths -> Contents \cup {Absent}]
ASSUME AbsentAssumption == Absent \notin Contents
ASSUME BoundsAssumption ==
    /\ PageSize \in Nat \ {0} /\ MaxRuns \in Nat /\ MaxEdits \in Nat
    /\ Faults \subseteq FaultKinds /\ MaxFaults \in Nat

VARIABLES
    commits,   \* the commits of the branch, each with the contents of the files
    comments,  \* the inline comments of the pull request, oldest first, each with its run
    pc,        \* where the run is in review_pr()
    auto,      \* --auto-apply
    head,      \* head_sha
    files,     \* py_files
    reviews,   \* file_data and results: what was read of each file and found
    next,      \* the file whose fixes are to be pushed
    fixed,     \* auto_fixed_count
    pending,   \* findings that still get a comment in this pass
    pushes,    \* history: what the run's commits were made from
    reports,   \* history: the combined results that reached GitHub
    edits,     \* the developers' pushes so far
    runs,      \* runs begun so far
    happened,  \* the kinds of fault that have occurred
    faults     \* their number

github == <<commits, comments>>
run    == <<auto, head, files>>
work   == <<reviews, next, fixed, pending>>
past   == <<pushes, reports>>
env    == <<edits, runs, happened, faults>>
vars   == <<commits, comments, pc, auto, head, files, reviews, next, fixed, pending,
            pushes, reports, edits, runs, happened, faults>>

-----------------------------------------------------------------------------
(* Helpers.                                                                *)

Steps == {"idle", "list", "review", "fix", "rereview", "publish",
          "suggest", "suggesting", "commenting", "done", "raised"}

Head_ == Len(commits)

\* A fault of kind k happens now.
Fault(k) ==
    /\ k \in Faults /\ faults < MaxFaults
    /\ faults' = faults + 1
    /\ happened' = happened \cup {k}
    /\ UNCHANGED <<edits, runs>>

Page(s) == SubSeq(s, 1, IF Len(s) < PageSize THEN Len(s) ELSE PageSize)

\* A new commit in which path p has content c.
Commit(p, c) == commits' = Append(commits, [commits[Head_] EXCEPT ![p] = c])

\* Mutant of Worst: the mildest status wins.
Mildest(statuses) ==
    IF "completed" \in statuses THEN "completed"
    ELSE IF "degraded" \in statuses THEN "degraded" ELSE "failed"

\* _STATUS_SEVERITY.
Worst(statuses) ==
    IF "failed" \in statuses THEN "failed"
    ELSE IF "degraded" \in statuses THEN "degraded" ELSE "completed"

Result(rs) ==
    [status   |-> Worst({rs[i].status : i \in DOMAIN rs}),
     critical |-> \E i \in DOMAIN rs : \E k \in DOMAIN rs[i].findings :
                      rs[i].findings[k].critical]

\* _combine(): the findings of all files, each with its file.  <<i, k>> stands
\* for the k-th finding of the i-th file, and they come in that order.
Places == UNION {{i} \X DOMAIN reviews[i].findings : i \in DOMAIN reviews}
FindingAt(p) == [path |-> files[p[1]], finding |-> reviews[p[1]].findings[p[2]]]
Before(p, q) == p[1] < q[1] \/ (p[1] = q[1] /\ p[2] < q[2])

\* The run ends with an exception; what it knew is gone.
Abort ==
    /\ pc' = "raised"
    /\ auto' = FALSE /\ head' = 1 /\ files' = << >>
    /\ reviews' = << >> /\ next' = 1 /\ fixed' = 0 /\ pending' = {}

Init ==
    /\ \E t \in Trees : commits = <<t>>
    /\ comments = << >>
    /\ pc = "idle" /\ auto = FALSE /\ head = 1 /\ files = << >>
    /\ reviews = << >> /\ next = 1 /\ fixed = 0 /\ pending = {}
    /\ pushes = {} /\ reports = {}
    /\ edits = 0 /\ runs = 0 /\ happened = {} /\ faults = 0

-----------------------------------------------------------------------------
(* The developers.                                                         *)

Edit(p, c) ==
    /\ edits < MaxEdits
    /\ commits[Head_][p] # c
    /\ Commit(p, c)
    /\ edits' = edits + 1
    /\ UNCHANGED <<comments, pc, run, work, past, runs, happened, faults>>

-----------------------------------------------------------------------------
(* Reading and reviewing.                                                  *)

\* get_pull_request().  Right after a push GitHub may still answer with the
\* commit before it.
Begin(isAuto) ==
    /\ pc \in {"idle", "done", "raised"}
    /\ runs < MaxRuns
    /\ runs' = runs + 1
    /\ \/ head' = Head_ /\ UNCHANGED <<happened, faults>>
       \/ /\ "stale" \in Faults /\ faults < MaxFaults /\ Head_ > 1
          /\ head' = Head_ - 1
          /\ faults' = faults + 1
          /\ happened' = happened \cup {"stale"}
    /\ auto' = isAuto
    /\ files' = << >> /\ reviews' = << >> /\ next' = 1 /\ fixed' = 0 /\ pending' = {}
    /\ pc' = "list"
    /\ UNCHANGED <<github, past, edits>>

\* list_pr_files(): the files of the branch as it is now, whatever head_sha.
ListFiles ==
    /\ pc = "list"
    /\ files' = Page(Listing[{p \in Paths : commits[Head_][p] # Absent}])
    /\ pc' = IF files' = << >> THEN "done" ELSE "review"
    /\ UNCHANGED <<github, auto, head, work, past, env>>

\* The file to read next, and what head_sha has there.
Reading == files[Len(reviews) + 1]
Read    == commits[head][Reading]

\* The commit has no such file: GitHub answers 404.
Missing ==
    /\ pc \in {"review", "rereview"} /\ Read = Absent
    /\ Abort
    /\ UNCHANGED <<github, past, env>>

ReviewCode ==
    /\ pc \in {"review", "rereview"} /\ Read # Absent
    /\ \E r \in ReviewOf(Read) :
           reviews' = Append(reviews, [content  |-> Read, status |-> r.status,
                                       findings |-> r.findings])
    /\ pc' = IF Len(reviews') < Len(files) THEN pc
             ELSE IF pc = "review" /\ auto THEN "fix" ELSE "publish"
    /\ UNCHANGED <<github, run, next, fixed, pending, past, env>>

-----------------------------------------------------------------------------
(* --auto-apply.                                                           *)

Fixing  == files[next]
Patched == Patch(reviews[next].content, reviews[next].findings)

\* Mutant of AfterFix: what was found before the fixes is published after them.
AfterFixStale(applied) ==
    /\ fixed' = fixed + applied
    /\ next' = IF next < Len(files) THEN next + 1 ELSE 1
    /\ pc' = IF next < Len(files) THEN "fix" ELSE "publish"
    /\ UNCHANGED reviews

\* On to the next file; after the last one the new commit, if there is one, is
\* reviewed in its turn.
AfterFix(applied) ==
    /\ fixed' = fixed + applied
    /\ IF next < Len(files)
       THEN next' = next + 1 /\ UNCHANGED <<pc, reviews>>
       ELSE /\ next' = 1
            /\ IF fixed' > 0 THEN pc' = "rereview" /\ reviews' = << >>
                             ELSE pc' = "publish" /\ UNCHANGED reviews

NothingToFix ==
    /\ pc = "fix" /\ Patched.applied = << >>
    /\ AfterFix(0)
    /\ UNCHANGED <<github, run, pending, past, env>>

CommitFixes ==
    /\ Commit(Fixing, Patched.lines)
    /\ pushes' = pushes \cup {[sha |-> Len(commits'), path |-> Fixing,
                               findings |-> reviews[next].findings]}

\* Mutant of Push: the update is sent without the blob it is meant for.
PushBlindly ==
    /\ pc = "fix" /\ Patched.applied # << >>
    /\ CommitFixes
    /\ head' = Len(commits')
    /\ AfterFix(Len(Patched.applied))
    /\ UNCHANGED <<comments, auto, files, pending, reports, env>>

\* update_file_content(): the commit that answers it is the new head_sha.
Push ==
    /\ pc = "fix" /\ Patched.applied # << >>
    /\ commits[Head_][Fixing] = reviews[next].content
    /\ CommitFixes
    /\ head' = Len(commits')
    /\ AfterFix(Len(Patched.applied))
    /\ UNCHANGED <<comments, auto, files, pending, reports, env>>

\* The file has changed since it was read: 409.
PushRejected ==
    /\ pc = "fix" /\ Patched.applied # << >>
    /\ commits[Head_][Fixing] # reviews[next].content
    /\ Abort
    /\ UNCHANGED <<github, past, env>>

\* The answer is lost; _request() repeats the call, and now gets the 409.
PushUnanswered ==
    /\ pc = "fix" /\ Patched.applied # << >>
    /\ commits[Head_][Fixing] = reviews[next].content
    /\ Fault("unanswered")
    /\ CommitFixes
    /\ Abort
    /\ UNCHANGED <<comments, reports>>

-----------------------------------------------------------------------------
(* Publishing.                                                             *)

Report(kind) == [kind |-> kind, sha |-> head, files |-> files, reviews |-> reviews,
                 decision |-> Decide(Result(reviews))]

\* publish_review(): the summary comment, then the check run.
Publish ==
    /\ pc = "publish"
    /\ reports' = reports \cup {Report("comment"), Report("check")}
    /\ pc' = "suggest"
    /\ UNCHANGED <<github, run, work, pushes, env>>

\* An HTTPError before or after the summary comment is caught, ...
PublishRefused ==
    /\ pc = "publish"
    /\ Fault("refused")
    /\ reports' = reports \/ reports' = reports \cup {Report("comment")}
    /\ pc' = "suggest"
    /\ UNCHANGED <<github, run, work, pushes>>

\* ... what else may be raised (no connection, no Redis) is not.
PublishRaises ==
    /\ pc = "publish"
    /\ Fault("down")
    /\ \/ reports' = reports
       \/ reports' = reports \cup {Report("comment")}
       \/ reports' = reports \cup {Report("comment"), Report("check")}
    /\ Abort
    /\ UNCHANGED <<github, pushes>>

-----------------------------------------------------------------------------
(* The inline comments.                                                    *)

\* A comment keeps its line as long as the file is the one it was made on.
Shown(c) == commits[Head_][c.path] = commits[c.sha][c.path]

Anchor(f) == [path |-> f.path, line |-> End(f.finding)]

\* Mutant of Existing: a comment on several lines is looked up by its first one.
ExistingByStart ==
    {[path |-> c.path, line |-> c.finding.line] :
        c \in {d \in ToSet(Page(comments)) : Shown(d)}}

\* Mutant of Existing: a comment keeps the line it had in another version.
ExistingOutdated ==
    {[path |-> c.path, line |-> End(c.finding)] : c \in ToSet(Page(comments))}

\* list_review_comments().
Existing ==
    {[path |-> c.path, line |-> End(c.finding)] :
        c \in {d \in ToSet(Page(comments)) : Shown(d)}}

Uncommented(hasFix) ==
    {p \in Places : FindingAt(p).finding.has_fix = hasFix /\ Anchor(FindingAt(p)) \notin Existing}

\* post_fix_suggestions() asks what comments there are and then posts its own;
ListSuggestions ==
    /\ pc = "suggest"
    /\ pending' = Uncommented(TRUE)
    /\ pc' = "suggesting"
    /\ UNCHANGED <<github, run, reviews, next, fixed, past, env>>

\* post_no_fix_comments() does the same, its predecessor's included.
ListComments ==
    /\ pc = "suggesting" /\ pending = {}
    /\ pending' = Uncommented(FALSE)
    /\ pc' = "commenting"
    /\ UNCHANGED <<github, run, reviews, next, fixed, past, env>>

Comment(f) == [path |-> f.path, sha |-> head, finding |-> f.finding, run |-> runs]

\* The finding whose turn it is.
Foremost(p) == \A q \in pending : ~Before(q, p)

Post ==
    /\ pc \in {"suggesting", "commenting"}
    /\ \E p \in pending :
          /\ Foremost(p)
          /\ comments' = Append(comments, Comment(FindingAt(p)))
          /\ pending' = pending \ {p}
    /\ UNCHANGED <<commits, pc, run, reviews, next, fixed, past, env>>

\* The answer to the POST is lost, and _request() repeats it.
PostUnanswered ==
    /\ pc \in {"suggesting", "commenting"}
    /\ Fault("unanswered")
    /\ \E p \in pending :
          /\ Foremost(p)
          /\ LET c == Comment(FindingAt(p)) IN comments' = Append(Append(comments, c), c)
          /\ pending' = pending \ {p}
    /\ UNCHANGED <<commits, pc, run, reviews, next, fixed, past>>

Finish ==
    /\ pc = "commenting" /\ pending = {}
    /\ pc' = "done"
    /\ UNCHANGED <<github, run, work, past, env>>

\* Any other call fails, in whatever way, and ends the run; GitHub refuses, for
\* instance, a comment on a line that is not part of the diff.
Raise ==
    /\ pc \in Steps \ {"idle", "publish", "done", "raised"}
    /\ Fault("refused")
    /\ Abort
    /\ UNCHANGED <<github, past>>

-----------------------------------------------------------------------------

Next ==
    \/ \E p \in Paths, c \in Contents \cup {Absent} : Edit(p, c)
    \/ \E isAuto \in BOOLEAN : Begin(isAuto)
    \/ ListFiles \/ Missing \/ ReviewCode
    \/ NothingToFix \/ Push \/ PushRejected \/ PushUnanswered
    \/ Publish \/ PublishRefused \/ PublishRaises
    \/ ListSuggestions \/ ListComments \/ Post \/ PostUnanswered \/ Finish
    \/ Raise

Spec == Init /\ [][Next]_vars

-----------------------------------------------------------------------------
(* Type invariant.                                                         *)

TypeOK ==
    /\ commits \in Seq([Paths -> Contents \cup {Absent}])
    /\ pc \in Steps /\ auto \in BOOLEAN
    /\ head \in 1 .. Len(commits)
    /\ files \in Seq(Paths)
    /\ reviews \in Seq(Reviewed) /\ Len(reviews) <= Len(files)
    /\ pc = "list" => reviews = << >>
    /\ pc \in {"list", "review"} => next = 1
    /\ pc \in {"review", "rereview"} => Len(reviews) < Len(files)
    /\ pc \in {"fix", "publish"} => Len(reviews) = Len(files)
    /\ next \in Nat \ {0} /\ (pc = "fix" => next <= Len(files))
    /\ fixed \in Nat
    /\ edits \in Nat /\ runs \in Nat /\ faults \in Nat /\ happened \subseteq Faults

-----------------------------------------------------------------------------
(* Safety.                                                                 *)

\* What is posted on a commit was found in that commit: in every file it was
\* read from, the commit has the very content the result is about, whatever the
\* run has pushed since it began, whoever else has pushed and whichever step has
\* failed ("what gets posted below must reflect what's actually still there").
PostedIsReviewed ==
    \A r \in reports :
        /\ Len(r.reviews) = Len(r.files)
        /\ \A i \in DOMAIN r.files : commits[r.sha][r.files[i]] = r.reviews[i].content

\* A commit the run has pushed differs from the one before it by the fixes of
\* that one file, applied as they were meant: every range that overlaps no
\* other is replaced, no other line is touched, and no developer's change made
\* between the review and the push is lost.
PushesApplyFixes ==
    \A u \in pushes :
        commits[u.sha] =
            [commits[u.sha - 1] EXCEPT ![u.path] = Intended(@, u.findings)]

\* The pull request is approved only if each of its files would have been on
\* its own.
ApprovalIsUnanimous ==
    \A r \in reports : r.decision = "approve" =>
        \A i \in DOMAIN r.reviews : Decide(Result(<<r.reviews[i]>>)) = "approve"

\* Why these are inductive.  What is in reviews is in the commit at head, except
\* between the first push of a run and the second review ...
Fresh ==
    pc \in {"review", "rereview", "publish"} \/ (pc = "fix" /\ fixed = 0) =>
        \A i \in DOMAIN reviews : commits[head][files[i]] = reviews[i].content

\* ... what has been reported stays as it was ...
Filed ==
    \A r \in reports :
        /\ r.sha \in 1 .. Len(commits)
        /\ r.files \in Seq(Paths) /\ r.reviews \in Seq(Reviewed)
        /\ r.decision = Decide(Result(r.reviews))

\* ... and a push goes on top of the very content its fixes were made for.
Grounded ==
    \A u \in pushes :
        /\ u.sha \in 2 .. Len(commits) /\ u.path \in Paths
        /\ commits[u.sha - 1][u.path] \in Contents
        /\ \E r \in ReviewOf(commits[u.sha - 1][u.path]) : r.findings = u.findings
        /\ commits[u.sha] = [commits[u.sha - 1] EXCEPT ![u.path] = Patch(@, u.findings).lines]

IInv == TypeOK /\ Fresh /\ Filed /\ PostedIsReviewed /\ Grounded

\* Nobody else pushes, no answer is lost or out of date, and the comments fit the
\* page that is asked for.
Calm == edits = 0 /\ happened \cap {"stale", "unanswered"} = {} /\ Len(comments) <= PageSize

\* What a comment says of which content.
Said(c) == <<c.path, c.finding, commits[c.sha][c.path]>>

\* Running the command again does not repeat a comment on a file that has not
\* changed, as long as all is calm ("idempotent").
SaidOnce ==
    Calm => \A i, j \in DOMAIN comments : Said(comments[i]) = Said(comments[j]) => i = j

\* What that takes of the reviews: none lists one finding twice, for a pass only
\* looks up the comments there were before its first one.
FindingsDiffer ==
    \A c \in Contents : \A r \in ReviewOf(c) : \A j, k \in DOMAIN r.findings :
        r.findings[j] = r.findings[k] => j = k

\* The run has commented on a finding itself.
Own(p) == Comment(FindingAt(p)) \in ToSet(comments)

\* A run before it has commented on the line, in a file that was the same at
\* some time since the commit under review.
HeardBefore(p) ==
    \E i \in DOMAIN comments : LET c == comments[i] IN
        /\ c.run < runs
        /\ Anchor(c) = Anchor(FindingAt(p))
        /\ \E s \in head .. Len(commits) : commits[s][c.path] = commits[c.sha][c.path]

\* The second pass takes what the first one of the same run has posted for a
\* comment that was there before.
Sidestepped(p) ==
    /\ ~FindingAt(p).finding.has_fix
    /\ \E q \in Places : /\ FindingAt(q).finding.has_fix
                         /\ Anchor(FindingAt(q)) = Anchor(FindingAt(p))
                         /\ Own(q)

DealtWith(p) == Own(p) \/ HeardBefore(p) \/ Sidestepped(p)

\* When a run is through, each finding that it leaves to a human has a comment of
\* its own on the commit under review, whatever has been pushed and whichever
\* answer was lost on the way, unless an earlier run's comment has been on show
\* at that line ("skips any (path, line) that already has a comment from a
\* previous run").  The one exception is the code's, not that sentence's: a
\* finding without a fix is left out if the run has offered a fix for another one
\* that ends on its line.
EachFindingCommented ==
    pc = "done" => \A p \in Places : DealtWith(p)

\* Why this is inductive.  The run's own comments are the ones it has posted since
\* its first look-up ...
Dated ==
    /\ IsSeq(comments)
    /\ \A i \in DOMAIN comments : /\ comments[i].sha \in 1 .. Len(commits)
                                  /\ comments[i].run \in 0 .. runs
    /\ pc \in {"list", "review", "fix", "rereview", "publish", "suggest"} =>
           \A i \in DOMAIN comments : comments[i].run < runs
    /\ pc = "suggesting" =>
           \A i \in DOMAIN comments : comments[i].run = runs =>
               \E q \in Places : FindingAt(q).finding.has_fix /\ comments[i] = Comment(FindingAt(q))

\* ... and a finding that does not wait for its turn, in this pass or in the next
\* one, has been dealt with ...
Attended ==
    /\ Dated
    /\ pending \subseteq Places
    /\ pc \notin {"suggesting", "commenting"} => pending = {}
    /\ pc \in {"suggesting", "commenting"} =>
           \A p \in pending : FindingAt(p).finding.has_fix = (pc = "suggesting")
    /\ pc \in {"suggesting", "commenting", "done"} =>
           \A p \in Places \ pending :
               FindingAt(p).finding.has_fix \/ pc # "suggesting" =>
                   DealtWith(p)

\* ... and what waits has not been said of the commit it would be said of, which
\* is the one the comments are compared with.
Unsaid ==
    /\ \A i, j \in DOMAIN files : files[i] = files[j] => i = j
    /\ Calm /\ pc # "raised" => head = Head_
    /\ Calm => \A p \in pending : \A i \in DOMAIN comments :
                   Said(comments[i]) # Said(Comment(FindingAt(p)))

CommentsInv == TypeOK /\ Attended /\ Unsaid /\ SaidOnce

=============================================================================
