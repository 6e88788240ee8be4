--------------------------- MODULE ClaimLifecycle ---------------------------
(***************************************************************************)
(* What storage/idempotency_store.py promises about one commit: its claim  *)
(* is held by one task at a time, only the holder works, and a claim       *)
(* yields at most one completed review.  ReviewTask implements it.         *)
(***************************************************************************)
EXTENDS Naturals

CONSTANTS Commits, Task, CommitOfTask(_), None

VARIABLES
    holder,    \* the task each commit is claimed by, None when it is free
    busy,      \* whether the holder is at work
    completed  \* completed reviews of each task

vars == <<holder, busy, completed>>

Init ==
    /\ holder = [c \in Commits |-> None]
    /\ busy = [c \in Commits |-> FALSE]
    /\ completed = [t \in Task |-> 0]

\* A task claims a free commit and starts to work.
Start(t) ==
    /\ holder[CommitOfTask(t)] = None
    /\ holder' = [holder EXCEPT ![CommitOfTask(t)] = t]
    /\ busy' = [busy EXCEPT ![CommitOfTask(t)] = TRUE]
    /\ UNCHANGED completed

\* A task's claim is stored but the task never learns of it.
Spoil(t) ==
    /\ holder[CommitOfTask(t)] = None
    /\ holder' = [holder EXCEPT ![CommitOfTask(t)] = t]
    /\ UNCHANGED <<busy, completed>>

\* The review failed: the claim is given back, and a retry may take it.
GiveBack(c) ==
    /\ busy[c]
    /\ holder' = [holder EXCEPT ![c] = None]
    /\ busy' = [busy EXCEPT ![c] = FALSE]
    /\ UNCHANGED completed

\* The review is complete; the claim stays so that it is not done again.
Complete(c) ==
    /\ busy[c]
    /\ busy' = [busy EXCEPT ![c] = FALSE]
    /\ completed' = [completed EXCEPT ![holder[c]] = @ + 1]
    /\ UNCHANGED holder

\* The holder stops without completing and without giving the claim back.
Lose(c) ==
    /\ busy[c]
    /\ busy' = [busy EXCEPT ![c] = FALSE]
    /\ UNCHANGED <<holder, completed>>

\* The claim of a commit nobody works on runs out.
Expire(c) ==
    /\ holder[c] # None /\ ~busy[c]
    /\ holder' = [holder EXCEPT ![c] = None]
    /\ UNCHANGED <<busy, completed>>

Next ==
    \/ \E t \in Task : Start(t) \/ Spoil(t)
    \/ \E c \in Commits : GiveBack(c) \/ Complete(c) \/ Lose(c) \/ Expire(c)

Spec == Init /\ [][Next]_vars

=============================================================================
