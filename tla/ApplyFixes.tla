----------------------------- MODULE ApplyFixes -----------------------------
(***************************************************************************)
(* apply_fixes_to_file() of cli/review_pr.py: the fixes of a file's        *)
(* findings, each of which replaces a range of lines.                      *)
(*                                                                         *)
(* A file is the sequence of its lines.  A finding is [line, end, fix,     *)
(* has_fix, critical]: the lines it is about, the lines to put in their    *)
(* place (none for a deletion) and whether that replacement is on offer.   *)
(***************************************************************************)
EXTENDS Integers, Sequences, FiniteSets

\* A sequence of something.
IsSeq(s) == s \in Seq({s[i] : i \in DOMAIN s})

\* Findings as they come: a list, each with its lines (_to_findings() drops those
\* below 1) and, if any, its fix.
AreFindings(fs) ==
    /\ IsSeq(fs)
    /\ \A k \in DOMAIN fs :
           /\ fs[k].line \in Nat /\ fs[k].end \in Nat /\ fs[k].has_fix \in BOOLEAN
           /\ fs[k].has_fix => IsSeq(fs[k].fix)

\* _span(): end_line is 0 for a finding about one line.
End(f) == IF f.end >= f.line THEN f.end ELSE f.line

Fixable(fs) == {i \in DOMAIN fs : fs[i].has_fix}

\* The order of sorted(fixable, key=_span): Python's sort is stable.
Earlier(fs, i, j) ==
    \/ fs[i].line < fs[j].line
    \/ fs[i].line = fs[j].line /\ End(fs[i]) < End(fs[j])
    \/ fs[i].line = fs[j].line /\ End(fs[i]) = End(fs[j]) /\ i < j

\* Where a finding comes in that order.
Place(fs, i) == Cardinality({j \in Fixable(fs) : j = i \/ Earlier(fs, j, i)})

Ordered(fs) ==
    [k \in 1 .. Cardinality(Fixable(fs)) |-> fs[CHOOSE i \in Fixable(fs) : Place(fs, i) = k]]

\* group_end after each of the findings s: one that joins the last group may
\* extend it, another one opens a group of its own.
GroupEnd(s) ==
    LET end[k \in 0 .. Len(s)] ==
            IF k = 0 THEN -1
            ELSE LET e == end[k - 1]
                 IN  IF s[k].line <= e /\ End(s[k]) <= e THEN e ELSE End(s[k])
    IN  end

Joins(s, k) == k \in DOMAIN s /\ s[k].line <= GroupEnd(s)[k - 1]

\* The only one of its group: it joins none, and the next one does not join it.
Single(s, k) == ~Joins(s, k) /\ ~Joins(s, k + 1)

\* One fix, unless the range is not in the file as it is by now.
Replace(f, file) ==
    IF 0 < f.line /\ f.line <= Len(file.lines) /\ End(f) <= Len(file.lines)
    THEN [lines   |-> SubSeq(file.lines, 1, f.line - 1) \o f.fix
                          \o SubSeq(file.lines, End(f) + 1, Len(file.lines)),
          applied |-> Append(file.applied, f)]
    ELSE file

\* The last of them first, so that no replacement shifts the lines of one still
\* to come: file[n] is what n of the findings have made of the file.
\* (The lines are those of splitlines(), joined by newlines: which line ends a file had
\* is not part of this.)
Patch(lines, fs) ==
    LET s == Ordered(fs)
        file[n \in 0 .. Len(s)] ==
            IF n = 0 THEN [lines |-> lines, applied |-> << >>]
            ELSE LET k == Len(s) + 1 - n
                 IN  IF Single(s, k) THEN Replace(s[k], file[n - 1]) ELSE file[n - 1]
    IN  file[Len(s)]

-----------------------------------------------------------------------------
(* What it is for, line by line: the ranges that are in the file and       *)
(* overlap no other give way to their fixes, every other line stays.       *)

Overlap(f, g) == f.line <= End(g) /\ g.line <= End(f)

Undisputed(lines, fs) ==
    {i \in Fixable(fs) :
        /\ 0 < fs[i].line /\ End(fs[i]) <= Len(lines)
        /\ \A j \in Fixable(fs) \ {i} : ~Overlap(fs[i], fs[j])}

\* What comes of a line, ...
Instead(lines, fs, n) ==
    LET fixes == {i \in Undisputed(lines, fs) : fs[i].line <= n /\ n <= End(fs[i])}
    IN  IF fixes = {} THEN <<lines[n]>>
        ELSE LET i == CHOOSE i \in fixes : TRUE
             IN  IF fs[i].line = n THEN fs[i].fix ELSE << >>

\* ... of the last n of them, and of all of them.
Intended(lines, fs) ==
    LET last[n \in 0 .. Len(lines)] ==
            IF n = 0 THEN << >> ELSE Instead(lines, fs, Len(lines) + 1 - n) \o last[n - 1]
    IN  last[Len(lines)]

=============================================================================
