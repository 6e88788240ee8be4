------------------------------- MODULE Repair -------------------------------
(***************************************************************************)
(* A file that its author breaks while editing, and the review that offers *)
(* to repair it: colons get lost and lines move sideways, the review finds *)
(* the syntax errors, and the fixes get in one at a time, when somebody    *)
(* accepts a suggestion, or together, when review-pr runs with             *)
(* --auto-apply.  meant is the file the author has in mind.                *)
(***************************************************************************)
EXTENDS SyntaxFixes, ApplyFixes

CONSTANTS Meant,       \* the files authors have in mind
          MaxIndent,   \* a bound: how far to the right a line moves
          MaxSize      \* a bound: lines of a file and mistakes made in it

\* A file is looked at without the blank lines at its end.
ASSUME MeantAssumption ==
    \A lines \in Meant : lines \in Seq(Lines) /\ (lines # << >> => ~Blank(lines[Len(lines)]))

VARIABLES meant, text, slips
repairVars == <<meant, text, slips>>

Findings(lines) == CollectSyntaxErrorFindings(lines)
Patched(lines, findings) == Patch(lines, findings).lines

RepairInit ==
    /\ meant \in {f \in Meant : Compiles(f)}
    /\ text = meant
    /\ slips = 0

Slip(lines) ==
    /\ Len(meant) + slips < MaxSize
    /\ slips' = slips + 1
    /\ text' = lines
    /\ UNCHANGED meant

DropColon == \E k \in DOMAIN text : Opens(text[k]) /\ Slip([text EXCEPT ![k].colon = FALSE])

\* A stretch of lines one level to the left or to the right.
Misindent ==
    \E first, last \in Code(text), offset \in {-1, 1} :
        /\ first <= last
        /\ \A k \in Code(text) \cap (first .. last) : text[k].indent + offset \in 0 .. MaxIndent
        /\ Slip(Reindent(text, first, last, offset))

CommitRepair(findings) ==
    /\ Patch(text, findings).applied # << >>
    /\ text' = Patched(text, findings)
    /\ UNCHANGED <<meant, slips>>

AutoRepair == CommitRepair(Findings(text))
AcceptRepair == \E f \in ToSet(Findings(text)) : CommitRepair(<<f>>)

RepairNext == DropColon \/ Misindent \/ AutoRepair \/ AcceptRepair

RepairSpec == RepairInit /\ [][RepairNext]_repairVars

-----------------------------------------------------------------------------

RepairTypeOK == meant \in Seq(Lines) /\ text \in Seq(Lines) /\ slips \in Nat

\* What a commit has fixed is not found again, what it has left is found
\* again, and it brings nothing new: a review that was not cut short is followed
\* by one that finds the same without what was applied, in whatever order and in
\* whatever company the suggestions are accepted.
Gone(f) == f.has_fix /\ SubSeq(text', f.line, End(f)) = f.fix
OnlyAppliedGo ==
    [][slips' = slips /\ Len(Findings(text)) < MaxSyntaxErrorsPerReview =>
          ToSet(Findings(text')) = {f \in ToSet(Findings(text)) : ~Gone(f)}]_repairVars

AllColons(lines) == [k \in DOMAIN lines |-> IF Header(lines[k]) THEN [lines[k] EXCEPT !.colon = TRUE]
                                                               ELSE lines[k]]
Lost(lines) == {k \in DOMAIN lines : Header(lines[k]) /\ ~lines[k].colon}

\* Every line that has lost its colon can be given one, by as many findings as
\* one review has.
Restorable(most) ==
    /\ \A k \in Lost(text) : ~text[k].comment
    /\ Cardinality(Lost(text)) <= most

\* "This one genuinely isn't" a judgment call: a file that has lost nothing but
\* colons gets exactly its colons back.
ColonsRestored ==
    AllColons(text) = meant /\ Restorable(MaxSyntaxErrorsPerReview) =>
        Patched(text, Findings(text)) = meant

\* The last line of the block that line k opens.
BlockEnd(lines, k) ==
    Max({m \in Code(lines) : k < m /\ \A j \in Code(lines) \cap (k + 1 .. m) :
                                          lines[j].indent > lines[k].indent})

\* What may come after a block.
Outside(line) == line.form \in {"def", "return"}

\* The block at k is one level deeper than k, and none of its lines but the
\* first looks as if it came after it, once it has lost its indent.
Coherent(lines, k) ==
    LET block == Code(lines) \cap (k + 1 .. BlockEnd(lines, k))
    IN  /\ lines[Min(block)].indent = lines[k].indent + 1
        /\ \A m \in block \ {Min(block)} :
               lines[m].indent = lines[k].indent + 1 => ~Outside(lines[m])

\* What comes after the block does not look as if it were a part of it.
SetOff(lines, k) ==
    LET after == {m \in Code(lines) : m > BlockEnd(lines, k)}
    IN  after # {} => LET next == lines[Min(after)]
                      IN  \/ next.indent < lines[k].indent
                          \/ Outside(next)

\* A block that has lost its indent, with the colons lost above it or without,
\* gets it back in all its lines, and nothing that follows is drawn into it.
BodiesRestored ==
    \A k \in DOMAIN meant :
        /\ Opens(meant[k])
        /\ Coherent(meant, k) /\ SetOff(meant, k)
        /\ BlockEnd(meant, k) <= k + SearchWindow
        /\ AllColons(text) = Reindent(meant, k + 1, BlockEnd(meant, k), -1)
        /\ \A j \in Lost(text) : j <= k
        /\ Restorable(MaxSyntaxErrorsPerReview - 1)
        => Patched(text, Findings(text)) = meant

\* "Every line up through max_end_line was already written at the SAME wrong
\* indentation as the first offending line (or nested deeper within it)": a fix
\* that gives a header its body does not move a line from further out.
BodyMovesTogether ==
    LET e == Compile(text)
    IN  \A f \in MissingIndentFix(text, e) :
            \A k \in Code(text) \cap (f.line .. f.end) : text[k].indent >= text[e.lineno].indent

=============================================================================
