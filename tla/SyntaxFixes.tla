---------------------------- MODULE SyntaxFixes -----------------------------
(***************************************************************************)
(* core/orchestrator.py on a file that does not compile: the findings that *)
(* report its syntax errors, and the fixes they offer.                     *)
(*                                                                         *)
(* A line is [indent, form, colon, comment].  form is what the fixes tell  *)
(* apart: "def" and "if" (lines that a colon ends), "return" (a line that  *)
(* leaves its block), "stmt" and "blank".  An indent of n is 4n columns.   *)
(***************************************************************************)
EXTENDS Integers, Sequences, SequencesExt, FiniteSetsExt

Lines == [indent : Nat, form : {"def", "if", "return", "stmt", "blank"},
          colon : BOOLEAN, comment : BOOLEAN]

Blank(line) == line.form = "blank"
Header(line) == line.form \in {"def", "if"}
Opens(line) == Header(line) /\ line.colon

Code(lines) == {k \in DOMAIN lines : ~Blank(lines[k])}
Above(lines, k) == {j \in Code(lines) : j < k}

-----------------------------------------------------------------------------
(* compile(): the first error CPython reports, in a file whose last line   *)
(* is not blank.  header is the line its message names.                    *)

\* The indents of the blocks that are open when line k begins.
OpenLevels(lines, k) ==
    {0} \cup {lines[j].indent : j \in
        {i \in Above(lines, k) :
            \A m \in Above(lines, k) : m > i => lines[m].indent >= lines[i].indent}}

Fault(lines, k) ==
    LET first == Above(lines, k) = {}
        above == lines[Max(Above(lines, k))]
        level == IF first THEN 0 ELSE above.indent
        opened == ~first /\ Opens(above)
        here == lines[k]
    IN  IF here.indent < level /\ here.indent \notin OpenLevels(lines, k) THEN "unindent"
        ELSE IF opened /\ here.indent <= level THEN "block"
        ELSE IF ~opened /\ here.indent > level THEN "indent"
        ELSE IF Header(here) /\ ~here.colon THEN "colon"
        ELSE "none"

\* A return that no function is around.
Loose(lines, k) ==
    /\ lines[k].form = "return"
    /\ \A j \in Above(lines, k) :
           lines[j].form = "def" =>
               \E m \in Code(lines) : j < m /\ m <= k /\ lines[m].indent <= lines[j].indent

Error(msg, lineno, header) == [msg |-> msg, lineno |-> lineno, header |-> header]

Compile(lines) ==
    LET bad == {k \in Code(lines) : Fault(lines, k) # "none"}
        loose == {k \in Code(lines) : Loose(lines, k)}
        n == Len(lines)
    IN  IF bad # {}
        THEN LET k == Min(bad)
             IN  Error(Fault(lines, k), k, Max(Above(lines, k) \cup {0}))
        ELSE IF n > 0 /\ Opens(lines[n]) THEN Error("block", n, n)
        ELSE IF loose # {} THEN Error("return", Min(loose), 0)
        ELSE Error("none", 0, 0)

Compiles(lines) == Compile(lines).msg = "none"

-----------------------------------------------------------------------------
(* The fixes.  Each looks at the code and at its error and returns the set *)
(* of the fixes it offers, of which there is at most one.                  *)

Fix(line, end, fix, tier) ==
    {[line |-> line, end |-> end, fix |-> fix, has_fix |-> TRUE, tier |-> tier]}

MissingColonFix(lines, e) ==
    LET line == lines[e.lineno]
    IN  IF e.msg = "colon" /\ ~line.comment
        THEN Fix(e.lineno, 0, <<[line EXCEPT !.colon = TRUE]>>, "HIGH")
        ELSE {}

SearchWindow == 50

\* A sibling definition, or a line that leaves the block.
LooksLikeSpanBoundary(line) == line.form \in {"def", "return"}

\* The last line a reindent may take along, which is above the first of those
\* that stop the search.
MaxEndLine(lines, first, stops) ==
    LET window == {k \in DOMAIN lines : first < k /\ k <= first + SearchWindow}
        near == window \cap stops
    IN  IF near = {} THEN Max(window \cup {first}) ELSE Min(near) - 1

\* The lines from first to end, by so many levels deeper.
Reindent(lines, first, end, offset) ==
    [k \in DOMAIN lines |->
        IF k \in first .. end /\ ~Blank(lines[k])
        THEN [lines[k] EXCEPT !.indent = @ + offset]
        ELSE lines[k]]

\* Mutant of Confirmed: the parser is not asked.
ConfirmedUnchecked(lines, first, max_end, offset) ==
    {end \in first .. max_end :
        \A k \in first .. end : Reindent(lines, first, end, offset)[k].indent >= 0}

\* The last lines of the spans whose reindent makes the file compile.
Confirmed(lines, first, max_end, offset) ==
    {end \in first .. max_end :
        LET patched == Reindent(lines, first, end, offset)
        IN  (\A k \in first .. end : patched[k].indent >= 0) /\ Compiles(patched)}

\* Mutant of ReindentFix: the smallest of these spans, which leaves the rest of
\* the block where it is.
ReindentFixSmallest(lines, first, ends, offset) ==
    IF ends = {} THEN {}
    ELSE Fix(first, Min(ends), SubSeq(Reindent(lines, first, Min(ends), offset),
                                      first, Min(ends)), "MEDIUM")

\* The largest of these spans.
ReindentFix(lines, first, ends, offset) ==
    IF ends = {} THEN {}
    ELSE Fix(first, Max(ends), SubSeq(Reindent(lines, first, Max(ends), offset),
                                      first, Max(ends)), "MEDIUM")

\* Mutant of MissingIndentFix: the search does not stop where the enclosing
\* block ends.
MissingIndentFixBeyond(lines, e) ==
    LET first_indent == lines[e.lineno].indent
        offset == lines[e.header].indent + 1 - first_indent
        stops == {k \in Code(lines) :
                     lines[k].indent = first_indent /\ LooksLikeSpanBoundary(lines[k])}
    IN  IF e.msg = "block" /\ offset > 0
        THEN ReindentFix(lines, e.lineno,
                 Confirmed(lines, e.lineno, MaxEndLine(lines, e.lineno, stops), offset), offset)
        ELSE {}

MissingIndentFix(lines, e) ==
    LET first_indent == lines[e.lineno].indent
        header_indent == lines[e.header].indent
        offset == header_indent + 1 - first_indent
        stops == {k \in Code(lines) :
                     \/ lines[k].indent < header_indent
                     \/ lines[k].indent = first_indent /\ LooksLikeSpanBoundary(lines[k])}
    IN  IF e.msg = "block" /\ offset > 0
        THEN ReindentFix(lines, e.lineno,
                 Confirmed(lines, e.lineno, MaxEndLine(lines, e.lineno, stops), offset), offset)
        ELSE {}

\* The closest of some levels, the one further out if there are two.
Closest(levels, indent) ==
    LET Distance(level) == IF level < indent THEN indent - level ELSE level - indent
    IN  {a \in levels : \A b \in levels :
            Distance(a) < Distance(b) \/ (Distance(a) = Distance(b) /\ a <= b)}

\* The closest level, of the lines above or one deeper, that some span can be
\* moved to.
MisalignedIndentFix(lines, e) ==
    LET first_indent == lines[e.lineno].indent
        levels == {0, first_indent + 1} \cup {lines[k].indent : k \in Above(lines, e.lineno)}
        stops == {k \in Code(lines) :
                     lines[k].indent = first_indent /\ LooksLikeSpanBoundary(lines[k])}
        Ends(level) == Confirmed(lines, e.lineno, MaxEndLine(lines, e.lineno, stops),
                                 level - first_indent)
        work == {level \in levels \ {first_indent} : Ends(level) # {}}
    IN  IF e.msg \in {"indent", "unindent"}
        THEN UNION {ReindentFix(lines, e.lineno, Ends(target), target - first_indent) :
                      target \in Closest(work, first_indent)}
        ELSE {}

\* The run of deeper lines right above the error, moved out to its indent.
MisalignedIndentBackwardFix(lines, e) ==
    LET first_indent == lines[e.lineno].indent
        end == Max(Above(lines, e.lineno))
        block_indent == lines[end].indent
        begin == Min({b \in 1 .. end : \A k \in b .. end :
                         ~Blank(lines[k]) /\ lines[k].indent = block_indent})
        patched == Reindent(lines, begin, end, first_indent - block_indent)
    IN  IF /\ e.msg \in {"indent", "unindent"}
           /\ Above(lines, e.lineno) # {}
           /\ block_indent > first_indent
           /\ Compiles(patched)
        THEN Fix(begin, end, SubSeq(patched, begin, end), "MEDIUM")
        ELSE {}

NoFix(e) == {[line |-> e.lineno, end |-> 0, fix |-> << >>, has_fix |-> FALSE, tier |-> "MEDIUM"]}

FirstOf(offers) ==
    LET first == Min({i \in DOMAIN offers : offers[i] # {}})
    IN  CHOOSE f \in offers[first] : TRUE

\* The first that has something to offer.
SyntaxErrorFix(lines, e) ==
    FirstOf(<<MissingColonFix(lines, e), MissingIndentFix(lines, e),
              MisalignedIndentFix(lines, e), MisalignedIndentBackwardFix(lines, e), NoFix(e)>>)

-----------------------------------------------------------------------------

MaxSyntaxErrorsPerReview == 25

\* Mutant of Collect: it stops behind every finding.
CollectOne(sofar, round) ==
    LET e == Compile(sofar.lines)
    IN  IF sofar.done \/ e.msg = "none" THEN [sofar EXCEPT !.done = TRUE]
        ELSE [sofar EXCEPT !.findings = Append(@, SyntaxErrorFix(sofar.lines, e)), !.done = TRUE]

\* One round of the collector: only behind a missing colon it looks further.
Collect(sofar, round) ==
    LET e == Compile(sofar.lines)
        With(f) ==
            [findings |-> Append(sofar.findings, f),
             lines    |-> IF f.tier = "HIGH" THEN [sofar.lines EXCEPT ![e.lineno] = f.fix[1]]
                                             ELSE sofar.lines,
             done     |-> f.tier # "HIGH"]
    IN  IF sofar.done \/ e.msg = "none" THEN [sofar EXCEPT !.done = TRUE]
        ELSE With(SyntaxErrorFix(sofar.lines, e))

CollectSyntaxErrorFindings(lines) ==
    LET sofar[round \in 0 .. MaxSyntaxErrorsPerReview] ==
            IF round = 0 THEN [findings |-> << >>, lines |-> lines, done |-> FALSE]
            ELSE Collect(sofar[round - 1], round)
    IN  sofar[MaxSyntaxErrorsPerReview].findings

=============================================================================
