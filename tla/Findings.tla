------------------------------ MODULE Findings ------------------------------
(***************************************************************************)
(* What becomes of what a model says about a file: the agents ask one      *)
(* after the other (agents/coordinator.py), an answer is validated         *)
(* (agents/_llm_finding_agent.py) and compared with the file               *)
(* (core/grounding.py), and the review reports what is left.               *)
(*                                                                         *)
(* A line is a sequence of words.  A raw finding is a record whose line is *)
(* 0 if there is no number in it; its fix is "", "parses" or "broken".     *)
(* The findings of the deterministic checkers, which the review reports as *)
(* well, have no part in any of this.                                      *)
(***************************************************************************)
EXTENDS Integers, Sequences, FiniteSets

CONSTANTS
    Files,         \* the files under review
    Words,         \* the words of their lines
    Injections,    \* those that _INJECTION_PATTERNS match
    Neutralized,   \* what they are replaced by
    Fences,        \* those with a code fence, three backticks, in them
    Quotes,        \* what they become: three single quotes
    Agents,        \* how many agents there are; the first is llm_supplement
    Categories,    \* _VALID_CATEGORIES of each
    Caps,          \* the highest severity that each may report
    Answers(_),    \* what a model may answer to a prompt
    None

ASSUME AgentsAssumption == Agents \in Nat \ {0}
ASSUME FilesAssumption == \A file \in Files : file \in Seq(Seq(Words))

Severities == {"critical", "warning", "info"}
Rank == [info |-> 1, warning |-> 2, critical |-> 3]
AllCategories == UNION {Categories[i] : i \in 1 .. Agents}

ASSUME CapsAssumption == Caps \in [1 .. Agents -> Severities]

VARIABLES
    code,     \* the file under review
    multi,    \* use_multi_agent
    raw,      \* history: what each agent's model has answered
    heard,    \* agent_results: what each of them has made of it
    result    \* the findings and the status of the review
vars == <<code, multi, raw, heard, result>>

-----------------------------------------------------------------------------
(* The prompt.                                                             *)

\* Mutant of SanitizeForPrompt: a line that has to be neutralized is left out.
SanitizeDropping(lines) ==
    SelectSeq(lines, LAMBDA line : \A k \in DOMAIN line : line[k] \notin Injections)

SanitizeWord(word) ==
    IF word \in Injections THEN Neutralized ELSE IF word \in Fences THEN Quotes ELSE word
SanitizeLine(line) == [k \in DOMAIN line |-> SanitizeWord(line[k])]

\* Every line stays a line.
SanitizeForPrompt(lines) == [n \in DOMAIN lines |-> SanitizeLine(lines[n])]

-----------------------------------------------------------------------------
(* The answer: [shape, findings], where only the shape "findings" has any. *)

IsSeq(s) == s \in Seq({s[i] : i \in DOMAIN s})

ASSUME AnswersAssumption ==
    \A file \in Files : \A answer \in Answers(SanitizeForPrompt(file)) :
        /\ IsSeq(answer.findings)
        /\ \A k \in DOMAIN answer.findings : answer.findings[k].line \in Nat

ParsedOk(answer) == answer.shape \in {"findings", "object"}

\* Mutant of Valid: the category is only required to be somebody's.
ValidAnywhere(f, i) == f.line >= 1 /\ f.category \in AllCategories /\ f.message

Valid(f, i) == f.line >= 1 /\ f.category \in Categories[i] /\ f.message

\* _cap_at_warning() and _cap_at_info() of two of the agents.
Capped(severity, i) == IF Rank[severity] > Rank[Caps[i]] THEN Caps[i] ELSE severity

ToFinding(f, i) ==
    [line |-> f.line, category |-> f.category,
     severity |-> Capped(IF f.severity \in Severities THEN f.severity ELSE "warning", i),
     bad_code |-> f.bad_code, fix |-> f.fix]

\* What is left of the list keeps its places in it.
ToFindings(answer, i) ==
    LET raws == answer.findings
    IN  [k \in {j \in DOMAIN raws : Valid(raws[j], i)} |-> ToFinding(raws[k], i)]

-----------------------------------------------------------------------------
(* The trust layer.                                                        *)

Window == 2

Within(words, line) ==
    \E k \in 0 .. Len(line) - Len(words) : SubSeq(line, k + 1, k + Len(words)) = words

IsGrounded(f, lines) ==
    \/ f.bad_code = << >>
    \/ \E n \in DOMAIN lines :
          /\ f.line - Window <= n /\ n <= f.line + Window
          /\ Within(f.bad_code, lines[n])

IsTrustworthy(f, lines) == IsGrounded(f, lines) /\ f.fix # "broken"

-----------------------------------------------------------------------------
(* The merge.  <<i, k>> stands for the k-th finding of the i-th agent.     *)

At(results, p) == results[p[1]].findings[p[2]]
Key(f) == <<f.line, f.category>>

\* What the agents have found that can be trusted.
Trusted(results, lines) ==
    {p \in UNION {{i} \X DOMAIN results[i].findings : i \in DOMAIN results} :
        IsTrustworthy(At(results, p), lines)}

Before(p, q) == p[1] < q[1] \/ (p[1] = q[1] /\ p[2] < q[2])

Dedupe(results, found) ==
    {p \in found : \A q \in found : Before(q, p) => Key(At(results, q)) # Key(At(results, p))}

-----------------------------------------------------------------------------

Asked == IF multi THEN 1 .. Agents ELSE {1}
NextAgent == Len(heard) + 1

Init ==
    /\ code \in Files
    /\ multi \in BOOLEAN
    /\ raw = << >> /\ heard = << >>
    /\ result = None

Hear(answer, findings, succeeded) ==
    /\ raw' = Append(raw, answer)
    /\ heard' = Append(heard, [findings |-> findings, succeeded |-> succeeded])
    /\ UNCHANGED <<code, multi, result>>

\* There is nothing to ask about a blank file.
SkipBlank ==
    /\ result = None /\ NextAgent \in Asked
    /\ \A n \in DOMAIN code : code[n] = << >>
    /\ Hear(None, << >>, TRUE)

CallFails ==
    /\ result = None /\ NextAgent \in Asked
    /\ \E n \in DOMAIN code : code[n] # << >>
    /\ Hear(None, << >>, FALSE)

Answer ==
    /\ result = None /\ NextAgent \in Asked
    /\ \E n \in DOMAIN code : code[n] # << >>
    /\ \E answer \in Answers(SanitizeForPrompt(code)) :
          Hear(answer, ToFindings(answer, NextAgent), ParsedOk(answer))

\* review_code(): the findings of several agents are merged, those of one are
\* reported as they come.
Report ==
    /\ result = None /\ NextAgent \notin Asked
    /\ LET found == Trusted(heard, code)
       IN  result' = [findings |-> IF multi THEN Dedupe(heard, found) ELSE found,
                      status   |-> IF \A i \in DOMAIN heard : heard[i].succeeded
                                   THEN "completed" ELSE "degraded"]
    /\ UNCHANGED <<code, multi, raw, heard>>

Next == SkipBlank \/ CallFails \/ Answer \/ Report

Spec == Init /\ [][Next]_vars

-----------------------------------------------------------------------------

\* What the i-th agent may report.
WellFormed(f, i) ==
    /\ f.line >= 1 /\ f.category \in Categories[i]
    /\ f.severity \in Severities /\ Rank[f.severity] <= Rank[Caps[i]]

TypeOK ==
    /\ code \in Files /\ multi \in BOOLEAN
    /\ Len(heard) <= Agents
    /\ \A i \in DOMAIN heard : \A k \in DOMAIN heard[i].findings :
          WellFormed(heard[i].findings[k], i)
    /\ result # None => result.findings \subseteq Trusted(heard, code)

\* "Keep the first (agent-priority-ordered) finding per (line, category) pair":
\* the agents are heard one after the other and share one list, and may have
\* categories in common.  No line is reported twice in one category, and what any
\* of the agents have found in a category is reported, with the others, as it
\* would be without them, unless one who is heard before them may report that
\* category too.  In particular a finding that blocks the merge is not lost to
\* an agent that has no say in its category, or that comes later.
OfCategory(found, c) == {p \in found : At(heard, p).category = c}

FirstHeardPrevails ==
    result # None /\ multi =>
        /\ \A p, q \in result.findings : Key(At(heard, p)) = Key(At(heard, q)) => p = q
        /\ \A some \in SUBSET (DOMAIN heard), c \in AllCategories :
              LET theirs == {p \in Trusted(heard, code) : p[1] \in some}
              IN  (\A i \in some, j \in DOMAIN heard \ some : j < i => c \notin Categories[j])
                  => OfCategory(Dedupe(heard, theirs), c) =
                         {p \in OfCategory(result.findings, c) : p[1] \in some}

\* "Line-numbered findings the model returns ... can still be checked against
\* real line numbers": what a model quotes from its prompt within a line or two
\* of where it found it, and says as it was asked to, is reported itself, or an
\* earlier finding of the same line and category is.  This takes a quote like
\* which no line reads that was rewritten for the prompt: one in which a phrase
\* was neutralized or a code fence became quotes is not found in the file, and
\* what was honestly said about it is dropped.
Rewritten(line) == SanitizeLine(line) # line

Honest(f, i, prompt) ==
    /\ f.line >= 1 /\ f.category \in Categories[i] /\ f.message /\ f.fix # "broken"
    /\ \E n \in DOMAIN prompt : n - 2 <= f.line /\ f.line <= n + 2 /\ f.bad_code = prompt[n]
    /\ \A n \in DOMAIN code : Rewritten(code[n]) => f.bad_code # SanitizeLine(code[n])

HonestIsReported ==
    result # None =>
        \A i \in {j \in DOMAIN raw : raw[j] # None} : \A k \in DOMAIN raw[i].findings :
            Honest(raw[i].findings[k], i, SanitizeForPrompt(code)) =>
                \/ <<i, k>> \in result.findings
                \/ multi /\ \E q \in result.findings :
                       /\ Before(q, <<i, k>>)
                       /\ Key(At(heard, q)) = Key(raw[i].findings[k])

-----------------------------------------------------------------------------
(* Why these are invariants.                                               *)

Merged ==
    result # None =>
        result.findings = LET found == Trusted(heard, code)
                          IN  IF multi THEN Dedupe(heard, found) ELSE found

InTurn == IsSeq(heard)

\* What an agent is heard with is what its model has answered.
Recorded ==
    /\ IsSeq(raw) /\ Len(raw) = Len(heard)
    /\ \A i \in DOMAIN raw :
          \/ raw[i] = None /\ heard[i].findings = << >>
          \/ /\ raw[i] \in Answers(SanitizeForPrompt(code))
             /\ heard[i].findings = ToFindings(raw[i], i)

IInv == TypeOK /\ Merged /\ InTurn /\ Recorded

=============================================================================
