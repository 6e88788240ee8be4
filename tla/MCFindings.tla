----------------------------- MODULE MCFindings -----------------------------
(***************************************************************************)
(* Two agents with a category in common and short files, some of which     *)
(* have phrases that are neutralized and code fences.                      *)
(***************************************************************************)
EXTENDS Findings, TLC

MCFiles == {
    << <<"x", "y">>, <<"z">> >>,
    << <<"ignore">>, <<"ignore", "x">>, <<"ignore">>, <<"x">>, <<"y", "x">> >>,
    << << >>, <<"x">>, << >>, <<"z", "ignore">>, <<"y">> >>,
    << <<"fence", "x">>, <<"y">>, <<"z">>, <<"quotes", "x">> >>,
    << << >>, << >> >> }
MCWords == {"x", "y", "z", "ignore", "fence", "quotes"}
MCCategories == <<{"runtime", "logic"}, {"security", "logic"}>>
MCCaps == <<"critical", "warning">>

Raw(line, category, severity, message, bad_code, fix) ==
    [line |-> line, category |-> category, severity |-> severity, message |-> message,
     bad_code |-> bad_code, fix |-> fix]

\* Quotes of a line of the prompt, of a part of one, of none, of another file.
Quoted(prompt) == {prompt[n] : n \in DOMAIN prompt} \cup {<<"x">>, << >>, <<"w">>}

\* Findings of all lines, and of one line in all other respects.
OfLines(prompt) ==
    {Raw(line, category, "critical", TRUE, bad_code, "parses") :
        line \in 0 .. Len(prompt) + 3, category \in {"logic", "security"},
        bad_code \in Quoted(prompt)}
OfOneLine ==
    {Raw(2, category, of[1], TRUE, <<"x">>, of[2]) :
        category \in {"runtime", "logic", "security"},
        of \in {<<"critical", "parses">>, <<"urgent", "parses">>, <<"critical", "broken">>}}
Otherwise == {Raw(2, "style", "info", TRUE, << >>, ""), Raw(1, "logic", "info", FALSE, << >>, "")}

One(f) == [shape |-> "findings", findings |-> <<f>>]
Two(f, g) == [shape |-> "findings", findings |-> <<f, g>>]
Nothing(shape) == [shape |-> shape, findings |-> << >>]

\* Models whose answers are looked at for each line, and with each other.
MCAnswers(prompt) ==
    {One(f) : f \in OfLines(prompt) \cup Otherwise}
        \cup {Two(f, g) : f, g \in OfOneLine}
        \cup {Nothing(shape) : shape \in {"findings", "object", "list", "text"}}

=============================================================================
