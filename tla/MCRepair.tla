------------------------------ MODULE MCRepair ------------------------------
(***************************************************************************)
(* Files that begin with a function and have up to four lines more.        *)
(***************************************************************************)
EXTENDS Repair

Line(indent, form, comment) ==
    [indent |-> indent, form |-> form, colon |-> form \in {"def", "if"}, comment |-> comment]

Pool ==
    {Line(indent, form, FALSE) : indent \in 0 .. 2, form \in {"stmt", "return", "if"}}
        \cup {Line(1, "def", FALSE), Line(1, "if", TRUE), Line(0, "blank", FALSE)}

\* A line more, where it does no harm.
Longer(files) ==
    files \cup {f \in {Append(f, line) : f \in files, line \in Pool} :
        /\ Cardinality(DOMAIN f \ Code(f)) <= 1
        /\ Blank(Last(f)) \/ Fault(f, Len(f)) = "none"}

MCFiles ==
    {f \in Longer(Longer(Longer(Longer({<<Line(0, "def", FALSE)>>})))) :
        ~Blank(Last(f)) /\ Compiles(f)}

=============================================================================
