------------------------------ MODULE Chunker -------------------------------
(***************************************************************************)
(* ingestion/chunker.py: how a Python file is cut into the chunks that are *)
(* embedded and searched.                                                  *)
(*                                                                         *)
(* A file is [parses, lines].  A line is [form, text]: "def" begins a      *)
(* function or a class at the top of the file, "body" goes on with it,     *)
(* "code" is any other line outside of them, and "blank" is blank.         *)
(***************************************************************************)
EXTENDS Integers, Sequences, SequencesExt, FiniteSetsExt

CONSTANTS WindowLines,    \* _WINDOW_LINES, 60 in the source
          WindowOverlap   \* _WINDOW_OVERLAP, 10 in the source

ASSUME WindowAssumption == WindowLines \in Nat \ {0} /\ WindowOverlap \in Nat

Chunk(file, start, end, text, type) ==
    [file |-> file, start |-> start, end |-> end, text |-> text, type |-> type]

\* str.strip(), with what is left of a text that is all blank: nothing.
Strip(lines) ==
    LET said == {k \in DOMAIN lines : lines[k].form # "blank"}
    IN  IF said = {} THEN << >> ELSE SubSeq(lines, Min(said), Max(said))

Between(lines, start, end) == SubSeq(lines, start, end)

\* node.lineno .. node.end_lineno of the functions and classes of the module.
Nodes(lines) ==
    {r \in (DOMAIN lines) \X (DOMAIN lines) :
        /\ lines[r[1]].form = "def" /\ r[1] <= r[2]
        /\ \A k \in r[1] + 1 .. r[2] : lines[k].form = "body"
        /\ r[2] + 1 \in DOMAIN lines => lines[r[2] + 1].form # "body"}

Covered(lines) == UNION {r[1] .. r[2] : r \in Nodes(lines)}

\* Mutant of UncoveredRanges: what is behind the last function is forgotten.
UncoveredBefore(lines) ==
    LET free == DOMAIN lines \ Covered(lines)
    IN  {r \in free \X free :
            /\ r[1] .. r[2] \subseteq free /\ r[1] <= r[2]
            /\ r[1] - 1 \notin free /\ r[2] + 1 \in Covered(lines)}

\* The longest stretches of lines that no function or class has.
UncoveredRanges(lines) ==
    LET free == DOMAIN lines \ Covered(lines)
    IN  {r \in free \X free :
            /\ r[1] .. r[2] \subseteq free /\ r[1] <= r[2]
            /\ r[1] - 1 \notin free /\ r[2] + 1 \notin free}

ChunkPythonAst(file, lines) ==
    {Chunk(file, r[1], r[2], Between(lines, r[1], r[2]), "node") : r \in Nodes(lines)}
        \cup {Chunk(file, r[1], r[2], Strip(Between(lines, r[1], r[2])), "module") :
                r \in {u \in UncoveredRanges(lines) : Strip(Between(lines, u[1], u[2])) # << >>}}

\* The window behind the first i lines.
Window(lines, i) == Between(lines, i + 1, Min({i + WindowLines, Len(lines)}))
WindowChunk(file, lines, i) ==
    Chunk(file, i + 1, i + Len(Window(lines, i)), Strip(Window(lines, i)), "window")

ChunkByWindow(file, lines) ==
    LET step == Max({1, WindowLines - WindowOverlap})
        starts == {i \in 0 .. Len(lines) - 1 : i % step = 0 /\ Strip(Window(lines, i)) # << >>}
    IN  {WindowChunk(file, lines, i) : i \in starts}

ChunkFile(file, content) ==
    IF Strip(content.lines) = << >> THEN {}
    ELSE IF content.parses THEN ChunkPythonAst(file, content.lines)
    ELSE ChunkByWindow(file, content.lines)

=============================================================================
