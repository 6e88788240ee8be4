------------------------------ MODULE Checkers ------------------------------
(***************************************************************************)
(* The checkers of src/analyzers that offer a fix for a failing access,    *)
(* and the registry that keeps the fixes which parse.  A finding is        *)
(* [line, end, fix, has_fix, source, var, raises, certain]: raises is the  *)
(* exception its fix raises, certain is what its severity CRITICAL and its *)
(* message "guaranteed" say.                                               *)
(***************************************************************************)
EXTENDS PyFile

Finding(line, end, fix, source, var, raises, certain) ==
    [line |-> line, end |-> end, fix |-> fix, has_fix |-> TRUE, source |-> source,
     var |-> var, raises |-> raises, certain |-> certain]

Raise(indent, exc) == Line(indent, "stmt", Does("raise", "none", 0, exc))

\* The lines that do one of the acts to the variable.
Sites(file, acts, v) ==
    {k \in DOMAIN file : file[k].does.act \in acts /\ file[k].does.var = v}

Tested(file, acts, v) == \E k \in Sites(file, acts, v) : file[k].form = "if"

\* exception_names() of the handlers: a try anywhere in the function counts.
Handled(file, excs) ==
    \E k \in DOMAIN file : file[k].form = "except" /\ file[k].does.of \in excs

\* The guard that a fix puts into the file.
Guard(indent, test, exc) == <<Line(indent, "if", test), Raise(indent + 1, exc)>>

\* The last line of the statement that starts at line k.
StmtEnd(file, k) ==
    IF file[k].form = "open" THEN k + 1
    ELSE IF file[k].form \notin Heads THEN k
    ELSE Max({j \in k .. Len(file) :
                \A m \in k + 1 .. j : file[m].indent > file[k].indent})

-----------------------------------------------------------------------------
(* Literals: [..][n], t / 0, {..}["key"], int("..")                        *)

\* Only plain assignments to the name are looked at.
Assigned(file, v) == Sites(file, {"set", "get", "json"}, v)

\* Mutant: an assignment of the literal is enough, others may follow.
TrackedAnyway(file, kind) ==
    {file[k].does.var : k \in {j \in DOMAIN file : /\ file[j].does.act = "set"
                                                  /\ file[j].does.of = kind}}

\* The names assigned exactly once anywhere, and then a literal of this kind.
Tracked(file, kind) ==
    {v \in {file[k].does.var : k \in DOMAIN file} :
        \E k \in DOMAIN file : /\ Assigned(file, v) = {k}
                               /\ file[k].does.act = "set" /\ file[k].does.of = kind}

Literal(file, v) == file[CHOOSE k \in Assigned(file, v) : TRUE].does.n

\* What an access fails on is a literal of this kind.
Kind == [index |-> "list", div |-> "number", key |-> "dict", int |-> "string"]

\* Storing a key is a subscript too, and counts as an access.
AccessSites(file, shape) ==
    {k \in DOMAIN file :
        \/ file[k].does.act = shape
        \/ shape = "key" /\ file[k].does.act = "grow" /\ file[k].does.of = "dict"}

LiteralFindings(file, shape) ==
    {Finding(k, 0, <<Raise(file[k].indent, Raises[shape]), file[k]>>,
             shape, file[k].does.var, Raises[shape], TRUE) :
        k \in {j \in AccessSites(file, shape) :
                 /\ file[j].does.var \in Tracked(file, Kind[shape])
                 /\ file[j].does.n >= Literal(file, file[j].does.var)}}

LiteralOutOfBounds(file) == LiteralFindings(file, "index")
LiteralZeroDivision(file) == LiteralFindings(file, "div")
MissingKey(file) == LiteralFindings(file, "key")
GuaranteedValueErrors(file) == LiteralFindings(file, "int")

-----------------------------------------------------------------------------
(* index_guard_checker                                                     *)

LenGuardCovers(file, v, n) ==
    \/ \E k \in Sites(file, {"len >"}, v) : file[k].does.n >= n
    \/ Tested(file, {"v"}, v)
    \/ Handled(file, {"IndexError", "Exception"})

UnguardedIndex(file) ==
    {Finding(1, 0,
             <<file[1]>> \o Guard(file[1].indent + 1, Test("len <=", found[1], found[2]),
                                  "IndexError"),
             "index", found[1], "IndexError", FALSE) :
        found \in {<<v, Max({file[k].does.n : k \in Sites(file, {"index"}, v)})>> :
                     v \in {u \in Params : \E k \in Sites(file, {"index"}, u) :
                                ~LenGuardCovers(file, u, file[k].does.n)}}}

-----------------------------------------------------------------------------
(* division_guard_checker                                                  *)

DivisionGuarded(file, v, shape) ==
    \/ Tested(file, {"==", ">", "v", "not v"}, v)
    \/ shape = "divlen" /\ Tested(file, {"len ==", "len >"}, v)
    \/ Handled(file, {"ZeroDivisionError", "Exception"})

UnguardedDivision(file) ==
    {Finding(k, 0,
             Guard(file[k].indent,
                   Test(IF file[k].does.act = "divlen" THEN "len ==" ELSE "==",
                        file[k].does.var, 0), "ZeroDivisionError") \o <<file[k]>>,
             "div", file[k].does.var, "ZeroDivisionError", FALSE) :
        k \in {j \in DOMAIN file :
                 /\ file[j].does.act \in {"div", "divlen"} /\ file[j].does.var \in Params
                 /\ ~DivisionGuarded(file, file[j].does.var, file[j].does.act)}}

-----------------------------------------------------------------------------
(* dict_key_checker.  A dict is asked for one key.                         *)

\* Mutant: "not in", which the checker's own guard says, is not looked for.
KeyGuardedByIn(file, v) ==
    \/ Sites(file, {"in"}, v) # {}
    \/ \E k \in DOMAIN file : file[k].does.act = "get" /\ file[k].does.of = v
    \/ Handled(file, {"KeyError", "Exception"})

KeyGuarded(file, v) ==
    \/ Sites(file, {"in", "not in"}, v) # {}
    \/ \E k \in DOMAIN file : file[k].does.act = "get" /\ file[k].does.of = v
    \/ Handled(file, {"KeyError", "Exception"})

KeySites(file, v) == {k \in AccessSites(file, "key") : file[k].does.var = v}

\* A parameter is guarded behind the def line, the local of a response behind
\* the assignment that ast.walk() meets last.
KeyAnchor(file, v) ==
    IF v \in Params THEN 1
    ELSE LET sites == Sites(file, {"json"}, v)
             deep == Max({file[k].indent : k \in sites})
         IN  Max({k \in sites : file[k].indent = deep})

RiskyDicts(file) ==
    {v \in Params \cup {file[k].does.var : k \in DOMAIN file} :
        v \in Params \/ Sites(file, {"json"}, v) # {}}

UnguardedKey(file) ==
    {LET start == KeyAnchor(file, v)
         end == IF v \in Params THEN 1 ELSE StmtEnd(file, start)
         indent == file[start].indent + (IF v \in Params THEN 1 ELSE 0)
     IN  Finding(start, IF end > start THEN end ELSE 0,
                 SubSeq(file, start, end) \o Guard(indent, Test("not in", v, 0), "KeyError"),
                 "key", v, "KeyError", FALSE) :
        v \in {u \in RiskyDicts(file) : KeySites(file, u) # {} /\ ~KeyGuarded(file, u)}}

-----------------------------------------------------------------------------
(* none_attribute_checker: assignments of the function's own block only    *)

AttrAccessExists(file, v) ==
    \/ Sites(file, {"attr"}, v) # {}
    \/ \E k \in DOMAIN file : file[k].does.act = "get" /\ file[k].does.of = v
    \/ \E k \in Sites(file, {"grow"}, v) : file[k].does.of = "list"

NoneGuarded(file, v) ==
    \/ Tested(file, {"v", "is None", "is not None"}, v)
    \/ Handled(file, {"AttributeError", "Exception"})

UnguardedNone(file) ==
    {Finding(k, 0,
             <<file[k]>> \o Guard(file[k].indent, Test("is None", file[k].does.var, 0),
                                  "AttributeError"),
             "attr", file[k].does.var, "AttributeError", FALSE) :
        k \in {j \in DOMAIN file :
                 /\ file[j].does.act = "get" /\ file[j].indent = file[1].indent + 1
                 /\ AttrAccessExists(file, file[j].does.var)
                 /\ ~NoneGuarded(file, file[j].does.var)}}

-----------------------------------------------------------------------------
(* file_exists_checker                                                     *)

OpenGuarded(file, v) ==
    \/ Sites(file, {"exists"}, v) # {}
    \/ Handled(file, {"FileNotFoundError", "OSError", "Exception"})

Deeper(lines) == [k \in DOMAIN lines |-> [lines[k] EXCEPT !.indent = @ + 1]]

\* Mutant: the handler does not raise again.
WrappedQuietly(file, k) ==
    <<Line(file[k].indent, "try", Does("none", "none", 0, "none"))>>
        \o Deeper(SubSeq(file, k, StmtEnd(file, k)))
        \o <<Line(file[k].indent, "except", Does("none", "none", 0, "FileNotFoundError")),
             Line(file[k].indent + 1, "stmt", Does("none", "none", 0, "none"))>>

\* The statement and the block it may have are wrapped.
Wrapped(file, k) ==
    <<Line(file[k].indent, "try", Does("none", "none", 0, "none"))>>
        \o Deeper(SubSeq(file, k, StmtEnd(file, k)))
        \o <<Line(file[k].indent, "except", Does("none", "none", 0, "FileNotFoundError")),
             Raise(file[k].indent + 1, "FileNotFoundError")>>

UnguardedOpen(file) ==
    {Finding(k, StmtEnd(file, k), Wrapped(file, k), "open", file[k].does.var,
             "FileNotFoundError", FALSE) :
        k \in {j \in DOMAIN file : /\ file[j].does.act = "open"
                                   /\ ~OpenGuarded(file, file[j].does.var)}}

-----------------------------------------------------------------------------
(* http_timeout_checker, weak_crypto_checker, unsafe_yaml_checker and      *)
(* insecure_http_checker: the whole enclosing statement is printed from    *)
(* its syntax tree, for the one line of the call.  Only the first printed  *)
(* line gets the indentation of the original.                              *)

Joined(lines) ==
    LET upto[k \in 0 .. Len(lines)] ==
            IF k = 0 THEN << >>
            ELSE IF lines[k].form = "close" THEN upto[k - 1]
            ELSE Append(upto[k - 1], IF lines[k].form = "open"
                                     THEN [lines[k] EXCEPT !.form = "stmt"] ELSE lines[k])
    IN  upto[Len(lines)]

Unparsed(file, k) ==
    LET stmt == Joined(SubSeq(file, k, StmtEnd(file, k)))
    IN  [j \in DOMAIN stmt |->
            IF j = 1 THEN [stmt[1] EXCEPT !.does.act = "safe call"]
            ELSE [stmt[j] EXCEPT !.indent = @ - file[k].indent]]

\* The calls one of these checkers is about: it is its name that they are "of".
UnsafeCalls(file, checker) ==
    {Finding(k, 0, Unparsed(file, k), checker, file[k].does.var, "none", FALSE) :
        k \in {j \in DOMAIN file :
                 file[j].does.act = "call" /\ file[j].does.of = checker}}

UnguardedHttpCalls(file) == UnsafeCalls(file, "http_timeout")
WeakCrypto(file) == UnsafeCalls(file, "weak_crypto")
UnsafeYamlLoad(file) == UnsafeCalls(file, "unsafe_yaml")
InsecureHttpUrls(file) == UnsafeCalls(file, "insecure_http")

-----------------------------------------------------------------------------
(* The registry                                                            *)

\* Mutant: fixes made from the syntax tree are trusted to parse.
IsValidFixAlways(fix) == TRUE

\* is_valid_fix(): a fix that starts indented is put under an "if True:".
IsValidFix(fix) ==
    Parses(IF fix[1].indent > 0
           THEN <<Line(0, "if", Test("v", "True", 0))>> \o fix ELSE fix)

FromCheckers(file) ==
    UNION {MissingKey(file), UnguardedKey(file), LiteralZeroDivision(file),
           UnguardedDivision(file), UnguardedOpen(file), UnguardedHttpCalls(file),
           UnsafeYamlLoad(file), InsecureHttpUrls(file), LiteralOutOfBounds(file),
           UnguardedIndex(file), UnguardedNone(file), WeakCrypto(file),
           GuaranteedValueErrors(file)}

\* A checker finds nothing in a file that does not parse.
RunDeterministicCheckers(file) ==
    IF Parses(file) THEN {f \in FromCheckers(file) : IsValidFix(f.fix)} ELSE {}

=============================================================================
