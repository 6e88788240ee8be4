----------------------------- MODULE MCAutoFix ------------------------------
(***************************************************************************)
(* Files of up to three statements from a pool.  p is a list, q a dict, r  *)
(* a number or a path.                                                     *)
(***************************************************************************)
EXTENDS AutoFix

\* The pieces bodies are made of.
Simple(does) == <<Line(1, "stmt", does)>>
Long(does) == <<Line(1, "open", does), Line(1, "close", Does("none", "none", 0, "none"))>>
Block(form, head, does) == <<Line(1, form, head), Line(2, "stmt", does)>>
Try(does, exc) ==
    <<Line(1, "try", Does("none", "none", 0, "none")), Line(2, "stmt", does),
      Line(1, "except", Does("none", "none", 0, exc)), Line(2, "stmt", Does("return", "none", 0, "none"))>>

Average == Does("divlen", "p", 0, "none")
Ratio == Does("div", "r", 0, "none")
Read == Does("open", "r", 0, "none")
Ask == Does("key", "q", 0, "none")
Get == Does("get", "x", 0, "q")
Attr == Does("attr", "x", 0, "none")
Json == Does("json", "j", 0, "none")
AskJson == Does("key", "j", 0, "none")
Call == Does("call", "u", 0, "http_timeout")
Load == Does("call", "u", 0, "unsafe_yaml")
Zero == Does("set", "c", 0, "number")
Clear == Does("set", "r", 0, "number")
One == Does("set", "c", 1, "number")
Grow == Does("grow", "c", 0, "number")
Share == Does("div", "c", 0, "none")

Pool == {Simple(Average), Block("with", Average, Ratio), Simple(Ratio), Long(Ratio),
         Block("with", Read, Ask), Long(Read), Simple(Ask), Simple(Get), Long(Get), Simple(Attr),
         Simple(Json), Long(Json), Simple(AskJson), Simple(Call), Simple(Load), Block("with", Call, Ask),
         Block("if", Test("v", "p", 0), Average), Block("if", Test("in", "q", 0), Attr),
         Block("if", Test("len >", "p", 0), Json),
         Try(Ask, "KeyError"), Try(Ratio, "ValueError"),
         Simple(Zero), Simple(Clear), Simple(One), Simple(Grow), Simple(Share),
         Simple(Does("return", "none", 0, "none"))}

DefLine == <<Line(0, "def", Does("def", "none", 0, "none"))>>
FilesOf(pool) ==
    {DefLine \o FlattenSeq(body) : body \in UNION {[1 .. n -> pool] : n \in 1 .. 3}}

MCFiles == FilesOf(Pool)

MCParams == {"p", "q", "r"}
MCInputs == [MCParams \cup {"json"} -> 0 .. 1]

=============================================================================
