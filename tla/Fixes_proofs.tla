---------------------------- MODULE Fixes_proofs -----------------------------
(***************************************************************************)
(* Proofs about the fixes on offer, for files of any length and any order  *)
(* in which the fixes get in: those of the syntax errors in Repair, for    *)
(* any mistakes, and those of the deterministic checkers in AutoFix.       *)
(***************************************************************************)
EXTENDS Repair, AutoFix, ApplyFixes_proofs

-----------------------------------------------------------------------------
(* Numbers and sequences.                                                  *)

\* The least and the greatest of some numbers.
LEMMA MinIs ==
    ASSUME NEW S, S \subseteq Nat, S # {}
    PROVE  Min(S) \in S /\ \A n \in S : Min(S) <= n
<1>1. \E m \in S : \A n \in S : m =< n
  BY LeastNumber
<1>2. QED
  BY <1>1 DEF Min

\* ... which are found by their property.
LEMMA MinOf ==
    ASSUME NEW S, S \subseteq Nat, NEW k \in S, \A n \in S : k <= n
    PROVE  Min(S) = k
<1>1. Min(S) \in S /\ Min(S) <= k /\ k <= Min(S)
  BY MinIs
<1>2. Min(S) \in Nat /\ k \in Nat
  BY <1>1
<1> DEFINE m == Min(S)
<1> HIDE DEF m
<1>3. m = k
  BY <1>1, <1>2 DEF m
<1>4. QED
  BY <1>3 DEF m

LEMMA MaxIs ==
    ASSUME NEW N \in Nat, NEW S, S \subseteq 0 .. N, S # {}
    PROVE  Max(S) \in S /\ \A n \in S : n <= Max(S)
<1> DEFINE T == {N - n : n \in S}
<1>1. T \subseteq Nat /\ T # {}
  OBVIOUS
<1>2. PICK t \in T : \A u \in T : t <= u
  <2> HIDE DEF T
  <2>1. QED
    BY <1>1, LeastNumber
<1>3. PICK m \in S : t = N - m
  BY <1>2
<1>4. ASSUME NEW n \in S PROVE m >= n
  <2>1. N - n \in T /\ m \in 0 .. N /\ n \in 0 .. N
    OBVIOUS
  <2>2. N - m <= N - n
    BY <1>2, <1>3, <2>1
  <2>3. QED
    BY <2>1, <2>2
<1>5. Max(S) \in S /\ \A n \in S : Max(S) >= n
  BY <1>3, <1>4 DEF Max
<1>6. QED
  <2>1. \A n \in S : n \in Int
    OBVIOUS
  <2>2. QED
    BY <1>5, <2>1

\* A sequence is one of what its elements are.
LEMMA MadeOf ==
    ASSUME NEW S, NEW T, NEW s \in Seq(S), \A k \in 1 .. Len(s) : s[k] \in T
    PROVE  s \in Seq(T)
<1>1. Len(s) \in Nat /\ s = [k \in 1 .. Len(s) |-> s[k]]
  OBVIOUS
<1> DEFINE n == Len(s)
<1> HIDE DEF n
<1>2. n \in Nat /\ s \in [1 .. n -> T]
  BY <1>1 DEF n
<1>3. QED
  BY <1>2, SeqDef

\* The parts of a line.
LEMMA LineIs ==
    ASSUME NEW lines \in Seq(Lines), NEW k \in DOMAIN lines
    PROVE  /\ lines[k] \in Lines /\ lines[k].indent \in Nat
           /\ lines[k].colon \in BOOLEAN /\ lines[k].comment \in BOOLEAN
<1>1. lines[k] \in Lines
  OBVIOUS
<1>2. QED
  BY <1>1 DEF Lines

\* Lines that have them in common are one.
LEMMA SameLine ==
    ASSUME NEW x \in Lines, NEW y \in Lines, x.indent = y.indent, x.form = y.form,
           x.colon = y.colon, x.comment = y.comment
    PROVE  x = y
<1>1. /\ x = [indent |-> x.indent, form |-> x.form, colon |-> x.colon, comment |-> x.comment]
      /\ y = [indent |-> y.indent, form |-> y.form, colon |-> y.colon, comment |-> y.comment]
  BY DEF Lines
<1>2. QED
  BY <1>1

-----------------------------------------------------------------------------
(* The first error of a file.                                              *)

\* Of the lines above one.
LEMMA AboveIs ==
    ASSUME NEW lines \in Seq(Lines), NEW k \in DOMAIN lines, Above(lines, k) # {}
    PROVE  /\ Max(Above(lines, k)) \in Above(lines, k)
           /\ Max(Above(lines, k)) \in Code(lines) /\ Max(Above(lines, k)) < k
           /\ \A j \in Above(lines, k) : j <= Max(Above(lines, k))
<1>1. Len(lines) \in Nat /\ DOMAIN lines = 1 .. Len(lines)
  OBVIOUS
<1>2. Above(lines, k) \subseteq 0 .. Len(lines)
  BY <1>1 DEF Above, Code
<1>3. Max(Above(lines, k)) \in Above(lines, k)
      /\ \A j \in Above(lines, k) : j <= Max(Above(lines, k))
  BY <1>1, <1>2, MaxIs
<1>4. QED
  BY <1>3 DEF Above

\* What is wrong with a line, case by case.
LEMMA FaultIs ==
    ASSUME NEW lines \in Seq(Lines), NEW k \in Code(lines)
    PROVE  /\ Fault(lines, k) \in {"none", "unindent", "block", "indent", "colon"}
           /\ Fault(lines, k) = "block" =>
                  Above(lines, k) # {} /\ Opens(lines[Max(Above(lines, k))])
           /\ Fault(lines, k) = "colon" => Header(lines[k]) /\ ~lines[k].colon
           /\ Fault(lines, k) = "none" => ~Header(lines[k]) \/ lines[k].colon
  BY DEF Fault

\* A line has the fault it has in a file that is the same above it; unless it has
\* another one there, the loss of its colon is one, and the colon mends it.
LEMMA SameFault ==
    ASSUME NEW lines \in Seq(Lines), NEW other \in Seq(Lines), NEW k \in Code(lines),
           Len(lines) = Len(other), \A j \in 1 .. k - 1 : lines[j] = other[j],
           lines[k].indent = other[k].indent, lines[k].form = other[k].form
    PROVE  /\ k \in Code(other)
           /\ Above(lines, k) = Above(other, k)
           /\ Header(lines[k]) /\ ~lines[k].colon /\ Fault(other, k) = "none" =>
                  Fault(lines, k) = "colon"
           /\ Fault(lines, k) = "colon" /\ other[k].colon => Fault(other, k) = "none"
           /\ lines[k].colon = other[k].colon => Fault(lines, k) = Fault(other, k)
<1>1. Len(lines) \in Nat /\ DOMAIN lines = 1 .. Len(lines) /\ DOMAIN other = 1 .. Len(lines)
  OBVIOUS
<1>2. k \in 1 .. Len(lines) /\ k \in Code(other)
  BY <1>1 DEF Code, Blank
<1>3. Above(lines, k) = Above(other, k)
      /\ \A j \in Above(lines, k) : j \in 1 .. k - 1 /\ lines[j] = other[j]
  BY <1>1, <1>2 DEF Above, Code
<1>4. OpenLevels(lines, k) = OpenLevels(other, k)
  BY <1>3, Zenon DEF OpenLevels
<1> DEFINE a == Max(Above(lines, k))
<1>5. Above(lines, k) # {} => lines[a] = other[a] /\ Max(Above(other, k)) = a
  <2>1. Above(lines, k) # {} => a \in Above(lines, k)
    BY <1>1, <1>2, AboveIs
  <2>2. QED
    BY <1>3, <2>1
<1> HIDE DEF a
<1>6. Header(lines[k]) <=> Header(other[k])
  BY DEF Header
<1>7. QED
  <2>1. CASE Above(lines, k) = {}
    BY <1>2, <1>3, <1>4, <1>6, <2>1 DEF Fault
  <2>2. CASE Above(lines, k) # {}
    BY <1>2, <1>3, <1>4, <1>5, <1>6, <2>2 DEF Fault, a
  <2>3. QED
    BY <2>1, <2>2

\* The first line with a fault is the error.
LEMMA FirstFault ==
    ASSUME NEW lines \in Seq(Lines), NEW k \in Code(lines), Fault(lines, k) # "none",
           \A j \in Code(lines) : j < k => Fault(lines, j) = "none"
    PROVE  Compile(lines) = Error(Fault(lines, k), k, Max(Above(lines, k) \cup {0}))
<1> DEFINE bad == {j \in Code(lines) : Fault(lines, j) # "none"}
<1>1. bad \subseteq Nat /\ k \in bad /\ \A j \in bad : k <= j
  BY DEF Code
<1>2. Min(bad) = k
  <2> HIDE DEF bad
  <2>1. QED
    BY <1>1, MinOf
<1>3. QED
  BY <1>1, <1>2 DEF Compile

\* What the error says of the file.
LEMMA CompileIs ==
    ASSUME NEW lines \in Seq(Lines), NEW e, e = Compile(lines)
    PROVE  /\ e.msg \in {"none", "unindent", "block", "indent", "colon", "return"}
           /\ e.lineno \in Nat
           /\ e.msg # "none" => e.lineno \in Code(lines)
           /\ e.msg = "block" => e.header \in Code(lines)
           /\ e.msg = "block" => \/ Fault(lines, e.lineno) = "block"
                                 \/ e.lineno = Len(lines) /\ Opens(lines[e.lineno])
           /\ e.msg \in {"unindent", "indent", "colon"} =>
                  /\ Fault(lines, e.lineno) = e.msg
                  /\ \A j \in Code(lines) : j < e.lineno => Fault(lines, j) = "none"
           /\ e.msg = "none" =>
                  /\ \A j \in Code(lines) : Fault(lines, j) = "none"
                  /\ Len(lines) > 0 => ~Opens(lines[Len(lines)])
<1> DEFINE bad == {k \in Code(lines) : Fault(lines, k) # "none"}
           loose == {k \in Code(lines) : Loose(lines, k)}
           n == Len(lines)
<1>1. n \in Nat /\ DOMAIN lines = 1 .. n /\ Code(lines) \subseteq 1 .. n
  BY DEF Code
<1>2. CASE bad # {}
  <2>1. bad \subseteq Nat
    BY <1>1
  <2> DEFINE k == Min(bad)
  <2>2. k \in bad /\ \A j \in bad : k <= j
    <3> HIDE DEF bad
    <3>1. QED
      BY <1>2, <2>1, MinIs
  <2>3. e = Error(Fault(lines, k), k, Max(Above(lines, k) \cup {0}))
    BY <1>2 DEF Compile
  <2> HIDE DEF k
  <2>4. k \in Code(lines) /\ k \in Nat /\ Fault(lines, k) # "none"
    BY <1>1, <2>2
  <2>5. ASSUME NEW j \in Code(lines), j < k PROVE Fault(lines, j) = "none"
    <3>1. j \in Nat /\ ~ (k <= j)
      BY <1>1, <2>4, <2>5
    <3>2. QED
      BY <2>2, <3>1
  <2>6. Fault(lines, k) \in {"none", "unindent", "block", "indent", "colon"}
    BY <2>4, FaultIs
  <2>7. e.msg = Fault(lines, k) /\ e.lineno = k /\ e.header = Max(Above(lines, k) \cup {0})
    BY <2>3 DEF Error
  <2>8. Fault(lines, k) = "block" => Max(Above(lines, k) \cup {0}) \in Code(lines)
    <3> SUFFICES ASSUME Fault(lines, k) = "block"
                 PROVE  Max(Above(lines, k) \cup {0}) \in Code(lines)
      OBVIOUS
    <3>1. Above(lines, k) # {}
      BY <2>4, FaultIs
    <3> DEFINE A == Above(lines, k) \cup {0}
    <3>2. A \subseteq 0 .. n /\ (\E a \in A : a > 0) /\ \A a \in A : a \in Int
      BY <1>1, <3>1 DEF Above
    <3>3. Max(A) \in A /\ \A a \in A : a <= Max(A)
      <4> HIDE DEF A
      <4>1. A # {}
        BY <3>2
      <4>2. QED
        BY <1>1, <3>2, <4>1, MaxIs
    <3>4. Max(A) # 0
      <4> DEFINE m == Max(A)
      <4> HIDE DEF A, m
      <4>1. \A a \in A : a <= m
        BY <3>3, Zenon DEF m
      <4>2. m # 0
        BY <3>2, <4>1
      <4>3. QED
        BY <4>2 DEF m
    <3>5. QED
      BY <3>3, <3>4 DEF Above
  <2>9. QED
    BY <2>4, <2>5, <2>6, <2>7, <2>8
<1>3. CASE bad = {}
  <2>1. \A j \in Code(lines) : Fault(lines, j) = "none"
    BY <1>3
  <2>2. CASE n > 0 /\ Opens(lines[n])
    <3>1. e = Error("block", n, n)
      BY <1>3, <2>2 DEF Compile
    <3>2. n \in Code(lines)
      BY <1>1, <2>2 DEF Code, Blank, Opens, Header
    <3>3. e.msg = "block" /\ e.lineno = n /\ e.header = n
      BY <3>1 DEF Error
    <3>4. Opens(lines[e.lineno])
      BY <2>2, <3>3
    <3>5. QED
      BY <1>1, <3>2, <3>3, <3>4
  <2>3. CASE ~ (n > 0 /\ Opens(lines[n])) /\ loose # {}
    <3>1. loose \subseteq Nat /\ loose \subseteq Code(lines)
      BY <1>1
    <3>2. Min(loose) \in loose
      <4> HIDE DEF loose
      <4>1. QED
        BY <2>3, <3>1, MinIs
    <3>3. e = Error("return", Min(loose), 0)
      BY <1>3, <2>3 DEF Compile
    <3> DEFINE l == Min(loose)
    <3> HIDE DEF l
    <3>4. l \in Code(lines) /\ l \in Nat /\ e = Error("return", l, 0)
      BY <3>1, <3>2, <3>3 DEF l
    <3>5. QED
      BY <3>4 DEF Error
  <2>4. CASE ~ (n > 0 /\ Opens(lines[n])) /\ loose = {}
    <3>1. e = Error("none", 0, 0)
      BY <1>3, <2>4 DEF Compile
    <3>2. QED
      BY <2>1, <2>4, <3>1 DEF Error
  <2>5. QED
    BY <2>2, <2>3, <2>4
<1>4. QED
  BY <1>2, <1>3

-----------------------------------------------------------------------------
(* The fixes on offer.                                                     *)

\* A line that may have been moved too far.
MovedLines == [indent : Int, form : {"def", "if", "return", "stmt", "blank"},
               colon : BOOLEAN, comment : BOOLEAN]

\* Lines that move keep everything but their indent.
LEMMA ReindentIs ==
    ASSUME NEW lines \in Seq(Lines), NEW first, NEW end, NEW offset \in Int,
           NEW moved, moved = Reindent(lines, first, end, offset)
    PROVE  /\ moved \in Seq(MovedLines)
           /\ Len(moved) = Len(lines) /\ DOMAIN moved = DOMAIN lines
           /\ \A k \in DOMAIN lines : k \in first .. end /\ ~Blank(lines[k]) =>
                  moved[k] = [lines[k] EXCEPT !.indent = @ + offset]
           /\ \A k \in DOMAIN lines : k \notin first .. end \/ Blank(lines[k]) =>
                  moved[k] = lines[k]
<1>1. Len(lines) \in Nat /\ DOMAIN lines = 1 .. Len(lines)
  OBVIOUS
<1>2. moved = [k \in 1 .. Len(lines) |->
                  IF k \in first .. end /\ ~Blank(lines[k])
                  THEN [lines[k] EXCEPT !.indent = @ + offset] ELSE lines[k]]
  BY <1>1 DEF Reindent
<1>3. ASSUME NEW line \in Lines
      PROVE  line \in MovedLines /\ [line EXCEPT !.indent = @ + offset] \in MovedLines
  BY DEF Lines, MovedLines
<1>4. \A k \in 1 .. Len(lines) : lines[k] \in Lines
  BY <1>1
<1>5. \A k \in 1 .. Len(lines) : moved[k] \in MovedLines
  BY <1>2, <1>3, <1>4
<1>6. moved \in Seq(MovedLines) /\ Len(moved) = Len(lines) /\ DOMAIN moved = DOMAIN lines
  BY <1>1, <1>2, <1>5
<1>7. QED
  BY <1>1, <1>2, <1>6

\* The finding that moves lines.
Move(lines, first, end, offset) ==
    [line |-> first, end |-> end,
     fix |-> SubSeq(Reindent(lines, first, end, offset), first, end),
     has_fix |-> TRUE, tier |-> "MEDIUM"]

\* The lines it brings are lines of a file.
LEMMA MoveIs ==
    ASSUME NEW lines \in Seq(Lines), NEW first \in DOMAIN lines, NEW end \in DOMAIN lines,
           first <= end, NEW offset \in Int, NEW moved, moved = Reindent(lines, first, end, offset),
           \A k \in first .. end : moved[k].indent >= 0,
           NEW fix, fix = SubSeq(moved, first, end)
    PROVE  /\ fix \in Seq(Lines) /\ Len(fix) = end - first + 1
           /\ \A i \in 1 .. end - first + 1 : fix[i] = moved[i + first - 1]
           /\ moved \in Seq(Lines)
<1>1. Len(lines) \in Nat /\ DOMAIN lines = 1 .. Len(lines)
      /\ first \in 1 .. Len(lines) /\ end \in 1 .. Len(lines)
  OBVIOUS
<1>2. /\ moved \in Seq(MovedLines) /\ Len(moved) = Len(lines)
      /\ \A k \in DOMAIN lines : k \notin first .. end \/ Blank(lines[k]) => moved[k] = lines[k]
  BY ReindentIs
<1>3. \A k \in 1 .. Len(lines) : moved[k] \in Lines
  <2> SUFFICES ASSUME NEW k \in 1 .. Len(lines) PROVE moved[k] \in Lines
    OBVIOUS
  <2>1. moved[k] \in MovedLines /\ lines[k] \in Lines
    BY <1>1, <1>2
  <2>2. CASE k \in first .. end
    BY <2>1, <2>2 DEF Lines, MovedLines
  <2>3. CASE k \notin first .. end
    BY <1>1, <1>2, <2>1, <2>3
  <2>4. QED
    BY <2>2, <2>3
<1>4. moved \in Seq(Lines)
  <2>1. moved \in Seq(MovedLines) /\ \A k \in 1 .. Len(moved) : moved[k] \in Lines
    BY <1>2, <1>3
  <2>2. QED
    BY <2>1, MadeOf
<1> DEFINE n == end - first + 1
<1>5. n \in Nat /\ \A i \in 1 .. n : i + first - 1 \in 1 .. Len(lines)
  BY <1>1
<1>6. fix = [i \in 1 .. n |-> moved[i + first - 1]]
  BY <1>1, <1>2, SubSeqProperties
<1> HIDE DEF n
<1>7. \A i \in 1 .. n : fix[i] = moved[i + first - 1] /\ fix[i] \in Lines
  BY <1>3, <1>5, <1>6
<1>8. fix \in Seq(Lines) /\ Len(fix) = n
  BY <1>5, <1>6, <1>7
<1>9. QED
  BY <1>4, <1>7, <1>8 DEF n

\* How far the search for the end goes: no further than its window, and not to
\* one of the stops.
LEMMA MaxEndIs ==
    ASSUME NEW lines \in Seq(Lines), NEW first \in DOMAIN lines, NEW stops,
           NEW m, m = MaxEndLine(lines, first, stops)
    PROVE  /\ m \in first .. Len(lines) /\ m <= first + SearchWindow
           /\ \A k \in first + 1 .. m : k \notin stops
           /\ \A b \in first .. Len(lines) :
                  b <= first + SearchWindow /\ (\A k \in first + 1 .. b : k \notin stops) => b <= m
<1> DEFINE N == Len(lines)
           window == {k \in DOMAIN lines : first < k /\ k <= first + SearchWindow}
           near == window \cap stops
<1>1. N \in Nat /\ DOMAIN lines = 1 .. N /\ first \in 1 .. N /\ SearchWindow = 50
  BY DEF SearchWindow
<1>2. \A k \in Int : k \in window <=> first < k /\ k <= first + 50 /\ k <= N
  BY <1>1
<1>3. window \subseteq 1 .. N
  BY <1>1
<1>4. CASE near = {}
  <2> DEFINE W == window \cup {first}
  <2>1. m = Max(W)
    BY <1>4 DEF MaxEndLine
  <2>2. W \subseteq 0 .. N /\ first \in W
    BY <1>1, <1>3
  <2>3. m \in W /\ \A n \in W : n <= m
    <3> HIDE DEF W
    <3>1. QED
      BY <1>1, <2>1, <2>2, MaxIs
  <2>4. m \in Int /\ m \in 1 .. N /\ (m = first \/ m \in window)
    BY <1>1, <1>3, <2>3
  <2>5. \A k \in window : k \notin stops
    BY <1>4
  <2>6. ASSUME NEW k \in first + 1 .. m PROVE k \in window
    BY <1>1, <1>2, <2>4
  <2>7. ASSUME NEW b \in first .. N, b <= first + 50 PROVE b <= m
    <3>1. b \in W
      BY <1>1, <1>2, <2>7
    <3> HIDE DEF W
    <3>2. QED
      BY <2>3, <3>1
  <2>8. first <= m /\ m <= first + 50
    BY <1>1, <1>2, <2>2, <2>3, <2>4
  <2> HIDE DEF window, N, W
  <2>9. QED
    BY <1>1, <2>4, <2>5, <2>6, <2>7, <2>8 DEF N
<1>5. CASE near # {}
  <2>1. m = Min(near) - 1
    BY <1>5 DEF MaxEndLine
  <2>2. near \subseteq Nat
    BY <1>1
  <2>3. Min(near) \in near /\ \A n \in near : Min(near) <= n
    <3> HIDE DEF near
    <3>1. QED
      BY <1>5, <2>2, MinIs
  <2> DEFINE l == Min(near)
  <2> HIDE DEF l
  <2>4. l \in near /\ m = l - 1 /\ \A n \in near : l <= n
    BY <2>1, <2>3 DEF l
  <2>5. l \in 1 .. N /\ first < l /\ l <= first + 50 /\ l \in stops
    BY <1>1, <1>2, <2>4
  <2>6. ASSUME NEW k \in first + 1 .. m PROVE k \notin stops
    <3>1. k \in window /\ k < l
      BY <1>1, <1>2, <2>4, <2>5
    <3>2. ~ (l <= k)
      BY <1>1, <2>5, <3>1
    <3>3. QED
      BY <2>4, <3>1, <3>2
  <2>7. ASSUME NEW b \in first .. N, \A k \in first + 1 .. b : k \notin stops PROVE b <= m
    <3>1. l \notin first + 1 .. b
      BY <2>5, <2>7
    <3>2. QED
      BY <1>1, <2>4, <2>5, <3>1
  <2> HIDE DEF window, N, near
  <2>8. QED
    BY <1>1, <2>4, <2>5, <2>6, <2>7 DEF N
<1>6. QED
  BY <1>4, <1>5

\* A line with its colon.
Coloned(line) == [line EXCEPT !.colon = TRUE]

\* The finding that gives a line its colon, and the one that has no fix.
ColonFix(lines, k) ==
    [line |-> k, end |-> 0, fix |-> <<Coloned(lines[k])>>,
     has_fix |-> TRUE, tier |-> "HIGH"]

Unfixed(k) == [line |-> k, end |-> 0, fix |-> << >>, has_fix |-> FALSE, tier |-> "MEDIUM"]

\* A move of lines after which the file compiles: from the error on, or of the lines
\* right above it to where it is.
MovesBy(lines, e, first, end, offset) ==
    LET moved == Reindent(lines, first, end, offset)
    IN  /\ first \in Code(lines) /\ end \in DOMAIN lines /\ first <= end
        /\ offset \in Int \ {0}
        /\ \A k \in first .. end : moved[k].indent >= 0
        /\ Compiles(moved)
        /\ \/ e.msg \in {"block", "indent", "unindent"} /\ first = e.lineno
           \/ /\ e.msg \in {"indent", "unindent"}
              /\ Above(lines, e.lineno) # {} /\ end = Max(Above(lines, e.lineno))
              /\ \A k \in first .. end :
                     k \in Code(lines) /\ lines[k].indent + offset = lines[e.lineno].indent

Moves(lines, e, f) ==
    \E first, end, offset : MovesBy(lines, e, first, end, offset)
                            /\ f = Move(lines, first, end, offset)

\* A span that is moved is the largest of those that are confirmed.
LEMMA ReindentFixIs ==
    ASSUME NEW lines \in Seq(Lines), NEW first \in DOMAIN lines,
           NEW max_end \in first .. Len(lines), NEW offset \in Int,
           NEW ends, ends = Confirmed(lines, first, max_end, offset), ends # {}
    PROVE  /\ ReindentFix(lines, first, ends, offset) = {Move(lines, first, Max(ends), offset)}
           /\ Max(ends) \in ends /\ \A end \in ends : end <= Max(ends)
           /\ \A end \in ends : /\ end \in DOMAIN lines /\ first <= end /\ end <= max_end
                                /\ \A k \in first .. end :
                                       Reindent(lines, first, end, offset)[k].indent >= 0
                                /\ Compiles(Reindent(lines, first, end, offset))
<1>1. Len(lines) \in Nat /\ DOMAIN lines = 1 .. Len(lines) /\ first \in 1 .. Len(lines)
  OBVIOUS
<1>2. ends \subseteq first .. max_end
  BY DEF Confirmed
<1>3. ends \subseteq 0 .. Len(lines)
  BY <1>1, <1>2
<1>4. Max(ends) \in ends /\ \A end \in ends : end <= Max(ends)
  BY <1>1, <1>3, MaxIs
<1>5. ReindentFix(lines, first, ends, offset) = {Move(lines, first, Max(ends), offset)}
  BY DEF ReindentFix, Fix, Move
<1>6. ASSUME NEW end \in ends
      PROVE  /\ end \in DOMAIN lines /\ first <= end /\ end <= max_end
             /\ \A k \in first .. end : Reindent(lines, first, end, offset)[k].indent >= 0
             /\ Compiles(Reindent(lines, first, end, offset))
  <2>1. end \in DOMAIN lines /\ first <= end /\ end <= max_end
    BY <1>1, <1>2
  <2>2. /\ \A k \in first .. end : Reindent(lines, first, end, offset)[k].indent >= 0
        /\ Compiles(Reindent(lines, first, end, offset))
    BY Zenon DEF Confirmed
  <2>3. QED
    BY <2>1, <2>2
<1>7. QED
  BY <1>4, <1>5, <1>6

\* Each of the three ways to move lines does so.
LEMMA MissingIndentMoves ==
    ASSUME NEW lines \in Seq(Lines), NEW e, e = Compile(lines),
           NEW f \in MissingIndentFix(lines, e)
    PROVE  Moves(lines, e, f)
<1> DEFINE first == e.lineno
           offset == lines[e.header].indent + 1 - lines[first].indent
           stops == {k \in Code(lines) :
                        \/ lines[k].indent < lines[e.header].indent
                        \/ lines[k].indent = lines[first].indent
                               /\ LooksLikeSpanBoundary(lines[k])}
           max_end == MaxEndLine(lines, first, stops)
           ends == Confirmed(lines, first, max_end, offset)
<1>1. e.msg = "block" /\ offset > 0 /\ f \in ReindentFix(lines, first, ends, offset)
  BY DEF MissingIndentFix
<1>2. first \in Code(lines) /\ first \in DOMAIN lines /\ e.header \in DOMAIN lines
  BY <1>1, CompileIs DEF Code
<1>3. offset \in Int /\ offset # 0
  <2>1. lines[first] \in Lines /\ lines[e.header] \in Lines
    BY <1>2
  <2>2. QED
    BY <1>1, <2>1 DEF Lines
<1>4. ends # {}
  BY <1>1 DEF ReindentFix
<1> HIDE DEF offset, stops
<1>5. max_end \in first .. Len(lines)
  BY <1>2, MaxEndIs
<1> HIDE DEF max_end, ends
<1> DEFINE end == Max(ends)
<1>6. /\ f = Move(lines, first, end, offset)
      /\ end \in DOMAIN lines /\ first <= end
      /\ \A k \in first .. end : Reindent(lines, first, end, offset)[k].indent >= 0
      /\ Compiles(Reindent(lines, first, end, offset))
  BY <1>1, <1>2, <1>3, <1>4, <1>5, ReindentFixIs DEF ends
<1> HIDE DEF end
<1>7. MovesBy(lines, e, first, end, offset)
  BY <1>1, <1>2, <1>3, <1>6 DEF MovesBy
<1>8. QED
  BY <1>6, <1>7 DEF Moves

LEMMA MisalignedIndentMoves ==
    ASSUME NEW lines \in Seq(Lines), NEW e, e = Compile(lines),
           NEW f \in MisalignedIndentFix(lines, e)
    PROVE  Moves(lines, e, f)
<1> DEFINE first == e.lineno
           first_indent == lines[first].indent
           levels == {0, first_indent + 1} \cup {lines[k].indent : k \in Above(lines, first)}
           stops == {k \in Code(lines) :
                        lines[k].indent = first_indent /\ LooksLikeSpanBoundary(lines[k])}
           max_end == MaxEndLine(lines, first, stops)
           Ends(level) == Confirmed(lines, first, max_end, level - first_indent)
           work == {level \in levels \ {first_indent} : Ends(level) # {}}
<1>1. e.msg \in {"indent", "unindent"}
  BY DEF MisalignedIndentFix
<1>2. PICK target \in Closest(work, first_indent) :
          f \in ReindentFix(lines, first, Ends(target), target - first_indent)
  <2>1. MisalignedIndentFix(lines, e) =
            UNION {ReindentFix(lines, first, Ends(target), target - first_indent) :
                      target \in Closest(work, first_indent)}
    BY <1>1, Zenon DEF MisalignedIndentFix
  <2> HIDE DEF work, Ends, first, first_indent
  <2>2. QED
    BY <2>1, Zenon
<1>3. target \in levels /\ target # first_indent /\ Ends(target) # {}
  BY DEF Closest
<1>4. first \in Code(lines) /\ first \in DOMAIN lines
  BY <1>1, CompileIs DEF Code
<1>5. target \in Int /\ first_indent \in Int
  <2>1. \A k \in DOMAIN lines : lines[k].indent \in Nat
    BY LineIs
  <2>2. \A k \in Above(lines, first) : lines[k].indent \in Nat
    BY <2>1 DEF Above, Code
  <2>3. QED
    BY <1>3, <1>4, <2>1, <2>2
<1> DEFINE offset == target - first_indent
           ends == Ends(target)
<1>6. offset \in Int /\ offset # 0
  BY <1>3, <1>5
<1> HIDE DEF offset, stops
<1>7. max_end \in first .. Len(lines)
  BY <1>4, MaxEndIs
<1>8. ends = Confirmed(lines, first, max_end, offset) /\ ends # {}
      /\ f \in ReindentFix(lines, first, ends, offset)
  BY <1>2, <1>3 DEF offset
<1> HIDE DEF max_end, ends
<1> DEFINE end == Max(ends)
<1>9. /\ f = Move(lines, first, end, offset)
      /\ end \in DOMAIN lines /\ first <= end
      /\ \A k \in first .. end : Reindent(lines, first, end, offset)[k].indent >= 0
      /\ Compiles(Reindent(lines, first, end, offset))
  BY <1>4, <1>6, <1>7, <1>8, ReindentFixIs
<1> HIDE DEF end
<1>10. MovesBy(lines, e, first, end, offset)
  BY <1>1, <1>4, <1>6, <1>9 DEF MovesBy
<1>11. QED
  BY <1>9, <1>10 DEF Moves

LEMMA MisalignedIndentBackwardMoves ==
    ASSUME NEW lines \in Seq(Lines), NEW e, e = Compile(lines),
           NEW f \in MisalignedIndentBackwardFix(lines, e)
    PROVE  Moves(lines, e, f)
<1> DEFINE error == e.lineno
           first_indent == lines[error].indent
           end == Max(Above(lines, error))
           block_indent == lines[end].indent
           begins == {b \in 1 .. end : \A k \in b .. end :
                          ~Blank(lines[k]) /\ lines[k].indent = block_indent}
           begin == Min(begins)
           offset == first_indent - block_indent
           patched == Reindent(lines, begin, end, offset)
<1>1. /\ e.msg \in {"indent", "unindent"} /\ Above(lines, error) # {}
      /\ block_indent > first_indent /\ Compiles(patched)
      /\ f = Move(lines, begin, end, offset)
  BY DEF MisalignedIndentBackwardFix, Fix, Move
<1>2. error \in Code(lines) /\ error \in DOMAIN lines
  BY <1>1, CompileIs DEF Code
<1>3. end \in Code(lines) /\ end < error /\ end \in DOMAIN lines
  BY <1>1, <1>2, AboveIs DEF Code
<1> HIDE DEF end
<1>4. DOMAIN lines = 1 .. Len(lines) /\ Len(lines) \in Nat /\ end \in Nat
      /\ \A k \in DOMAIN lines : lines[k].indent \in Nat
  BY <1>3, LineIs
<1>5. begins \subseteq Nat /\ end \in begins
  BY <1>3, <1>4 DEF Code
<1>6. begin \in begins
  <2> HIDE DEF begins
  <2>1. begins # {}
    BY <1>5
  <2>2. QED
    BY <1>5, <2>1, MinIs
<1> HIDE DEF begin
<1>7. /\ begin \in DOMAIN lines /\ begin <= end
      /\ \A k \in begin .. end : k \in DOMAIN lines /\ k \in Code(lines)
                                 /\ lines[k].indent = block_indent
  BY <1>3, <1>4, <1>6 DEF Code
<1>8. first_indent \in Nat /\ block_indent \in Nat /\ offset \in Int /\ offset # 0
      /\ block_indent + offset = first_indent
  BY <1>1, <1>2, <1>3, <1>4
<1>9. \A k \in begin .. end : lines[k].indent + offset = first_indent
  BY <1>7, <1>8
<1> HIDE DEF offset
<1>10. \A k \in begin .. end : patched[k].indent >= 0
  <2> SUFFICES ASSUME NEW k \in begin .. end PROVE patched[k].indent >= 0
    OBVIOUS
  <2>1. k \in DOMAIN lines /\ ~Blank(lines[k]) /\ lines[k] \in Lines
    BY <1>7 DEF Code
  <2>2. patched[k] = [lines[k] EXCEPT !.indent = @ + offset]
    BY <1>8, <2>1, ReindentIs
  <2>3. patched[k].indent = lines[k].indent + offset
    BY <2>1, <2>2 DEF Lines
  <2>4. QED
    BY <1>8, <1>9, <2>3
<1>11. begin \in Code(lines)
  BY <1>4, <1>7
<1>12. MovesBy(lines, e, begin, end, offset)
  <2>1. end = Max(Above(lines, e.lineno))
    BY DEF end
  <2>2. \A k \in begin .. end : k \in Code(lines) /\ lines[k].indent + offset = first_indent
    BY <1>7, <1>9
  <2> HIDE DEF patched
  <2>3. /\ begin \in Code(lines) /\ end \in DOMAIN lines /\ begin <= end
        /\ offset \in Int \ {0} /\ \A k \in begin .. end : patched[k].indent >= 0
        /\ Compiles(patched) /\ e.msg \in {"indent", "unindent"} /\ Above(lines, e.lineno) # {}
    BY <1>1, <1>3, <1>7, <1>8, <1>10, <1>11
  <2>4. QED
    BY <2>1, <2>2, <2>3 DEF MovesBy, patched
<1>13. QED
  BY <1>1, <1>12 DEF Moves

\* What a review has to offer for an error: the colon, if it is the colon that is
\* missing, the body of a header, if there is one, or else some move or nothing.
LEMMA OfferIs ==
    ASSUME NEW lines \in Seq(Lines), NEW e, e = Compile(lines), e.msg # "none",
           NEW f, f = SyntaxErrorFix(lines, e)
    PROVE  /\ e.msg = "colon" /\ ~lines[e.lineno].comment => f = ColonFix(lines, e.lineno)
           /\ e.msg # "colon" \/ lines[e.lineno].comment =>
                  f = Unfixed(e.lineno) \/ Moves(lines, e, f)
           /\ MissingIndentFix(lines, e) # {} => f \in MissingIndentFix(lines, e)
<1> DEFINE A == MissingColonFix(lines, e)
           B == MissingIndentFix(lines, e)
           C == MisalignedIndentFix(lines, e)
           D == MisalignedIndentBackwardFix(lines, e)
           E == NoFix(e)
           offers == <<A, B, C, D, E>>
           S == {i \in DOMAIN offers : offers[i] # {}}
           m == Min(S)
<1>1. /\ e.msg = "colon" /\ ~lines[e.lineno].comment => A = {ColonFix(lines, e.lineno)}
      /\ e.msg # "colon" \/ lines[e.lineno].comment => A = {}
  BY DEF MissingColonFix, Fix, ColonFix, Coloned
<1>2. B # {} => A = {}
  <2>1. B # {} => e.msg = "block"
    BY DEF MissingIndentFix
  <2>2. QED
    BY <1>1, <2>1
<1>3. E = {Unfixed(e.lineno)}
  BY DEF NoFix, Unfixed
<1>4. \A x \in B \cup C \cup D : Moves(lines, e, x)
  BY MissingIndentMoves, MisalignedIndentMoves, MisalignedIndentBackwardMoves
<1>5. f = CHOOSE x \in offers[m] : TRUE
  BY Zenon DEF SyntaxErrorFix, FirstOf
<1> HIDE DEF A, B, C, D, E
<1>6. DOMAIN offers = 1 .. 5 /\ offers[1] = A /\ offers[2] = B /\ offers[3] = C
      /\ offers[4] = D /\ offers[5] = E
  OBVIOUS
<1> HIDE DEF offers
<1>7. S \subseteq Nat /\ 5 \in S
  <2>1. 5 \in DOMAIN offers /\ offers[5] # {} /\ DOMAIN offers \subseteq Nat
    BY <1>3, <1>6
  <2>2. QED
    BY <2>1
<1>8. m \in S /\ \A i \in S : m <= i
  <2> HIDE DEF S
  <2>1. S # {}
    BY <1>7
  <2>2. QED
    BY <1>7, <2>1, MinIs
<1> HIDE DEF m
<1>9. f \in offers[m]
  <2>1. offers[m] # {}
    BY <1>8
  <2>2. QED
    BY <1>5, <2>1
<1>10. m \in 1 .. 5 /\ offers[m] # {} /\ \A i \in 1 .. 5 : offers[i] # {} => m <= i
  BY <1>6, <1>8
<1>11. CASE A # {}
  <2>1. m = 1
    BY <1>6, <1>10, <1>11
  <2>2. QED
    BY <1>1, <1>2, <1>6, <1>9, <1>11, <2>1 DEF B
<1>12. CASE A = {} /\ B # {}
  <2>1. m = 2
    BY <1>6, <1>10, <1>12
  <2>2. f \in B
    BY <1>6, <1>9, <2>1
  <2>3. QED
    BY <1>1, <1>4, <1>12, <2>2 DEF B
<1>13. CASE A = {} /\ B = {}
  <2>1. m \in 3 .. 5
    BY <1>6, <1>10, <1>13
  <2>2. f \in C \cup D \cup E
    BY <1>6, <1>9, <2>1
  <2>3. QED
    BY <1>1, <1>3, <1>4, <1>13, <2>2 DEF B
<1>14. QED
  BY <1>11, <1>12, <1>13

\* The findings of a review.
FixFindings == [line : Nat, end : Nat, fix : Seq(Lines), has_fix : BOOLEAN,
                tier : {"HIGH", "MEDIUM"}]

LEMMA ColonFixType ==
    ASSUME NEW lines \in Seq(Lines), NEW k \in DOMAIN lines
    PROVE  /\ Coloned(lines[k]) \in Lines
           /\ ColonFix(lines, k) \in FixFindings
           /\ ColonFix(lines, k).tier = "HIGH" /\ ColonFix(lines, k).has_fix = TRUE
           /\ ColonFix(lines, k).line = k
           /\ ColonFix(lines, k).fix[1] = Coloned(lines[k])
           /\ End(ColonFix(lines, k)) = k
<1>1. k \in Nat /\ lines[k] \in Lines
  BY LineIs
<1>2. Coloned(lines[k]) \in Lines
  BY <1>1 DEF Lines, Coloned
<1> DEFINE line == Coloned(lines[k])
<1> HIDE DEF line
<1>3. line \in Lines /\ ColonFix(lines, k) = [line |-> k, end |-> 0, fix |-> <<line>>,
                                              has_fix |-> TRUE, tier |-> "HIGH"]
  BY <1>2 DEF ColonFix, line
<1>4. <<line>> \in Seq(Lines)
  BY <1>3
<1>5. QED
  BY <1>1, <1>2, <1>3, <1>4 DEF FixFindings, End, line

LEMMA UnfixedType ==
    ASSUME NEW k \in Nat
    PROVE  Unfixed(k) \in FixFindings /\ Unfixed(k).tier = "MEDIUM" /\ Unfixed(k).has_fix = FALSE
<1>1. << >> \in Seq(Lines)
  OBVIOUS
<1>2. QED
  BY <1>1 DEF Unfixed, FixFindings

LEMMA MovesType ==
    ASSUME NEW lines \in Seq(Lines), NEW e, NEW f, Moves(lines, e, f)
    PROVE  f \in FixFindings /\ f.tier = "MEDIUM" /\ f.has_fix = TRUE
<1>1. PICK first, end, offset :
          MovesBy(lines, e, first, end, offset) /\ f = Move(lines, first, end, offset)
  BY DEF Moves
<1>2. /\ first \in DOMAIN lines /\ end \in DOMAIN lines /\ offset \in Int /\ first <= end
      /\ \A k \in first .. end : Reindent(lines, first, end, offset)[k].indent >= 0
  BY <1>1 DEF MovesBy, Code
<1> DEFINE fix == SubSeq(Reindent(lines, first, end, offset), first, end)
<1>3. fix \in Seq(Lines)
  BY <1>2, MoveIs
<1> HIDE DEF fix
<1>4. f = [line |-> first, end |-> end, fix |-> fix, has_fix |-> TRUE, tier |-> "MEDIUM"]
  BY <1>1 DEF Move, fix
<1>5. first \in Nat /\ end \in Nat
  BY <1>2
<1>6. QED
  BY <1>3, <1>4, <1>5 DEF FixFindings

LEMMA OfferType ==
    ASSUME NEW lines \in Seq(Lines), NEW e, e = Compile(lines), e.msg # "none",
           NEW f, f = SyntaxErrorFix(lines, e)
    PROVE  /\ f \in FixFindings /\ e.lineno \in DOMAIN lines
           /\ f.tier = "HIGH" <=> e.msg = "colon" /\ ~lines[e.lineno].comment
           /\ f.tier = "HIGH" => f = ColonFix(lines, e.lineno)
<1>1. e.lineno \in DOMAIN lines /\ e.lineno \in Nat
  BY CompileIs DEF Code
<1>2. CASE e.msg = "colon" /\ ~lines[e.lineno].comment
  <2>1. f = ColonFix(lines, e.lineno)
    BY <1>2, OfferIs
  <2>2. ColonFix(lines, e.lineno) \in FixFindings /\ ColonFix(lines, e.lineno).tier = "HIGH"
    BY <1>1, ColonFixType
  <2>3. QED
    BY <1>1, <1>2, <2>1, <2>2
<1>3. CASE e.msg # "colon" \/ lines[e.lineno].comment
  <2>1. f = Unfixed(e.lineno) \/ Moves(lines, e, f)
    BY <1>3, OfferIs
  <2>2. f \in FixFindings /\ f.tier = "MEDIUM"
    <3>1. CASE f = Unfixed(e.lineno)
      BY <1>1, <3>1, UnfixedType
    <3>2. CASE Moves(lines, e, f)
      BY <3>2, MovesType
    <3>3. QED
      BY <2>1, <3>1, <3>2
  <2>3. QED
    BY <1>1, <1>3, <2>2
<1>4. QED
  BY <1>2, <1>3

-----------------------------------------------------------------------------
(* The rounds of the collector.                                            *)

Rounds == MaxSyntaxErrorsPerReview

\* What the collector keeps.
Collected == [findings : Seq(FixFindings), lines : Seq(Lines), done : BOOLEAN]

\* A round keeps to it.
LEMMA CollectType ==
    ASSUME NEW was \in Collected, NEW round
    PROVE  Collect(was, round) \in Collected
<1>1. was.findings \in Seq(FixFindings) /\ was.lines \in Seq(Lines) /\ was.done \in BOOLEAN
      /\ was = [findings |-> was.findings, lines |-> was.lines, done |-> was.done]
  BY DEF Collected
<1> DEFINE e == Compile(was.lines)
           f == SyntaxErrorFix(was.lines, e)
           next == IF f.tier = "HIGH" THEN [was.lines EXCEPT ![e.lineno] = f.fix[1]] ELSE was.lines
<1>2. CASE was.done \/ e.msg = "none"
  <2>1. Collect(was, round) = [was EXCEPT !.done = TRUE]
    BY <1>2 DEF Collect
  <2>2. QED
    BY <1>1, <2>1 DEF Collected
<1>3. CASE ~ (was.done \/ e.msg = "none")
  <2>1. Collect(was, round) =
            [findings |-> Append(was.findings, f), lines |-> next, done |-> f.tier # "HIGH"]
    BY <1>3 DEF Collect
  <2>2. f \in FixFindings /\ next \in Seq(Lines)
    <3>1. e = Compile(was.lines) /\ e.msg # "none"
      BY <1>3
    <3> HIDE DEF e
    <3>2. f \in FixFindings /\ e.lineno \in DOMAIN was.lines
          /\ (f.tier = "HIGH" => f = ColonFix(was.lines, e.lineno))
      BY <1>1, <3>1, OfferType
    <3> HIDE DEF f
    <3>3. CASE f.tier = "HIGH"
      <4>1. f.fix[1] \in Lines
        <5> DEFINE k == e.lineno
                   L == was.lines
        <5> HIDE DEF k, L
        <5>1. L \in Seq(Lines) /\ k \in DOMAIN L /\ f = ColonFix(L, k)
          BY <1>1, <3>2, <3>3 DEF k, L
        <5>2. /\ Coloned(L[k]) \in Lines
              /\ ColonFix(L, k).fix[1] = Coloned(L[k])
          BY ONLY <5>1, ColonFixType, Zenon
        <5>3. QED
          BY <5>1, <5>2, Zenon
      <4>2. QED
        BY <1>1, <3>2, <3>3, <4>1
    <3>4. CASE f.tier # "HIGH"
      BY <1>1, <3>2, <3>4
    <3>5. QED
      BY <3>3, <3>4
  <2> HIDE DEF f, next
  <2>3. Append(was.findings, f) \in Seq(FixFindings)
    BY <1>1, <2>2, AppendProperties
  <2>4. QED
    BY <2>1, <2>2, <2>3 DEF Collected
<1>4. QED
  BY <1>2, <1>3

Unread(lines) == [findings |-> << >>, lines |-> lines, done |-> FALSE]

\* The loop of CollectSyntaxErrorFindings.
CollectedBy(lines, sofar) ==
    /\ sofar[0] = Unread(lines)
    /\ \A round \in 1 .. Rounds : sofar[round] = Collect(sofar[round - 1], round)

LEMMA CollectingIs ==
    ASSUME NEW lines \in Seq(Lines)
    PROVE  \E sofar \in [0 .. Rounds -> Collected] :
               CollectedBy(lines, sofar) /\ Findings(lines) = sofar[Rounds].findings
<1> DEFINE N == Rounds
           S == Collected
           first == Unread(lines)
           Body(f) == [n \in 0 .. N |-> IF n = 0 THEN first ELSE Collect(f[n - 1], n)]
           d == [z \in S \X (1 .. N) |-> Collect(z[1], z[2])]
           sofar == CHOOSE f : f = Body(f)
<1>1. N \in Nat
  BY DEF Rounds, MaxSyntaxErrorsPerReview
<1>2. first \in S
  <2>1. << >> \in Seq(FixFindings)
    OBVIOUS
  <2>2. QED
    BY <2>1 DEF Collected, Unread
<1>3. d \in [S \X (1 .. N) -> S]
  <2>1. \A was \in S, n \in 1 .. N : Collect(was, n) \in S
    BY CollectType
  <2> HIDE DEF S, N
  <2>2. QED
    BY <2>1
<1>4. PICK f \in [0 .. N -> S] : GoesOn(f, N, first, d)
  <2> HIDE DEF N, S, d, first
  <2>1. QED
    BY <1>1, <1>2, <1>3, Recursion
<1>5. f = Body(f)
  <2>1. ASSUME NEW n \in 1 .. N PROVE f[n] = Collect(f[n - 1], n)
    <3>1. <<f[n - 1], n>> \in S \X (1 .. N)
      <4>1. n - 1 \in 0 .. N
        BY <1>1
      <4> HIDE DEF S, N
      <4>2. QED
        BY <4>1
    <3>2. d[<<f[n - 1], n>>] = Collect(f[n - 1], n)
      <4> HIDE DEF S, N
      <4>1. QED
        BY <3>1
    <3>3. QED
      BY <1>4, <3>2 DEF GoesOn
  <2>2. f \in [0 .. N -> S] /\ f[0] = first
    BY <1>4 DEF GoesOn
  <2>3. \A n \in 0 .. N : n # 0 => n \in 1 .. N
    BY <1>1
  <2> HIDE DEF N, S, first
  <2>4. \A n \in 0 .. N : f[n] = IF n = 0 THEN first ELSE Collect(f[n - 1], n)
    BY <2>1, <2>2, <2>3
  <2>5. QED
    BY <2>2, <2>4
<1>6. sofar = Body(sofar)
  <2> HIDE DEF Body
  <2>1. QED
    BY <1>5
<1>7. Findings(lines) = sofar[N].findings
  BY Zenon DEF Findings, CollectSyntaxErrorFindings, Rounds, Unread
<1>8. sofar \in [0 .. N -> S] /\ CollectedBy(lines, sofar)
  <2> HIDE DEF sofar
  <2>1. sofar[0] = first
    <3>1. 0 \in 0 .. N
      BY <1>1
    <3>2. Body(sofar)[0] = first
      BY <3>1
    <3> HIDE DEF Body
    <3>3. QED
      BY <1>6, <3>2
  <2>2. ASSUME NEW n \in 1 .. N PROVE sofar[n] = Collect(sofar[n - 1], n)
    <3>1. n \in 0 .. N /\ n # 0
      BY <1>1
    <3>2. Body(sofar)[n] = Collect(sofar[n - 1], n)
      BY <3>1
    <3> HIDE DEF Body
    <3>3. QED
      BY <1>6, <3>2
  <2>3. sofar = [n \in 0 .. N |-> sofar[n]]
    <3>1. Body(sofar) = [n \in 0 .. N |-> Body(sofar)[n]]
      BY Zenon
    <3> HIDE DEF Body
    <3>2. QED
      BY <1>6, <3>1
  <2> DEFINE P == {n \in 0 .. N : sofar[n] \in S}
  <2>4. 0 .. N \subseteq P
    <3>1. 0 \in P
      BY <1>1, <1>2, <2>1
    <3>2. ASSUME NEW n \in 1 .. N, n - 1 \in P PROVE n \in P
      <4>1. n \in 0 .. N /\ sofar[n - 1] \in S
        BY <1>1, <3>2
      <4>2. sofar[n] \in S
        BY <2>2, <4>1, CollectType
      <4>3. QED
        BY <4>1, <4>2
    <3> HIDE DEF P
    <3>3. QED
      BY <1>1, <3>1, <3>2, Upwards
  <2>5. QED
    <3>1. \A n \in 0 .. N : sofar[n] \in S
      BY <2>4
    <3> HIDE DEF S, P
    <3>2. sofar \in [0 .. N -> S]
      BY <2>3, <3>1
    <3>3. QED
      BY <2>1, <2>2, <3>2 DEF CollectedBy
<1> HIDE DEF sofar
<1>9. QED
  BY <1>7, <1>8

-----------------------------------------------------------------------------
(* A body moves together.                                                  *)

\* "Every line up through max_end_line was already written at the SAME wrong
\* indentation as the first offending line (or nested deeper within it)": in every
\* file there can be, the lines that _missing_indent_fix() moves into a block are
\* none of those further out than the first of them.
LEMMA BodyStays ==
    ASSUME text \in Seq(Lines)
    PROVE  BodyMovesTogether
<1> DEFINE e == Compile(text)
           first == e.lineno
           first_indent == text[first].indent
           header_indent == text[e.header].indent
           offset == header_indent + 1 - first_indent
           stops == {k \in Code(text) :
                        \/ text[k].indent < header_indent
                        \/ text[k].indent = first_indent /\ LooksLikeSpanBoundary(text[k])}
           max_end == MaxEndLine(text, first, stops)
           ends == Confirmed(text, first, max_end, offset)
<1> SUFFICES ASSUME NEW f \in MissingIndentFix(text, e),
                    NEW k \in Code(text) \cap (f.line .. f.end)
             PROVE  text[k].indent >= first_indent
  BY Zenon DEF BodyMovesTogether
<1>1. e.msg = "block" /\ offset > 0 /\ f \in ReindentFix(text, first, ends, offset)
  BY DEF MissingIndentFix
<1>2. first \in Code(text) /\ first \in DOMAIN text /\ e.header \in DOMAIN text
      /\ k \in DOMAIN text /\ Code(text) \subseteq Nat
  BY <1>1, CompileIs DEF Code
<1>3. first_indent \in Nat /\ header_indent \in Nat /\ text[k].indent \in Nat
  BY <1>2, LineIs
<1> DEFINE over == header_indent
           in == first_indent
<1>4. offset \in Int /\ first_indent <= header_indent
  <2> HIDE DEF over, in
  <2>1. over \in Nat /\ in \in Nat /\ over + 1 - in > 0
    BY <1>1, <1>3, Zenon DEF over, in
  <2>2. over + 1 - in \in Int /\ in <= over
    BY ONLY <2>1
  <2>3. QED
    BY <2>2, Zenon DEF over, in
<1>5. ends # {}
  BY <1>1 DEF ReindentFix
<1> HIDE DEF offset
<1>6. max_end \in first .. Len(text) /\ \A j \in first + 1 .. max_end : j \notin stops
  <2> HIDE DEF stops
  <2>1. QED
    BY <1>2, MaxEndIs
<1> DEFINE end == Max(ends)
<1>7. f = Move(text, first, end, offset) /\ end \in DOMAIN text /\ end <= max_end
  <2> HIDE DEF max_end
  <2>1. ends = Confirmed(text, first, max_end, offset)
    OBVIOUS
  <2> HIDE DEF ends
  <2>2. QED
    BY <1>1, <1>2, <1>4, <1>5, <1>6, <2>1, ReindentFixIs
<1> HIDE DEF end, max_end
<1>8. f.line = first /\ f.end = end /\ end \in Int /\ first \in Int /\ max_end \in Int
  <2>1. f.line = first /\ f.end = end
    BY <1>7 DEF Move
  <2>2. QED
    BY <1>2, <1>6, <1>7, <2>1
<1>9. CASE k = first
  BY <1>3, <1>9
<1>10. CASE k # first
  <2>1. k \in first + 1 .. max_end
    BY <1>2, <1>7, <1>8, <1>10
  <2>2. k \notin stops
    BY <1>6, <2>1
  <2>3. ~ (text[k].indent < header_indent)
    BY <2>2
  <2> DEFINE here == text[k].indent
  <2> HIDE DEF here, over, in
  <2>4. here \in Nat /\ over \in Nat /\ in \in Nat /\ in <= over /\ ~ (here < over)
    BY <1>3, <1>4, <2>3, Zenon DEF here, over, in
  <2>5. here >= in
    BY ONLY <2>4
  <2>6. QED
    BY <2>5, Zenon DEF here, in
<1>11. QED
  BY <1>9, <1>10

-----------------------------------------------------------------------------
(* What a review finds.                                                    *)

\* The file with a colon on each of some lines.
Filled(lines, S) == [k \in DOMAIN lines |-> IF k \in S THEN Coloned(lines[k]) ELSE lines[k]]

LEMMA FilledIs ==
    ASSUME NEW lines \in Seq(Lines), NEW S, NEW filled, filled = Filled(lines, S)
    PROVE  /\ filled \in Seq(Lines)
           /\ Len(filled) = Len(lines) /\ DOMAIN filled = DOMAIN lines
           /\ Code(filled) = Code(lines)
           /\ \A k \in DOMAIN lines :
                  /\ filled[k] = IF k \in S THEN Coloned(lines[k]) ELSE lines[k]
                  /\ filled[k].indent = lines[k].indent /\ filled[k].form = lines[k].form
                  /\ filled[k].comment = lines[k].comment
                  /\ k \in S => filled[k].colon
<1>1. Len(lines) \in Nat /\ DOMAIN lines = 1 .. Len(lines)
  OBVIOUS
<1>2. ASSUME NEW line \in Lines
      PROVE  /\ Coloned(line) \in Lines
             /\ Coloned(line).indent = line.indent /\ Coloned(line).form = line.form
             /\ Coloned(line).comment = line.comment /\ Coloned(line).colon
  BY DEF Coloned, Lines
<1>3. filled = [k \in 1 .. Len(lines) |-> IF k \in S THEN Coloned(lines[k]) ELSE lines[k]]
  BY <1>1 DEF Filled
<1>4. \A k \in 1 .. Len(lines) : lines[k] \in Lines
  BY <1>1
<1>5. ASSUME NEW k \in 1 .. Len(lines)
      PROVE  /\ filled[k] = IF k \in S THEN Coloned(lines[k]) ELSE lines[k]
             /\ filled[k] \in Lines
             /\ filled[k].indent = lines[k].indent /\ filled[k].form = lines[k].form
             /\ filled[k].comment = lines[k].comment
             /\ k \in S => filled[k].colon
  <2>1. lines[k] \in Lines /\ filled[k] = IF k \in S THEN Coloned(lines[k]) ELSE lines[k]
    BY <1>3, <1>4
  <2>2. CASE k \in S
    BY <1>2, <2>1, <2>2
  <2>3. CASE k \notin S
    BY <2>1, <2>3
  <2>4. QED
    BY <2>2, <2>3
<1>6. filled \in Seq(Lines) /\ Len(filled) = Len(lines) /\ DOMAIN filled = DOMAIN lines
  BY <1>1, <1>3, <1>5
<1>7. Code(filled) = Code(lines)
  BY <1>1, <1>5, <1>6 DEF Code, Blank
<1>8. QED
  BY <1>1, <1>5, <1>6, <1>7

\* S are lines that can be given their colon, and up to the last of them nothing is
\* wrong any more once they have it.
Sound(lines, S) ==
    /\ \A k \in S : k \in Lost(lines) /\ ~lines[k].comment
    /\ \A k \in S : \A j \in Code(lines) : j <= k => Fault(Filled(lines, S), j) = "none"

\* The first error is none that a colon mends.
Ended(lines) ==
    ~ (Compile(lines).msg = "colon" /\ ~lines[Compile(lines).lineno].comment)

\* Lines that have lost their colon are lines of code.
LEMMA LostIs ==
    ASSUME NEW lines \in Seq(Lines)
    PROVE  \A k \in Lost(lines) : /\ k \in Code(lines) /\ k \in DOMAIN lines /\ k \in Nat
                                  /\ Header(lines[k]) /\ ~lines[k].colon
  BY DEF Lost, Code, Header, Blank

\* Nothing is given a colon but what is given one in the end.
LEMMA GivenFirst ==
    ASSUME NEW lines \in Seq(Lines), NEW S, NEW T, Sound(lines, S), Sound(lines, T),
           Ended(Filled(lines, S))
    PROVE  T \subseteq S
<1> DEFINE F == Filled(lines, S)
           G == Filled(lines, T)
           D == (T \ S) \cup (S \ T)
<1>1. \A k \in S \cup T : /\ k \in Code(lines) /\ k \in DOMAIN lines /\ k \in Nat
                          /\ Header(lines[k]) /\ ~lines[k].colon /\ ~lines[k].comment
  BY LostIs DEF Sound
<1>2. /\ F \in Seq(Lines) /\ Code(F) = Code(lines) /\ Len(F) = Len(lines)
      /\ \A k \in DOMAIN lines :
            /\ F[k] = IF k \in S THEN Coloned(lines[k]) ELSE lines[k]
            /\ F[k].indent = lines[k].indent /\ F[k].form = lines[k].form
            /\ F[k].comment = lines[k].comment
  BY FilledIs
<1>3. /\ G \in Seq(Lines) /\ Code(G) = Code(lines) /\ Len(G) = Len(lines)
      /\ \A k \in DOMAIN lines :
            /\ G[k] = IF k \in T THEN Coloned(lines[k]) ELSE lines[k]
            /\ G[k].indent = lines[k].indent /\ G[k].form = lines[k].form
  BY FilledIs
<1> HIDE DEF F, G
<1> SUFFICES ASSUME NEW t \in T \ S PROVE FALSE
  OBVIOUS
<1>4. PICK k \in D : \A j \in D : k <= j
  <2>1. D \subseteq Nat /\ D # {}
    BY <1>1
  <2> HIDE DEF D
  <2>2. QED
    BY <2>1, LeastNumber
<1>5. k \in Code(lines) /\ k \in DOMAIN lines /\ k \in Nat /\ k <= t
      /\ DOMAIN lines = 1 .. Len(lines) /\ Len(lines) \in Nat
  BY <1>1, <1>4
<1>6. \A j \in 1 .. k - 1 : j \in DOMAIN lines /\ (j \in S <=> j \in T)
  <2> SUFFICES ASSUME NEW j \in 1 .. k - 1 PROVE j \in DOMAIN lines /\ (j \in S <=> j \in T)
    OBVIOUS
  <2>1. j \in DOMAIN lines /\ ~ (k <= j)
    BY <1>5
  <2>2. j \notin D
    BY <1>4, <2>1
  <2>3. QED
    BY <2>1, <2>2
<1>7. \A j \in 1 .. k - 1 : F[j] = G[j]
  BY <1>2, <1>3, <1>6
<1>8. \A j \in Code(lines) : j <= k => Fault(G, j) = "none"
  <2> SUFFICES ASSUME NEW j \in Code(lines), j <= k PROVE Fault(G, j) = "none"
    OBVIOUS
  <2>1. j <= t
    <3>1. j \in Nat /\ t \in Nat /\ k \in Nat
      BY <1>1, <1>5 DEF Code
    <3>2. QED
      BY <1>5, <3>1
  <2>2. QED
    BY <2>1 DEF Sound, G
<1>9. CASE k \in T \ S
  <2>1. F[k] = lines[k] /\ F[k].indent = G[k].indent /\ F[k].form = G[k].form
        /\ k \in Code(F)
    BY <1>2, <1>3, <1>5, <1>9
  <2>2. Fault(F, k) = "colon"
    <3>1. Header(F[k]) /\ ~F[k].colon /\ Fault(G, k) = "none"
      BY <1>1, <1>5, <1>8, <1>9, <2>1
    <3>2. QED
      BY <1>2, <1>3, <1>7, <2>1, <3>1, SameFault
  <2>3. ASSUME NEW j \in Code(F), j < k PROVE Fault(F, j) = "none"
    <3>1. j \in 1 .. k - 1 /\ j \in Code(lines) /\ j \in Nat /\ j <= k
      BY <1>2, <1>5, <2>3 DEF Code
    <3>2. F[j] = G[j] /\ \A i \in 1 .. j - 1 : F[i] = G[i]
      BY <1>5, <1>7, <3>1
    <3>3. Fault(F, j) = Fault(G, j)
      BY <1>2, <1>3, <2>3, <3>2, SameFault
    <3>4. QED
      BY <1>8, <3>1, <3>3
  <2>4. Compile(F) = Error("colon", k, Max(Above(F, k) \cup {0}))
    BY <1>2, <2>1, <2>2, <2>3, FirstFault
  <2>5. Compile(F).msg = "colon" /\ Compile(F).lineno = k
    BY <2>4 DEF Error
  <2>6. ~F[k].comment
    BY <1>1, <1>9, <2>1
  <2>7. QED
    BY <2>5, <2>6 DEF Ended, F
<1>10. CASE k \in S \ T
  <2>1. G[k] = lines[k] /\ Fault(G, k) = "none" /\ k \in Code(G)
    BY <1>3, <1>5, <1>8, <1>10
  <2>2. ~Header(G[k]) \/ G[k].colon
    BY <1>3, <2>1, FaultIs
  <2>3. QED
    BY <1>1, <1>10, <2>1, <2>2
<1>11. QED
  BY <1>4, <1>9, <1>10

\* The file with one more colon.
Mended(lines, k) == [lines EXCEPT ![k] = Coloned(lines[k])]

\* Line k comes first and can be given its colon.
NextFor(lines, S, k) ==
    /\ Compile(Filled(lines, S)).msg = "colon" /\ k = Compile(Filled(lines, S)).lineno
    /\ ~Filled(lines, S)[k].comment

\* It gets it beside those of S.
GivenTo(lines, S, k) ==
    /\ k \notin S /\ k \in DOMAIN lines /\ k \in Lost(lines)
    /\ Filled(lines, S)[k] = lines[k]
    /\ Sound(lines, S \cup {k})
    /\ Mended(Filled(lines, S), k) = Filled(lines, S \cup {k})

\* A missing colon that comes first is the next to be given.
LEMMA GivenNext ==
    ASSUME NEW lines \in Seq(Lines), NEW S, Sound(lines, S), NEW k, NextFor(lines, S, k)
    PROVE  GivenTo(lines, S, k)
<1> DEFINE F == Filled(lines, S)
           U == S \cup {k}
           G == Filled(lines, U)
<1>1. /\ F \in Seq(Lines) /\ Code(F) = Code(lines) /\ Len(F) = Len(lines)
      /\ DOMAIN F = DOMAIN lines
      /\ \A j \in DOMAIN lines :
            /\ F[j] = IF j \in S THEN Coloned(lines[j]) ELSE lines[j]
            /\ F[j].indent = lines[j].indent /\ F[j].form = lines[j].form
            /\ F[j].comment = lines[j].comment
            /\ j \in S => F[j].colon
  BY FilledIs
<1>2. /\ G \in Seq(Lines) /\ Code(G) = Code(lines) /\ Len(G) = Len(lines)
      /\ DOMAIN G = DOMAIN lines
      /\ \A j \in DOMAIN lines :
            /\ G[j] = IF j \in U THEN Coloned(lines[j]) ELSE lines[j]
            /\ G[j].indent = lines[j].indent /\ G[j].form = lines[j].form
            /\ j \in U => G[j].colon
  <2> HIDE DEF U
  <2>1. QED
    BY FilledIs
<1>3. F = [j \in DOMAIN lines |-> F[j]] /\ G = [j \in DOMAIN lines |-> G[j]]
  BY DEF Filled
<1>4. Compile(F).msg = "colon" /\ k = Compile(F).lineno /\ ~F[k].comment
  BY DEF NextFor
<1>5. \A j \in S : j \in Code(lines) /\ j \in DOMAIN lines /\ j \in Nat
                   /\ \A i \in Code(lines) : i <= j => Fault(F, i) = "none"
  BY LostIs DEF Sound
<1> HIDE DEF F, G
<1>6. /\ k \in Code(lines) /\ k \in DOMAIN lines /\ k \in Nat
      /\ Fault(F, k) = "colon"
      /\ \A j \in Code(lines) : j < k => Fault(F, j) = "none"
  <2>1. /\ k \in Code(F) /\ Fault(F, k) = "colon"
        /\ \A j \in Code(F) : j < k => Fault(F, j) = "none"
    BY <1>1, <1>4, CompileIs
  <2>2. QED
    BY <1>1, <2>1 DEF Code
<1>7. Header(F[k]) /\ ~F[k].colon
  BY <1>1, <1>6, FaultIs
<1>8. k \notin S /\ F[k] = lines[k]
  BY <1>1, <1>6, <1>7
<1>9. k \in Lost(lines) /\ ~lines[k].comment
  BY <1>4, <1>6, <1>7, <1>8 DEF Lost
<1>10. \A j \in 1 .. k - 1 : j \in DOMAIN lines /\ G[j] = F[j]
  <2>1. DOMAIN lines = 1 .. Len(lines) /\ Len(lines) \in Nat
    OBVIOUS
  <2>2. \A j \in 1 .. k - 1 : j \in DOMAIN lines /\ j # k
    BY <1>6, <2>1
  <2>3. QED
    BY <1>1, <1>2, <2>2
<1>11. G[k].indent = F[k].indent /\ G[k].form = F[k].form /\ G[k].colon
  BY <1>1, <1>2, <1>6
<1>12. ASSUME NEW j \in Code(lines), j <= k PROVE Fault(G, j) = "none"
  <2>0. j \in Nat
    BY DEF Code
  <2>1. CASE j = k
    <3>1. Fault(F, k) = "colon" /\ G[k].colon => Fault(G, k) = "none"
      BY <1>1, <1>2, <1>6, <1>10, <1>11, SameFault
    <3>2. QED
      BY <1>6, <1>11, <2>1, <3>1
  <2>2. CASE j # k
    <3>1. j < k /\ j \in 1 .. k - 1
      BY <1>6, <1>12, <2>0, <2>2 DEF Code
    <3>2. F[j] = G[j] /\ \A i \in 1 .. j - 1 : F[i] = G[i]
      BY <1>6, <1>10, <2>0, <3>1
    <3>3. Fault(F, j) = Fault(G, j)
      BY <1>1, <1>2, <3>2, SameFault
    <3>4. QED
      BY <1>6, <3>1, <3>3
  <2>3. QED
    BY <2>1, <2>2
<1>13. ASSUME NEW j \in U PROVE j <= k
  <2>1. CASE j = k
    BY <1>6, <2>1
  <2>2. CASE j \in S
    <3>1. ~ (k <= j)
      BY <1>5, <1>6, <2>2
    <3>2. QED
      BY <1>5, <1>6, <2>2, <3>1
  <2>3. QED
    BY <2>1, <2>2
<1>14. Sound(lines, U)
  <2>1. \A j \in U : j \in Lost(lines) /\ ~lines[j].comment
    BY <1>9 DEF Sound
  <2>2. ASSUME NEW j \in U, NEW i \in Code(lines), i <= j PROVE Fault(G, i) = "none"
    <3>1. i \in Nat /\ j \in Nat /\ j <= k
      BY <1>5, <1>6, <1>13 DEF Code
    <3>2. i <= k
      BY <1>6, <2>2, <3>1
    <3>3. QED
      BY <1>12, <3>2
  <2>3. QED
    BY <2>1, <2>2 DEF Sound, G
<1>15. Mended(F, k) = G
  <2>0. Mended(F, k) = [F EXCEPT ![k] = Coloned(lines[k])]
    BY <1>8 DEF Mended
  <2>1. \A j \in DOMAIN lines : [F EXCEPT ![k] = Coloned(lines[k])][j] = G[j]
    BY <1>1, <1>2, <1>3, <1>6
  <2>2. QED
    BY <1>3, <2>0, <2>1
<1>16. QED
  BY <1>6, <1>8, <1>9, <1>14, <1>15 DEF F, G, GivenTo

\* The first n findings give their colon to the lines of S, one each.
Given(lines, S, c, n, fs) ==
    /\ Sound(lines, S)
    /\ n \in Nat /\ c \in [1 .. n -> S]
    /\ \A k \in S : \E i \in 1 .. n : c[i] = k
    /\ \A i, j \in 1 .. n : c[i] = c[j] => i = j
    /\ fs \in Seq(FixFindings) /\ n <= Len(fs)
    /\ \A i \in 1 .. n : fs[i] = ColonFix(lines, c[i])

\* Nothing is wrong behind that, or one more finding is about what is wrong.
Finished(lines, S, n, fs) ==
    LET filled == Filled(lines, S)
        e == Compile(filled)
    IN  \/ Len(fs) = n /\ e.msg = "none"
        \/ Len(fs) = n + 1 /\ e.msg # "none" /\ Ended(filled)
           /\ fs[n + 1] = SyntaxErrorFix(filled, e)

Underway(lines, r, was) ==
    \E S, n, c :
        /\ Given(lines, S, c, n, was.findings)
        /\ n \in 0 .. r
        /\ was.lines = Filled(lines, S)
        /\ Len(was.findings) <= r
        /\ was.done => Finished(lines, S, n, was.findings)
        /\ ~was.done => n = r /\ Len(was.findings) = n

\* A round keeps to that.
LEMMA UnderwayNext ==
    ASSUME NEW lines \in Seq(Lines), NEW r \in Nat, NEW was \in Collected,
           Underway(lines, r, was)
    PROVE  Underway(lines, r + 1, Collect(was, r + 1))
<1>1. PICK S, n, c :
          /\ Given(lines, S, c, n, was.findings)
          /\ n \in 0 .. r
          /\ was.lines = Filled(lines, S)
          /\ Len(was.findings) <= r
          /\ was.done => Finished(lines, S, n, was.findings)
          /\ ~was.done => n = r /\ Len(was.findings) = n
  BY DEF Underway
<1> DEFINE F == Filled(lines, S)
           e == Compile(F)
           f == SyntaxErrorFix(F, e)
           fs == was.findings
           next == IF f.tier = "HIGH" THEN [F EXCEPT ![e.lineno] = f.fix[1]] ELSE F
           now == Collect(was, r + 1)
<1>2. F \in Seq(Lines) /\ fs \in Seq(FixFindings) /\ n \in Nat /\ Len(fs) \in Nat
  <2>1. F \in Seq(Lines) /\ fs \in Seq(FixFindings)
    BY <1>1, FilledIs DEF Collected
  <2>2. n \in Nat
    BY <1>1
  <2> HIDE DEF F, fs
  <2>3. QED
    BY <2>1, <2>2, LenProperties
<1>3. CASE was.done \/ e.msg = "none"
  <2>1. now = [was EXCEPT !.done = TRUE]
    BY <1>1, <1>3 DEF Collect
  <2>2. now.findings = fs /\ now.lines = F /\ now.done
    BY <1>1, <2>1 DEF Collected
  <2>3. Finished(lines, S, n, fs)
    BY <1>1, <1>3 DEF Finished
  <2> HIDE DEF now, F
  <2>4. n \in 0 .. r + 1 /\ Len(fs) <= r + 1
    BY <1>1, <1>2
  <2> HIDE DEF fs
  <2>5. QED
    <3>1. Given(lines, S, c, n, now.findings) /\ Finished(lines, S, n, now.findings)
      BY <1>1, <2>2, <2>3 DEF fs
    <3>2. QED
      BY <1>1, <2>2, <2>4, <3>1, Zenon DEF Underway, now, F
<1>4. CASE ~ (was.done \/ e.msg = "none")
  <2>1. now = [findings |-> Append(fs, f), lines |-> next, done |-> f.tier # "HIGH"]
    BY <1>1, <1>4 DEF Collect
  <2>2. n = r /\ Len(fs) = n
    BY <1>1, <1>4
  <2>3. /\ f \in FixFindings /\ e.lineno \in DOMAIN F
        /\ f.tier = "HIGH" <=> e.msg = "colon" /\ ~F[e.lineno].comment
        /\ f.tier = "HIGH" => f = ColonFix(F, e.lineno)
    <3> HIDE DEF F
    <3>1. e = Compile(F) /\ e.msg # "none"
      BY <1>4
    <3> HIDE DEF e
    <3>2. QED
      BY <1>2, <3>1, OfferType
  <2> HIDE DEF f, next, now, F
  <2>4. now.findings = Append(fs, f) /\ now.lines = next /\ (now.done <=> f.tier # "HIGH")
    BY <2>1
  <2> HIDE DEF fs
  <2>5. /\ Append(fs, f) \in Seq(FixFindings) /\ Len(Append(fs, f)) = n + 1
        /\ \A i \in 1 .. n : Append(fs, f)[i] = fs[i]
        /\ Append(fs, f)[n + 1] = f
    BY <1>2, <2>2, <2>3, AppendProperties
  <2> DEFINE gs == Append(fs, f)
  <2> HIDE DEF gs
  <2>6. CASE f.tier = "HIGH"
    <3> DEFINE k == e.lineno
               U == S \cup {k}
               d == [i \in 1 .. n + 1 |-> IF i = n + 1 THEN k ELSE c[i]]
    <3> HIDE DEF e
    <3>1. /\ k \notin S /\ k \in DOMAIN lines /\ F[k] = lines[k]
          /\ Sound(lines, U) /\ Mended(F, k) = Filled(lines, U)
      <4>1. k = Compile(Filled(lines, S)).lineno
        BY DEF e, F
      <4>2. Sound(lines, S) /\ Compile(Filled(lines, S)).msg = "colon"
            /\ ~Filled(lines, S)[k].comment
        BY <1>1, <2>3, <2>6 DEF Given, e, F
      <4> HIDE DEF k, U
      <4>3. NextFor(lines, S, k)
        BY <4>1, <4>2 DEF NextFor
      <4>4. GivenTo(lines, S, k)
        BY <4>2, <4>3, GivenNext
      <4>5. QED
        BY <4>4 DEF F, U, GivenTo
    <3>2. f = ColonFix(lines, k) /\ next = Filled(lines, U)
      <4>1. f = ColonFix(F, k)
        BY <2>3, <2>6
      <4>2. f = ColonFix(lines, k)
        BY <3>1, <4>1 DEF ColonFix
      <4>3. f.fix[1] = Coloned(lines[k])
        BY <3>1, <4>2, ColonFixType
      <4>4. QED
        BY <2>6, <3>1, <4>2, <4>3 DEF next, Mended
    <3>3. /\ d \in [1 .. n + 1 -> U] /\ d[n + 1] = k
          /\ \A i \in 1 .. n : d[i] = c[i] /\ c[i] \in S
      <4>1. c \in [1 .. n -> S]
        BY <1>1 DEF Given
      <4> HIDE DEF k
      <4>2. QED
        BY <1>2, <4>1
    <3> HIDE DEF d
    <3>4. \A i \in 1 .. n + 1 : i \in 1 .. n \/ i = n + 1
      BY <1>2
    <3>5. Given(lines, U, d, n + 1, gs)
      <4>1. /\ \A x \in S : \E i \in 1 .. n : c[i] = x
            /\ \A i, j \in 1 .. n : c[i] = c[j] => i = j
            /\ \A i \in 1 .. n : fs[i] = ColonFix(lines, c[i])
        BY <1>1 DEF Given, fs
      <4>2. \A x \in U : \E i \in 1 .. n + 1 : d[i] = x
        <5>1. \A i \in 1 .. n : i \in 1 .. n + 1
          BY <1>2
        <5>2. n + 1 \in 1 .. n + 1
          BY <1>2
        <5>3. QED
          BY <3>3, <4>1, <5>1, <5>2
      <4>3. \A i, j \in 1 .. n + 1 : d[i] = d[j] => i = j
        <5> SUFFICES ASSUME NEW i \in 1 .. n + 1, NEW j \in 1 .. n + 1, d[i] = d[j]
                     PROVE  i = j
          OBVIOUS
        <5>1. CASE i = n + 1 \/ j = n + 1
          BY <3>1, <3>3, <3>4, <5>1
        <5>2. CASE i \in 1 .. n /\ j \in 1 .. n
          BY <3>3, <4>1, <5>2
        <5>3. QED
          BY <3>4, <5>1, <5>2
      <4>4. \A i \in 1 .. n + 1 : gs[i] = ColonFix(lines, d[i])
        <5> SUFFICES ASSUME NEW i \in 1 .. n + 1 PROVE gs[i] = ColonFix(lines, d[i])
          OBVIOUS
        <5>1. CASE i = n + 1
          BY <2>5, <3>2, <3>3, <5>1 DEF gs
        <5>2. CASE i \in 1 .. n
          BY <2>5, <3>3, <4>1, <5>2 DEF gs
        <5>3. QED
          BY <3>4, <5>1, <5>2
      <4>5. n + 1 \in Nat /\ gs \in Seq(FixFindings) /\ n + 1 <= Len(gs)
        BY <1>2, <2>5 DEF gs
      <4>6. QED
        BY <3>1, <3>3, <4>2, <4>3, <4>4, <4>5 DEF Given
    <3>6. now.findings = gs /\ now.lines = Filled(lines, U) /\ ~now.done
          /\ Len(gs) = n + 1 /\ n + 1 = r + 1 /\ n + 1 \in 0 .. r + 1 /\ Len(gs) <= r + 1
      BY <1>2, <2>2, <2>4, <2>5, <2>6, <3>2 DEF gs
    <3> HIDE DEF U
    <3>7. Underway(lines, r + 1, now)
      <4> DEFINE m == n + 1
      <4> HIDE DEF m
      <4>1. m \in 0 .. r + 1 /\ d \in [1 .. m -> U] /\ Given(lines, U, d, m, now.findings)
            /\ Len(now.findings) = m /\ m = r + 1
        BY <3>3, <3>5, <3>6, Zenon DEF m
      <4>2. Len(now.findings) <= r + 1
        BY <3>6
      <4>3. QED
        BY <3>6, <4>1, <4>2, Zenon DEF Underway
    <3>8. QED
      BY <3>7 DEF now
  <2>7. CASE f.tier # "HIGH"
    <3>1. next = F /\ now.done /\ now.findings = gs
      BY <2>4, <2>7 DEF next, gs
    <3>2. Given(lines, S, c, n, gs)
      <4>1. \A i \in 1 .. n : gs[i] = fs[i]
        BY <2>5 DEF gs
      <4>2. gs \in Seq(FixFindings) /\ n <= Len(gs)
        BY <1>2, <2>5 DEF gs
      <4>3. Given(lines, S, c, n, fs)
        BY <1>1 DEF fs
      <4>4. QED
        BY <4>1, <4>2, <4>3 DEF Given
    <3>3. Finished(lines, S, n, gs)
      <4>1. Len(gs) = n + 1 /\ gs[n + 1] = f /\ e.msg # "none"
        BY <1>4, <2>5 DEF gs
      <4>2. Ended(F)
        BY <2>3, <2>7 DEF Ended
      <4>3. QED
        BY <4>1, <4>2 DEF Finished, F, f
    <3>4. n \in 0 .. r + 1 /\ Len(gs) <= r + 1
      BY <1>2, <2>2, <2>5 DEF gs
    <3>5. now.lines = Filled(lines, S)
      BY <2>4, <3>1 DEF F
    <3>6. Underway(lines, r + 1, now)
      BY <3>1, <3>2, <3>3, <3>4, <3>5, Zenon DEF Underway
    <3>7. QED
      BY <3>6 DEF now
  <2>8. QED
    BY <2>6, <2>7
<1>5. QED
  BY <1>3, <1>4

\* So a review gives back colons, from the top down, and reports one error more if
\* it stops at one that is another; unless it is cut short.
LEMMA FindingsAre ==
    ASSUME NEW lines \in Seq(Lines)
    PROVE  \E S, n, c :
               /\ Given(lines, S, c, n, Findings(lines))
               /\ n \in 0 .. Rounds
               /\ Len(Findings(lines)) <= Rounds
               /\ \/ Finished(lines, S, n, Findings(lines))
                  \/ n = Rounds /\ Len(Findings(lines)) = n
<1>1. PICK sofar \in [0 .. Rounds -> Collected] :
          CollectedBy(lines, sofar) /\ Findings(lines) = sofar[Rounds].findings
  BY CollectingIs
<1>2. Rounds \in Nat
  BY DEF Rounds, MaxSyntaxErrorsPerReview
<1> DEFINE P == {r \in 0 .. Rounds : Underway(lines, r, sofar[r])}
<1>3. 0 \in P
  <2>1. sofar[0] = Unread(lines)
    BY <1>1 DEF CollectedBy
  <2>2. sofar[0].findings = << >> /\ sofar[0].lines = lines /\ sofar[0].done = FALSE
    BY <2>1 DEF Unread
  <2> DEFINE c == [i \in 1 .. 0 |-> 0]
  <2>3. c \in [1 .. 0 -> {}]
    OBVIOUS
  <2>4. Filled(lines, {}) = lines
    <3>1. Filled(lines, {}) = [k \in DOMAIN lines |-> lines[k]]
      BY DEF Filled
    <3>2. QED
      BY <3>1
  <2> HIDE DEF c
  <2>5. Given(lines, {}, c, 0, << >>)
    <3>1. << >> \in Seq(FixFindings) /\ Len(<< >>) = 0
      OBVIOUS
    <3>2. QED
      BY <2>3, <3>1 DEF Given, Sound
  <2>6. 0 \in 0 .. 0 /\ Len(<< >>) = 0 /\ Len(<< >>) <= 0 /\ 0 \in 0 .. Rounds
    BY <1>2
  <2> DEFINE z == sofar[0]
             none == << >>
             empty == {}
  <2> HIDE DEF z, none, empty
  <2>7. Given(lines, empty, c, 0, z.findings) /\ z.lines = Filled(lines, empty) /\ ~z.done
        /\ Len(z.findings) = 0 /\ Len(z.findings) <= 0 /\ c \in [1 .. 0 -> empty]
    BY <2>2, <2>3, <2>4, <2>5, <2>6 DEF z, empty
  <2>8. Underway(lines, 0, z)
    BY <2>6, <2>7, Zenon DEF Underway
  <2>9. QED
    BY <2>6, <2>8 DEF z
<1>4. ASSUME NEW r \in 1 .. Rounds, r - 1 \in P PROVE r \in P
  <2> DEFINE q == r - 1
  <2>1. q \in Nat /\ q \in 0 .. Rounds /\ q + 1 = r /\ r \in 0 .. Rounds
    BY <1>2
  <2>2. Underway(lines, q, sofar[q]) /\ sofar[r] = Collect(sofar[q], r)
    BY <1>1, <1>4 DEF CollectedBy
  <2> HIDE DEF q
  <2>3. sofar[q] \in Collected
    BY <2>1
  <2>4. Underway(lines, q + 1, Collect(sofar[q], q + 1))
    BY <2>1, <2>2, <2>3, UnderwayNext
  <2>5. QED
    BY <2>1, <2>2, <2>4
<1>5. Underway(lines, Rounds, sofar[Rounds])
  <2>1. 0 .. Rounds \subseteq P
    <3> HIDE DEF P
    <3>1. QED
      BY <1>2, <1>3, <1>4, Upwards
  <2>2. Rounds \in 0 .. Rounds
    BY <1>2
  <2>3. QED
    BY <2>1, <2>2
<1>6. QED
  BY <1>1, <1>5, Zenon DEF Underway

-----------------------------------------------------------------------------
(* What its fixes make of the file.                                        *)

\* Files and findings are what apply_fixes_to_file() takes.
LEMMA TakesFile ==
    ASSUME NEW lines \in Seq(Lines)
    PROVE  IsSeq(lines)
<1> DEFINE T == {lines[i] : i \in DOMAIN lines}
<1>1. DOMAIN lines = 1 .. Len(lines)
  OBVIOUS
<1>2. \A k \in 1 .. Len(lines) : lines[k] \in T
  BY <1>1
<1> HIDE DEF T
<1>3. lines \in Seq(T)
  BY <1>2, MadeOf
<1>4. QED
  BY <1>3 DEF IsSeq, T

LEMMA TakesFindings ==
    ASSUME NEW fs \in Seq(FixFindings)
    PROVE  /\ AreFindings(fs)
           /\ \A i \in DOMAIN fs : fs[i] \in FixFindings
<1> DEFINE T == {fs[i] : i \in DOMAIN fs}
<1>1. DOMAIN fs = 1 .. Len(fs) /\ \A i \in DOMAIN fs : fs[i] \in FixFindings
  OBVIOUS
<1>2. \A k \in 1 .. Len(fs) : fs[k] \in T
  BY <1>1
<1> HIDE DEF T
<1>3. fs \in Seq(T)
  BY <1>2, MadeOf
<1>4. IsSeq(fs)
  BY <1>3 DEF IsSeq, T
<1>5. ASSUME NEW i \in DOMAIN fs
      PROVE  /\ fs[i].line \in Nat /\ fs[i].end \in Nat /\ fs[i].has_fix \in BOOLEAN
             /\ fs[i].fix \in Seq(Lines)
  BY <1>1 DEF FixFindings
<1>6. \A i \in DOMAIN fs : IsSeq(fs[i].fix)
  BY <1>5, TakesFile
<1>7. QED
  BY <1>1, <1>4, <1>5, <1>6 DEF AreFindings

\* A repaired file is made of lines.
LEMMA PatchedType ==
    ASSUME NEW lines \in Seq(Lines), NEW fs \in Seq(FixFindings)
    PROVE  Patched(lines, fs) \in Seq(Lines)
<1>1. IsSeq(lines) /\ AreFindings(fs) /\ \A i \in DOMAIN fs : fs[i] \in FixFindings
  BY TakesFile, TakesFindings
<1>2. Patch(lines, fs) \in Outcomes(lines, fs)
  BY <1>1, PatchMade
<1>3. Patched(lines, fs) \in Seq(AnyLine(lines, fs))
  BY <1>2 DEF Outcomes, Patched
<1>4. \A x \in AnyLine(lines, fs) : x \in Lines
  <2>1. \A i \in DOMAIN lines : lines[i] \in Lines
    OBVIOUS
  <2>2. ASSUME NEW k \in Fixable(fs), NEW i \in DOMAIN fs[k].fix PROVE fs[k].fix[i] \in Lines
    <3>1. fs[k] \in FixFindings
      BY <1>1 DEF Fixable
    <3>2. fs[k].fix \in Seq(Lines)
      BY <3>1 DEF FixFindings
    <3>3. QED
      BY <3>2
  <2>3. QED
    BY <2>1, <2>2 DEF AnyLine
<1> DEFINE p == Patched(lines, fs)
           T == AnyLine(lines, fs)
<1> HIDE DEF p, T
<1>5. p \in Seq(T) /\ \A x \in T : x \in Lines
  BY <1>3, <1>4 DEF p, T
<1>6. \A k \in 1 .. Len(p) : p[k] \in Lines
  BY <1>5
<1>7. p \in Seq(Lines)
  BY <1>5, <1>6, MadeOf
<1>8. QED
  BY <1>7 DEF p

\* The ranges of fixes that do not overlap, and what they bring is what there should
\* be, as everywhere else there is already.
Fits(lines, fs, goal) ==
    /\ goal \in Seq(Lines) /\ Len(goal) = Len(lines)
    /\ \A i \in Fixable(fs) :
           /\ 0 < fs[i].line /\ End(fs[i]) <= Len(lines)
           /\ fs[i].fix = SubSeq(goal, fs[i].line, End(fs[i]))
    /\ \A i, j \in Fixable(fs) : i # j => ~Overlap(fs[i], fs[j])
    /\ \A k \in DOMAIN lines :
           goal[k] = lines[k] \/ \E i \in Fixable(fs) : fs[i].line <= k /\ k <= End(fs[i])

\* So that it is what comes out.
LEMMA PatchedAs ==
    ASSUME NEW lines \in Seq(Lines), NEW fs \in Seq(FixFindings), NEW goal,
           Fits(lines, fs, goal)
    PROVE  Patched(lines, fs) = goal
<1> DEFINE N == Len(lines)
           T == AnyLine(lines, fs)
           Within(n) == \E i \in Fixable(fs) : fs[i].line < n /\ n <= End(fs[i])
<1>1. /\ IsSeq(lines) /\ AreFindings(fs) /\ N \in Nat /\ DOMAIN lines = 1 .. N
      /\ goal \in Seq(Lines) /\ Len(goal) = N /\ DOMAIN goal = 1 .. N
  BY TakesFile, TakesFindings DEF Fits
<1>2. \A i \in Fixable(fs) :
          /\ fs[i].line \in Nat /\ End(fs[i]) \in Nat /\ fs[i].line <= End(fs[i])
          /\ 0 < fs[i].line /\ End(fs[i]) <= N
          /\ fs[i].fix = SubSeq(goal, fs[i].line, End(fs[i]))
  BY <1>1, EndOf DEF AreFindings, Fixable, Fits
<1> DEFINE a == [i \in Fixable(fs) |-> fs[i].line]
           b == [i \in Fixable(fs) |-> End(fs[i])]
<1>0. \A i \in Fixable(fs) : a[i] \in Nat /\ b[i] \in Nat /\ a[i] <= b[i] /\ 0 < a[i] /\ b[i] <= N
                             /\ fs[i].line = a[i] /\ End(fs[i]) = b[i]
  BY <1>2
<1> HIDE DEF a, b
<1>3. Undisputed(lines, fs) = Fixable(fs)
  BY <1>2 DEF Undisputed, Fits
<1>4. PICK last \in [0 .. N -> Seq(T)] :
          IntendedBy(lines, fs, last) /\ Intended(lines, fs) = last[N]
  BY <1>1, IntendedIs
<1>5. Patched(lines, fs) = last[N]
  BY <1>1, <1>4, PatchIsIntended DEF Patched
<1> DEFINE Right(n) == From(lines, last, n) = SubSeq(goal, n, N)
           Good(m) == \A n \in N + 1 - m .. N + 1 : Within(n) \/ Right(n)
           P == {m \in 0 .. N : Good(m)}
<1>6. 0 \in P
  <2>1. SubSeq(goal, N + 1, N) = << >>
    <3>1. N + 1 > N
      BY <1>1
    <3> HIDE DEF N
    <3>2. QED
      BY <1>1, <3>1, SubSeqEmpty
  <2>2. From(lines, last, N + 1) = << >>
    BY <1>1, <1>4, FromIs
  <2>3. Right(N + 1)
    BY <2>1, <2>2
  <2>4. \A n \in N + 1 - 0 .. N + 1 : n = N + 1
    BY <1>1
  <2> HIDE DEF Right, Within
  <2>5. QED
    BY <1>1, <2>3, <2>4
<1>7. ASSUME NEW m \in 1 .. N, m - 1 \in P PROVE m \in P
  <2> DEFINE n == N + 1 - m
  <2>1. n \in 1 .. N /\ n \in Nat /\ m \in 0 .. N /\ n + 1 = N + 1 - (m - 1)
    BY <1>1
  <2>2. \A k \in n + 1 .. N + 1 : Within(k) \/ Right(k)
    BY <1>7, <2>1
  <2> HIDE DEF n, T
  <2>3. Within(n) \/ Right(n)
    <3> SUFFICES ASSUME ~Within(n) PROVE Right(n)
      OBVIOUS
    <3>1. CASE \E i \in Fixable(fs) : fs[i].line = n
      <4>1. PICK i \in Fixable(fs) : fs[i].line = n
        BY <3>1
      <4> DEFINE e == End(fs[i])
      <4>2. e \in Nat /\ n <= e /\ e <= N /\ fs[i].fix = SubSeq(goal, n, e)
        BY <1>2, <4>1
      <4>3. From(lines, last, n) = fs[i].fix \o From(lines, last, e + 1)
        BY <1>1, <1>3, <1>4, <4>1, LinesGiveWay DEF T
      <4>4. ~Within(e + 1)
        <5> SUFFICES ASSUME NEW j \in Fixable(fs), fs[j].line < e + 1, e + 1 <= End(fs[j])
                     PROVE  FALSE
          OBVIOUS
        <5>1. j # i /\ fs[j].line <= e /\ n <= End(fs[j])
          <6>1. e = b[i] /\ fs[j].line = a[j] /\ End(fs[j]) = b[j]
            BY <1>0
          <6>2. a[j] \in Nat /\ b[j] \in Nat /\ b[i] \in Nat /\ a[j] < b[i] + 1 /\ b[i] + 1 <= b[j]
            BY <1>0, <6>1
          <6> HIDE DEF e
          <6> DEFINE aj == a[j]
                     bj == b[j]
          <6> HIDE DEF aj, bj
          <6>3. e \in Nat /\ n \in Nat /\ n <= e /\ aj \in Nat /\ bj \in Nat
                /\ aj < e + 1 /\ e + 1 <= bj
            BY <2>1, <4>2, <6>1, <6>2, Zenon DEF aj, bj
          <6>4. aj <= e /\ n <= bj /\ e # bj
            BY ONLY <6>3
          <6>5. QED
            BY <6>1, <6>4, Zenon DEF aj, bj
        <5>2. Overlap(fs[i], fs[j])
          BY <4>1, <5>1 DEF Overlap
        <5>3. QED
          BY <5>1, <5>2 DEF Fits
      <4>5. e + 1 \in n + 1 .. N + 1
        BY <2>1, <4>2, <1>1
      <4> HIDE DEF e, Within
      <4>6. From(lines, last, e + 1) = SubSeq(goal, e + 1, N)
        BY <2>2, <4>4, <4>5
      <4>7. SubSeq(goal, n, e) \o SubSeq(goal, e + 1, N) = SubSeq(goal, n, N)
        <5>1. n \in 1 .. N + 1 /\ e \in n - 1 .. N /\ N \in e .. N
          BY <1>1, <2>1, <4>2
        <5> HIDE DEF N
        <5>2. QED
          BY <1>1, <5>1, ConcatAdjacentSubSeq
      <4>8. QED
        BY <4>2, <4>3, <4>6, <4>7, Zenon
    <3>2. CASE \A i \in Fixable(fs) : fs[i].line # n
      <4>1. \A i \in Fixable(fs) : n < fs[i].line \/ End(fs[i]) < n
        <5> SUFFICES ASSUME NEW i \in Fixable(fs) PROVE n < fs[i].line \/ End(fs[i]) < n
          OBVIOUS
        <5>1. ~ (fs[i].line < n /\ n <= End(fs[i])) /\ fs[i].line # n
          BY <3>2
        <5>2. a[i] \in Nat /\ b[i] \in Nat /\ ~ (a[i] < n /\ n <= b[i]) /\ a[i] # n
          BY <1>0, <5>1
        <5>3. n < a[i] \/ b[i] < n
          BY <2>1, <5>2
        <5>4. QED
          BY <1>0, <5>3
      <4>2. Instead(lines, fs, n) = <<lines[n]>>
        BY <1>1, <1>3, <2>1, <4>1, InsteadIs
      <4>3. goal[n] = lines[n]
        <5>1. n \in DOMAIN lines
          BY <1>1, <2>1
        <5>2. ~ \E i \in Fixable(fs) : fs[i].line <= n /\ n <= End(fs[i])
          <6>1. ASSUME NEW i \in Fixable(fs), a[i] <= n, n <= b[i] PROVE FALSE
            <7>1. n < a[i] \/ b[i] < n
              BY <1>0, <4>1
            <7>2. QED
              BY <1>0, <2>1, <6>1, <7>1
          <6>2. QED
            BY <1>0, <6>1
        <5>3. QED
          BY <5>1, <5>2 DEF Fits
      <4>4. ~Within(n + 1)
        <5> SUFFICES ASSUME NEW j \in Fixable(fs), fs[j].line < n + 1, n + 1 <= End(fs[j])
                     PROVE  FALSE
          OBVIOUS
        <5>1. a[j] \in Nat /\ b[j] \in Nat /\ a[j] < n + 1 /\ n + 1 <= b[j]
          BY <1>0
        <5>2. n < a[j] \/ b[j] < n
          BY <1>0, <4>1
        <5>3. QED
          BY <2>1, <5>1, <5>2
      <4>5. n + 1 \in n + 1 .. N + 1
        BY <1>1, <2>1
      <4> HIDE DEF Within
      <4>6. From(lines, last, n + 1) = SubSeq(goal, n + 1, N)
        BY <2>2, <4>4, <4>5
      <4>7. From(lines, last, n) = <<goal[n]>> \o SubSeq(goal, n + 1, N)
        <5>1. From(lines, last, n) = Instead(lines, fs, n) \o From(lines, last, n + 1)
          BY <1>1, <1>4, <2>1, FromIs DEF T
        <5>2. QED
          BY <4>2, <4>3, <4>6, <5>1, Zenon
      <4>8. <<goal[n]>> \o SubSeq(goal, n + 1, N) = SubSeq(goal, n, N)
        <5>1. SubSeq(goal, n, n) = <<goal[n]>>
          <6> DEFINE one == SubSeq(goal, n, n)
          <6>1. n \in Int /\ n <= n /\ n - n + 1 = 1 /\ 1 \in 1 .. n - n + 1 /\ n + 1 - 1 = n
                /\ \A k \in n .. n : goal[k] \in Lines
            BY <1>1, <2>1
          <6>2. one \in Seq(Lines) /\ Len(one) = 1 /\ one[1] = goal[n]
            BY <6>1, SubSeqProperties
          <6> HIDE DEF one
          <6>3. one = <<one[1]>>
            BY <6>2
          <6>4. QED
            BY <6>2, <6>3, Zenon DEF one
        <5>2. n \in 1 .. N + 1 /\ n \in n - 1 .. N /\ N \in n .. N
          BY <1>1, <2>1
        <5> HIDE DEF N
        <5>3. SubSeq(goal, n, n) \o SubSeq(goal, n + 1, N) = SubSeq(goal, n, N)
          BY <1>1, <5>2, ConcatAdjacentSubSeq
        <5>4. QED
          BY <5>1, <5>3, Zenon
      <4>9. QED
        BY <4>7, <4>8, Zenon
    <3>3. QED
      BY <3>1, <3>2
  <2> HIDE DEF Within, Right
  <2>4. \A k \in n .. N + 1 : k = n \/ k \in n + 1 .. N + 1
    BY <1>1, <2>1
  <2>5. \A k \in N + 1 - m .. N + 1 : Within(k) \/ Right(k)
    BY <2>2, <2>3, <2>4 DEF n
  <2>6. QED
    BY <2>1, <2>5
<1>8. 0 .. N \subseteq P
  <2> HIDE DEF P, N
  <2>1. QED
    BY <1>1, <1>6, <1>7, Upwards
<1>9. Right(1)
  <2>1. N \in 0 .. N /\ N + 1 - N = 1 /\ 1 \in 1 .. N + 1
    BY <1>1
  <2>2. Within(1) \/ Right(1)
    <3>1. Good(N)
      BY <1>8, <2>1
    <3> HIDE DEF Within, Right
    <3>2. QED
      BY <2>1, <3>1
  <2>3. ~Within(1)
    <3> SUFFICES ASSUME NEW i \in Fixable(fs), fs[i].line < 1 PROVE FALSE
      OBVIOUS
    <3>1. fs[i].line \in Nat /\ 0 < fs[i].line
      BY <1>2
    <3>2. QED
      BY <3>1
  <2>4. QED
    BY <2>2, <2>3
<1>10. From(lines, last, 1) = last[N]
  <2>1. N + 1 - 1 = N
    BY <1>1
  <2>2. QED
    BY <2>1 DEF From
<1>11. SubSeq(goal, 1, N) = goal
  BY <1>1, SubSeqFull
<1>12. QED
  BY <1>5, <1>9, <1>10, <1>11, Zenon

-----------------------------------------------------------------------------
(* Every colon back.                                                       *)

LEMMA GivenCount ==
    ASSUME NEW lines, NEW S, NEW c, NEW n, NEW fs, Given(lines, S, c, n, fs)
    PROVE  IsFiniteSet(S) /\ Cardinality(S) = n
<1>1. n \in Nat /\ c \in [1 .. n -> S] /\ (\A k \in S : \E i \in 1 .. n : c[i] = k)
      /\ \A i, j \in 1 .. n : c[i] = c[j] => i = j
  BY DEF Given
<1>2. c \in Bijection(1 .. n, S)
  BY <1>1 DEF Bijection, Injection, Surjection, IsInjective
<1>3. ExistsBijection(1 .. n, S)
  BY <1>2 DEF ExistsBijection
<1>4. IsFiniteSet(1 .. n) /\ Cardinality(1 .. n) = n
  BY <1>1, FS_Interval
<1>5. QED
  BY <1>3, <1>4, FS_Bijection

LEMMA LostCount ==
    ASSUME NEW lines \in Seq(Lines)
    PROVE  IsFiniteSet(Lost(lines)) /\ Cardinality(Lost(lines)) \in Nat
<1>1. Len(lines) \in Nat /\ DOMAIN lines = 1 .. Len(lines)
  OBVIOUS
<1>2. Lost(lines) \subseteq 1 .. Len(lines)
  BY <1>1 DEF Lost
<1>3. IsFiniteSet(1 .. Len(lines))
  BY <1>1, FS_Interval
<1>4. IsFiniteSet(Lost(lines))
  BY <1>2, <1>3, FS_Subset
<1>5. QED
  BY <1>4, FS_CardinalityType

LEMMA AllColonsAre ==
    ASSUME NEW lines \in Seq(Lines)
    PROVE  AllColons(lines) = Filled(lines, Lost(lines))
<1>1. ASSUME NEW k \in DOMAIN lines
      PROVE  (IF Header(lines[k]) THEN [lines[k] EXCEPT !.colon = TRUE] ELSE lines[k])
                 = IF k \in Lost(lines) THEN Coloned(lines[k]) ELSE lines[k]
  <2>1. lines[k] \in Lines
    OBVIOUS
  <2>2. CASE k \in Lost(lines)
    BY <2>2 DEF Lost, Coloned
  <2>3. CASE k \notin Lost(lines) /\ Header(lines[k])
    <3> DEFINE line == lines[k]
    <3>1. line \in Lines /\ line.colon
      BY <2>1, <2>3 DEF Lost
    <3> HIDE DEF line
    <3>2. [line EXCEPT !.colon = TRUE] = line
      BY <3>1 DEF Lines
    <3>3. QED
      BY <2>3, <3>2 DEF line
  <2>4. CASE k \notin Lost(lines) /\ ~Header(lines[k])
    BY <2>4
  <2>5. QED
    BY <2>2, <2>3, <2>4
<1> DEFINE A(k) == IF Header(lines[k]) THEN [lines[k] EXCEPT !.colon = TRUE] ELSE lines[k]
           B(k) == IF k \in Lost(lines) THEN Coloned(lines[k]) ELSE lines[k]
<1>2. \A k \in DOMAIN lines : A(k) = B(k)
  BY <1>1
<1> HIDE DEF A, B
<1>3. [k \in DOMAIN lines |-> A(k)] = [k \in DOMAIN lines |-> B(k)]
  BY <1>2
<1>4. QED
  BY <1>3 DEF AllColons, Filled, A, B

\* If the file would be without a fault as far as its last lost colon, had it lost
\* none, a review gives them all.
LEMMA AllGiven ==
    ASSUME NEW lines \in Seq(Lines), NEW other \in Seq(Lines), Compiles(other),
           Len(lines) = Len(other), NEW q \in Nat,
           \A k \in DOMAIN lines : k <= q => AllColons(lines)[k] = other[k],
           \A k \in Lost(lines) : k <= q /\ ~lines[k].comment,
           Cardinality(Lost(lines)) <= Rounds,
           NEW S, NEW c, NEW n, NEW fs, Given(lines, S, c, n, fs),
           Finished(lines, S, n, fs) \/ n = Rounds
    PROVE  S = Lost(lines)
<1> DEFINE F == Filled(lines, S)
           L == Lost(lines)
           D == L \ S
<1>1. /\ F \in Seq(Lines) /\ Code(F) = Code(lines) /\ Len(F) = Len(lines)
      /\ DOMAIN F = DOMAIN lines
      /\ \A k \in DOMAIN lines :
            /\ F[k] = IF k \in S THEN Coloned(lines[k]) ELSE lines[k]
            /\ F[k].indent = lines[k].indent /\ F[k].form = lines[k].form
            /\ F[k].comment = lines[k].comment
  BY FilledIs
<1>2. S \subseteq L
  BY DEF Given, Sound
<1>3. \A k \in L : k \in Code(lines) /\ k \in DOMAIN lines /\ k \in Nat
                   /\ Header(lines[k]) /\ ~lines[k].colon
  BY LostIs
<1>4. \A k \in DOMAIN lines : AllColons(lines)[k] = IF k \in L THEN Coloned(lines[k]) ELSE lines[k]
  <2>1. AllColons(lines) = Filled(lines, L)
    BY AllColonsAre
  <2>2. \A k \in DOMAIN lines : Filled(lines, L)[k] = IF k \in L THEN Coloned(lines[k]) ELSE lines[k]
    <3> HIDE DEF L
    <3>1. QED
      BY FilledIs
  <2>3. QED
    BY <2>1, <2>2
<1>5. SUFFICES ASSUME S # L PROVE FALSE
  OBVIOUS
<1>6. n # Rounds
  <2> SUFFICES ASSUME n = Rounds PROVE FALSE
    OBVIOUS
  <2>1. IsFiniteSet(S) /\ Cardinality(S) = n
    BY GivenCount
  <2>2. IsFiniteSet(L) /\ Cardinality(L) \in Nat
    BY LostCount
  <2>3. Cardinality(S) <= Cardinality(L) /\ (Cardinality(L) = Cardinality(S) => L = S)
    <3> HIDE DEF L
    <3>1. S \in SUBSET L
      BY <1>2
    <3>2. QED
      BY <2>2, <3>1, FS_Subset
  <2>4. Cardinality(S) \in Nat /\ Cardinality(S) >= Cardinality(L)
    BY <2>1, <2>2 DEF Given
  <2>5. Cardinality(S) = Cardinality(L)
    <3> DEFINE x == Cardinality(S)
               y == Cardinality(L)
    <3> HIDE DEF x, y
    <3>1. x \in Nat /\ y \in Nat /\ x <= y /\ x >= y
      BY <2>2, <2>3, <2>4, Zenon DEF x, y
    <3>2. x = y
      BY <3>1
    <3>3. QED
      BY <3>2 DEF x, y
  <2>6. QED
    BY <1>5, <2>3, <2>5
<1>7. Ended(F)
  BY <1>6 DEF Finished, Ended
<1>8. PICK k \in D : \A j \in D : k <= j
  <2>1. D \subseteq Nat /\ D # {}
    BY <1>2, <1>3, <1>5
  <2> HIDE DEF D
  <2>2. QED
    BY <2>1, LeastNumber
<1> HIDE DEF F
<1>9. /\ k \in L /\ k \notin S /\ k \in DOMAIN lines /\ k \in Nat /\ k \in Code(lines) /\ k <= q
      /\ DOMAIN lines = 1 .. Len(lines) /\ Len(lines) \in Nat
  BY <1>3, <1>8
<1>10. \A j \in 1 .. k - 1 : j \in DOMAIN lines /\ j \in Nat /\ F[j] = other[j]
  <2> SUFFICES ASSUME NEW j \in 1 .. k - 1
               PROVE  j \in DOMAIN lines /\ j \in Nat /\ F[j] = other[j]
    OBVIOUS
  <2>1. j \in DOMAIN lines /\ j \in Nat /\ ~ (k <= j) /\ j <= q
    BY <1>9
  <2>2. j \in S <=> j \in L
    BY <1>2, <1>8, <2>1
  <2> HIDE DEF L
  <2>3. AllColons(lines)[j] = other[j]
    BY <2>1
  <2>4. QED
    BY <1>1, <1>4, <2>1, <2>2, <2>3
<1>11. F[k].indent = other[k].indent /\ F[k].form = other[k].form /\ F[k] = lines[k]
       /\ k \in Code(F)
  <2>1. other[k] = Coloned(lines[k]) /\ lines[k] \in Lines
    <3>1. AllColons(lines)[k] = other[k]
      BY <1>9
    <3>2. AllColons(lines)[k] = Coloned(lines[k])
      BY <1>4, <1>9
    <3>3. QED
      BY <1>9, <3>1, <3>2
  <2>2. other[k].indent = lines[k].indent /\ other[k].form = lines[k].form
    BY <2>1 DEF Coloned, Lines
  <2>3. QED
    BY <1>1, <1>9, <2>2
<1>12. \A j \in Code(other) : Fault(other, j) = "none"
  BY CompileIs DEF Compiles
<1>13. Fault(F, k) = "colon"
  <2>1. k \in Code(other) /\ (Header(F[k]) /\ ~F[k].colon /\ Fault(other, k) = "none" =>
                                 Fault(F, k) = "colon")
    BY <1>1, <1>10, <1>11, SameFault
  <2>2. Header(F[k]) /\ ~F[k].colon
    BY <1>3, <1>9, <1>11
  <2>3. QED
    BY <1>12, <2>1, <2>2
<1>14. ASSUME NEW j \in Code(F), j < k PROVE Fault(F, j) = "none"
  <2>1. j \in 1 .. k - 1
    BY <1>1, <1>9, <1>14 DEF Code
  <2>2. F[j] = other[j] /\ \A i \in 1 .. j - 1 : F[i] = other[i]
    BY <1>9, <1>10, <2>1
  <2>3. Fault(F, j) = Fault(other, j) /\ j \in Code(other)
    BY <1>1, <2>2, SameFault
  <2>4. QED
    BY <1>12, <2>3
<1>15. Compile(F) = Error("colon", k, Max(Above(F, k) \cup {0}))
  BY <1>1, <1>11, <1>13, <1>14, FirstFault
<1>16. Compile(F).msg = "colon" /\ Compile(F).lineno = k
  BY <1>15 DEF Error
<1>17. ~F[k].comment
  BY <1>9, <1>11
<1>18. QED
  BY <1>7, <1>16, <1>17 DEF Ended

\* The first n findings are fixes that put lines of S into a file that has
\* their colons.
FittingColons(lines, S, c, n, fs) ==
    \A i \in 1 .. n :
        /\ i \in DOMAIN fs /\ c[i] \in S /\ c[i] \in DOMAIN lines /\ c[i] \in Nat
        /\ fs[i].has_fix /\ fs[i].line = c[i] /\ End(fs[i]) = c[i]
        /\ fs[i].fix = SubSeq(Filled(lines, S), c[i], c[i])

\* The colons it gives fit a file that has them.
LEMMA ColonsFit ==
    ASSUME NEW lines \in Seq(Lines), NEW S, NEW c, NEW n, NEW fs, Given(lines, S, c, n, fs)
    PROVE  FittingColons(lines, S, c, n, fs)
<1>1. /\ S \subseteq Lost(lines) /\ c \in [1 .. n -> S] /\ n \in Nat /\ n <= Len(fs)
      /\ fs \in Seq(FixFindings) /\ Len(fs) \in Nat /\ DOMAIN fs = 1 .. Len(fs)
      /\ \A i \in 1 .. n : fs[i] = ColonFix(lines, c[i])
  BY LenProperties DEF Given, Sound
<1> DEFINE F == Filled(lines, S)
<1>2. /\ F \in Seq(Lines) /\ DOMAIN F = DOMAIN lines
      /\ \A k \in DOMAIN lines : k \in S => F[k] = Coloned(lines[k])
  BY FilledIs
<1> HIDE DEF F
<1> SUFFICES ASSUME NEW i \in 1 .. n
             PROVE  /\ i \in DOMAIN fs /\ c[i] \in S /\ c[i] \in DOMAIN lines /\ c[i] \in Nat
                    /\ fs[i].has_fix /\ fs[i].line = c[i] /\ End(fs[i]) = c[i]
                    /\ fs[i].fix = SubSeq(F, c[i], c[i])
  BY DEF F, FittingColons
<1> DEFINE k == c[i]
<1>3. k \in S /\ k \in DOMAIN lines /\ k \in Nat
  <2>1. k \in S
    BY <1>1
  <2>2. QED
    BY <1>1, <2>1, LostIs
<1>4. fs[i] = ColonFix(lines, k) /\ i \in DOMAIN fs
  BY <1>1
<1> HIDE DEF k
<1>5. ColonFix(lines, k).has_fix /\ ColonFix(lines, k).line = k /\ End(ColonFix(lines, k)) = k
      /\ ColonFix(lines, k).fix = <<Coloned(lines[k])>>
  <2>1. ColonFix(lines, k).has_fix = TRUE /\ ColonFix(lines, k).line = k
        /\ End(ColonFix(lines, k)) = k
    BY <1>3, ColonFixType
  <2>2. QED
    BY <2>1 DEF ColonFix
<1>6. SubSeq(F, k, k) = <<F[k]>>
  <2> DEFINE one == SubSeq(F, k, k)
  <2>1. k \in Int /\ k <= k /\ k - k + 1 = 1 /\ 1 \in 1 .. k - k + 1 /\ k + 1 - 1 = k
        /\ \A j \in k .. k : F[j] \in Lines
    BY <1>2, <1>3
  <2>2. one \in Seq(Lines) /\ Len(one) = 1 /\ one[1] = F[k]
    BY <2>1, SubSeqProperties
  <2> HIDE DEF one
  <2>3. one = <<one[1]>>
    BY <2>2
  <2>4. QED
    BY <2>2, <2>3, Zenon DEF one
<1>7. F[k] = Coloned(lines[k])
  BY <1>2, <1>3
<1>8. QED
  BY <1>3, <1>4, <1>5, <1>6, <1>7 DEF k

\* "This one genuinely isn't" a judgment call: the file that its author has broken by
\* nothing but lost colons, and that one review has room for, is what comes out of it.
LEMMA ColonsComeBack ==
    ASSUME text \in Seq(Lines), meant \in Seq(Lines), Compiles(meant)
    PROVE  ColonsRestored
<1> SUFFICES ASSUME AllColons(text) = meant, Restorable(MaxSyntaxErrorsPerReview)
             PROVE  Patched(text, Findings(text)) = meant
  BY DEF ColonsRestored
<1> DEFINE fs == Findings(text)
<1>1. PICK S, n, c :
          /\ Given(text, S, c, n, fs)
          /\ n \in 0 .. Rounds
          /\ Len(fs) <= Rounds
          /\ Finished(text, S, n, fs) \/ (n = Rounds /\ Len(fs) = n)
  <2>1. \E S, n, c :
            /\ Given(text, S, c, n, Findings(text))
            /\ n \in 0 .. Rounds
            /\ Len(Findings(text)) <= Rounds
            /\ \/ Finished(text, S, n, Findings(text))
               \/ n = Rounds /\ Len(Findings(text)) = n
    BY FindingsAre
  <2>2. QED
    BY <2>1
<1>2. Filled(text, Lost(text)) = meant /\ Len(meant) = Len(text) /\ Len(text) \in Nat
      /\ DOMAIN text = 1 .. Len(text)
  <2>1. AllColons(text) = Filled(text, Lost(text))
    BY AllColonsAre
  <2>2. Len(Filled(text, Lost(text))) = Len(text)
    BY FilledIs
  <2>3. QED
    BY <2>1, <2>2
<1> HIDE DEF fs
<1>3. S = Lost(text)
  <2>1. \A k \in Lost(text) : k <= Len(text) /\ ~text[k].comment
    BY <1>2 DEF Lost, Restorable
  <2>2. Cardinality(Lost(text)) <= Rounds
    BY DEF Restorable, Rounds
  <2>3. QED
    BY <1>1, <1>2, <2>1, <2>2, AllGiven
<1>4. Len(fs) = n /\ DOMAIN fs = 1 .. n /\ fs \in Seq(FixFindings)
  <2>1. fs \in Seq(FixFindings)
    BY <1>1 DEF Given
  <2>2. Len(fs) = n
    <3>1. CASE Finished(text, S, n, fs)
      <4>1. Compile(Filled(text, S)).msg = "none"
        BY <1>2, <1>3 DEF Compiles
      <4>2. QED
        BY <3>1, <4>1 DEF Finished
    <3>2. QED
      BY <1>1, <3>1
  <2>3. QED
    BY <2>1, <2>2
<1>5. \A i \in 1 .. n :
          /\ c[i] \in S /\ c[i] \in DOMAIN text /\ c[i] \in Nat
          /\ fs[i].has_fix /\ fs[i].line = c[i] /\ End(fs[i]) = c[i]
          /\ fs[i].fix = SubSeq(meant, c[i], c[i])
  <2>1. FittingColons(text, S, c, n, fs)
    BY <1>1, ColonsFit
  <2>2. Filled(text, S) = meant
    BY <1>2, <1>3
  <2>3. QED
    BY <2>1, <2>2 DEF FittingColons
<1>6. Fits(text, fs, meant)
  <2>1. \A i \in Fixable(fs) : i \in 1 .. n
    BY <1>4 DEF Fixable
  <2>2. \A i \in Fixable(fs) :
           /\ 0 < fs[i].line /\ End(fs[i]) <= Len(text)
           /\ fs[i].fix = SubSeq(meant, fs[i].line, End(fs[i]))
    <3>1. \A k \in DOMAIN text : 0 < k /\ k <= Len(text)
      BY <1>2
    <3>2. QED
      BY <1>5, <2>1, <3>1
  <2>3. ASSUME NEW i \in Fixable(fs), NEW j \in Fixable(fs), i # j
        PROVE  ~Overlap(fs[i], fs[j])
    <3>1. c[i] \in Nat /\ c[j] \in Nat /\ c[i] # c[j]
      BY <1>1, <1>5, <2>1, <2>3 DEF Given
    <3>2. fs[i].line = c[i] /\ End(fs[i]) = c[i] /\ fs[j].line = c[j] /\ End(fs[j]) = c[j]
      BY <1>5, <2>1
    <3>3. QED
      BY <3>1, <3>2 DEF Overlap
  <2>4. ASSUME NEW k \in DOMAIN text
        PROVE  meant[k] = text[k] \/ \E i \in Fixable(fs) : fs[i].line <= k /\ k <= End(fs[i])
    <3>1. CASE k \in S
      <4>1. PICK i \in 1 .. n : c[i] = k
        BY <1>1, <3>1 DEF Given
      <4>2. i \in Fixable(fs) /\ fs[i].line = k /\ End(fs[i]) = k
        BY <1>4, <1>5, <4>1 DEF Fixable
      <4>3. k <= k
        BY <1>5, <4>1
      <4>4. QED
        BY <4>2, <4>3
    <3>2. CASE k \notin S
      <4>1. Filled(text, S)[k] = text[k]
        BY <3>2, FilledIs
      <4>2. QED
        BY <1>2, <1>3, <4>1
    <3>3. QED
      BY <3>1, <3>2
  <2>5. QED
    BY <1>2, <2>2, <2>3, <2>4 DEF Fits
<1>7. Patched(text, fs) = meant
  BY <1>4, <1>6, PatchedAs
<1>8. QED
  BY <1>7 DEF fs

-----------------------------------------------------------------------------
(* A body back in its place.                                               *)

\* The line behind a header.
LEMMA BehindHeader ==
    ASSUME NEW lines \in Seq(Lines), NEW k \in Code(lines), NEW b \in Code(lines), k < b,
           Opens(lines[k]), \A j \in Code(lines) : k < j => b <= j
    PROVE  /\ Max(Above(lines, b)) = k /\ Max(Above(lines, b) \cup {0}) = k
           /\ Fault(lines, b) = "none" => lines[b].indent > lines[k].indent
           /\ lines[b].indent = lines[k].indent => Fault(lines, b) = "block"
<1>1. /\ DOMAIN lines = 1 .. Len(lines) /\ Len(lines) \in Nat
      /\ k \in DOMAIN lines /\ b \in DOMAIN lines /\ k \in Nat /\ b \in Nat
      /\ \A j \in Code(lines) : j \in DOMAIN lines /\ j \in Nat
  BY DEF Code
<1>2. k \in Above(lines, b) /\ \A j \in Above(lines, b) : j \in 1 .. Len(lines) /\ j <= k
  <2>1. k \in Above(lines, b)
    BY DEF Above
  <2>2. ASSUME NEW j \in Above(lines, b) PROVE j \in 1 .. Len(lines) /\ j <= k
    <3>1. j \in Code(lines) /\ j < b /\ j \in Nat /\ j \in 1 .. Len(lines)
      BY <1>1 DEF Above
    <3>2. ~ (b <= j)
      BY <1>1, <3>1
    <3>3. ~ (k < j)
      BY <3>1, <3>2
    <3>4. QED
      BY <1>1, <3>1, <3>3
  <2>3. QED
    BY <2>1, <2>2
<1>3. ASSUME NEW A, A = Above(lines, b) \/ A = Above(lines, b) \cup {0}
      PROVE  Max(A) = k
  <2>1. A \subseteq 0 .. Len(lines) /\ k \in A /\ \A j \in A : j <= k
    BY <1>1, <1>2, <1>3
  <2>2. Max(A) \in A /\ \A j \in A : j <= Max(A)
    <3>1. A # {}
      BY <2>1
    <3>2. QED
      BY <1>1, <2>1, <3>1, MaxIs
  <2> DEFINE m == Max(A)
  <2> HIDE DEF m
  <2>3. m \in A /\ \A j \in A : j <= m
    BY <2>2 DEF m
  <2>4. m = k
    BY <2>1, <2>3
  <2>5. QED
    BY <2>4 DEF m
<1>4. Max(Above(lines, b)) = k /\ Max(Above(lines, b) \cup {0}) = k
  BY <1>3
<1>5. Above(lines, b) # {}
  BY <1>2
<1>6. lines[b].indent \in Nat /\ lines[k].indent \in Nat
  BY <1>1, LineIs
<1> DEFINE here == lines[b].indent
           level == lines[k].indent
<1> HIDE DEF here, level
<1>7. Fault(lines, b) =
          IF here < level /\ here \notin OpenLevels(lines, b) THEN "unindent"
          ELSE IF here <= level THEN "block"
          ELSE IF Header(lines[b]) /\ ~lines[b].colon THEN "colon"
          ELSE "none"
  <2>1. Fault(lines, b) =
            IF lines[b].indent < lines[k].indent /\ lines[b].indent \notin OpenLevels(lines, b)
            THEN "unindent"
            ELSE IF Opens(lines[k]) /\ lines[b].indent <= lines[k].indent THEN "block"
            ELSE IF ~Opens(lines[k]) /\ lines[b].indent > lines[k].indent THEN "indent"
            ELSE IF Header(lines[b]) /\ ~lines[b].colon THEN "colon"
            ELSE "none"
    BY <1>4, <1>5, Zenon DEF Fault
  <2>2. QED
    BY <2>1, Zenon DEF here, level
<1>8. here \in Nat /\ level \in Nat
  BY <1>6 DEF here, level
<1>9. (Fault(lines, b) = "none" => here > level) /\ (here = level => Fault(lines, b) = "block")
  BY <1>7, <1>8
<1>10. QED
  BY <1>4, <1>9 DEF here, level

\* The lines from b to end are the block that line k opens.
IsBlock(lines, k, b, end) ==
    /\ k \in Code(lines) /\ k \in Nat
    /\ end \in Code(lines) /\ end \in Nat /\ b \in Code(lines) /\ b \in Nat
    /\ k < b /\ b <= end
    /\ \A j \in Code(lines) : k < j => b <= j
    /\ \A j \in Code(lines) : k < j /\ j <= end => lines[j].indent > lines[k].indent
    /\ \A x \in Code(lines) :
           end < x /\ (\A j \in Code(lines) : end < j => x <= j)
               => lines[x].indent <= lines[k].indent

LEMMA BlockIs ==
    ASSUME NEW lines \in Seq(Lines), Compiles(lines), NEW k \in DOMAIN lines, Opens(lines[k]),
           ~Blank(lines[Len(lines)]),
           NEW end, end = BlockEnd(lines, k),
           NEW b, b = Min(Code(lines) \cap (k + 1 .. BlockEnd(lines, k)))
    PROVE  IsBlock(lines, k, b, end)
<1> DEFINE C == Code(lines)
           N == Len(lines)
           in == lines[k].indent
           Deep(m) == \A j \in C \cap (k + 1 .. m) : lines[j].indent > in
           blocks == {m \in C : k < m /\ Deep(m)}
           B == {j \in C : k < j}
<1>1. /\ DOMAIN lines = 1 .. N /\ N \in Nat /\ C \subseteq 1 .. N
      /\ k \in 1 .. N /\ k \in C /\ N \in C /\ k \in Nat
  BY DEF Code, Opens, Header, Blank
<1>2. /\ \A j \in C : Fault(lines, j) = "none"
      /\ ~Opens(lines[N])
  BY <1>1, CompileIs DEF Compiles
<1>3. k # N
  BY <1>2
<1>4. PICK a \in B : \A j \in B : a <= j
  <2>1. B \subseteq Nat /\ B # {}
    BY <1>1, <1>3
  <2> HIDE DEF B
  <2>2. QED
    BY <2>1, LeastNumber
<1>5. a \in C /\ a \in Nat /\ k < a /\ \A j \in C : k < j => a <= j
  BY <1>1, <1>4
<1>6. lines[a].indent > in
  BY <1>1, <1>2, <1>5, BehindHeader
<1> HIDE DEF in
<1>7. a \in blocks
  <2>1. \A j \in C \cap (k + 1 .. a) : j = a
    BY <1>1, <1>5
  <2>2. QED
    BY <1>5, <1>6, <2>1
<1>8. end \in blocks /\ \A m \in blocks : m <= end
  <2>1. blocks \subseteq 0 .. N /\ blocks # {}
    BY <1>1, <1>7
  <2>2. end = Max(blocks)
    BY DEF BlockEnd, in
  <2> HIDE DEF blocks
  <2>3. QED
    BY <1>1, <2>1, <2>2, MaxIs
<1>9. end \in C /\ end \in Nat /\ k < end /\ Deep(end) /\ a <= end
  BY <1>1, <1>7, <1>8
<1>10. b = a
  <2> DEFINE S == C \cap (k + 1 .. end)
  <2>1. S \subseteq Nat /\ a \in S /\ \A j \in S : a <= j
    BY <1>1, <1>5, <1>9
  <2>2. b = Min(S)
    OBVIOUS
  <2> HIDE DEF S
  <2>3. QED
    BY <2>1, <2>2, MinOf
<1>11. \A j \in C : k < j /\ j <= end => lines[j].indent > in
  BY <1>1, <1>9
<1>12. ASSUME NEW x \in C, end < x, \A j \in C : end < j => x <= j
       PROVE  lines[x].indent <= in
  <2>1. x \in Nat /\ lines[x].indent \in Nat /\ in \in Nat
    BY <1>1, LineIs DEF in
  <2> SUFFICES ASSUME lines[x].indent > in PROVE FALSE
    BY <2>1
  <2>2. ASSUME NEW j \in C \cap (k + 1 .. x) PROVE lines[j].indent > in
    <3>1. j \in C /\ j \in Nat /\ k < j /\ j <= x
      BY <1>1
    <3>2. CASE j <= end
      BY <1>11, <3>1, <3>2
    <3>3. CASE end < j
      <4>1. x <= j
        BY <1>12, <3>1, <3>3
      <4>2. j = x
        BY <2>1, <3>1, <4>1
      <4>3. QED
        BY <4>2
    <3>4. QED
      BY <1>9, <3>1, <3>2, <3>3
  <2>3. k < x
    BY <1>1, <1>9, <1>12, <2>1
  <2>4. x \in blocks
    BY <2>2, <2>3
  <2>5. x <= end
    <3> HIDE DEF blocks
    <3>1. QED
      BY <1>8, <2>4
  <2>6. QED
    BY <1>9, <1>12, <2>1, <2>5
<1>13. QED
  <2>1. b \in C /\ b \in Nat /\ k < b /\ b <= end /\ \A j \in C : k < j => b <= j
    BY <1>5, <1>9, <1>10
  <2>2. QED
    BY <1>1, <1>9, <1>11, <1>12, <2>1 DEF in, IsBlock

\* No line behind b and up to m looks as if the body of line k were over.
RunsOn(lines, k, b, m) ==
    \A j \in Code(lines) : b < j /\ j <= m =>
        /\ ~ (lines[j].indent < lines[k].indent)
        /\ ~ (lines[j].indent = lines[k].indent /\ LooksLikeSpanBoundary(lines[j]))

\* A header whose body has lost its indent gets a body, of those lines at least that
\* make the file compile.
LEMMA BodyFound ==
    ASSUME NEW lines \in Seq(Lines), NEW e, e = Compile(lines), e.msg = "block",
           NEW b, b = e.lineno, NEW k, k = e.header,
           lines[b].indent = lines[k].indent,
           NEW end \in b .. Len(lines), end <= b + SearchWindow,
           RunsOn(lines, k, b, end),
           Compiles(Reindent(lines, b, end, 1))
    PROVE  \E m \in end .. Len(lines) :
               /\ SyntaxErrorFix(lines, e) = Move(lines, b, m, 1)
               /\ b \in DOMAIN lines
               /\ RunsOn(lines, k, b, m)
<1> DEFINE Stop(j) == \/ lines[j].indent < lines[k].indent
                      \/ lines[j].indent = lines[b].indent /\ LooksLikeSpanBoundary(lines[j])
           stops == {j \in Code(lines) : Stop(j)}
           max_end == MaxEndLine(lines, b, stops)
           ends == Confirmed(lines, b, max_end, 1)
<1>1. /\ DOMAIN lines = 1 .. Len(lines) /\ Len(lines) \in Nat
      /\ b \in Code(lines) /\ k \in Code(lines)
      /\ b \in DOMAIN lines /\ k \in DOMAIN lines /\ b \in Nat
      /\ \A j \in Code(lines) : j \in DOMAIN lines /\ j \in Nat
  <2>1. b \in Code(lines) /\ k \in Code(lines)
    BY CompileIs
  <2>2. QED
    BY <2>1 DEF Code
<1>2. lines[b].indent \in Nat /\ lines[k].indent \in Nat
  BY <1>1, LineIs
<1> DEFINE offset == lines[k].indent + 1 - lines[b].indent
<1>3. offset = 1
  <2> DEFINE x == lines[k].indent
  <2>1. x \in Nat /\ offset = x + 1 - x
    BY <1>2
  <2> HIDE DEF x, offset
  <2>2. QED
    BY <2>1
<1>4. MissingIndentFix(lines, e) = ReindentFix(lines, b, ends, 1)
  <2>1. MissingIndentFix(lines, e) =
            IF e.msg = "block" /\ offset > 0
            THEN ReindentFix(lines, b, Confirmed(lines, b, MaxEndLine(lines, b, stops), offset), offset)
            ELSE {}
    BY DEF MissingIndentFix
  <2> HIDE DEF offset, stops
  <2>2. QED
    BY <1>3, <2>1
<1>5. /\ max_end \in b .. Len(lines) /\ \A j \in b + 1 .. max_end : j \notin stops
      /\ \A m \in b .. Len(lines) :
             m <= b + SearchWindow /\ (\A j \in b + 1 .. m : j \notin stops) => m <= max_end
  <2> HIDE DEF stops
  <2>1. QED
    BY <1>1, MaxEndIs
<1> HIDE DEF max_end
<1>6. end <= max_end
  <2>1. \A j \in b + 1 .. end : j \notin stops
    <3> SUFFICES ASSUME NEW j \in b + 1 .. end, j \in stops PROVE FALSE
      OBVIOUS
    <3>1. j \in Code(lines) /\ Stop(j) /\ b < j /\ j <= end
      BY <1>1
    <3>2. QED
      BY <3>1 DEF RunsOn
  <2> HIDE DEF stops
  <2>2. QED
    BY <1>5, <2>1
<1>7. end \in ends
  <2> DEFINE moved == Reindent(lines, b, end, 1)
  <2>1. end \in b .. max_end
    BY <1>1, <1>5, <1>6
  <2>2. \A j \in b .. end : moved[j].indent >= 0
    <3> SUFFICES ASSUME NEW j \in b .. end PROVE moved[j].indent >= 0
      OBVIOUS
    <3>1. j \in DOMAIN lines /\ lines[j] \in Lines
      BY <1>1
    <3>2. moved[j] = lines[j] \/ moved[j] = [lines[j] EXCEPT !.indent = @ + 1]
      BY <3>1, ReindentIs
    <3> HIDE DEF moved
    <3>3. QED
      BY <3>1, <3>2 DEF Lines
  <2>3. QED
    BY <2>1, <2>2, Zenon DEF Confirmed
<1>8. PICK m \in ends :
          MissingIndentFix(lines, e) = {Move(lines, b, m, 1)} /\ end <= m /\ m <= max_end
                                    /\ m \in DOMAIN lines
  <2>1. ends # {} /\ ends = Confirmed(lines, b, max_end, 1)
    BY <1>7
  <2> HIDE DEF ends
  <2>2. /\ ReindentFix(lines, b, ends, 1) = {Move(lines, b, Max(ends), 1)}
        /\ Max(ends) \in ends /\ \A x \in ends : x <= Max(ends)
        /\ \A x \in ends : x \in DOMAIN lines /\ x <= max_end
    <3>1. b \in DOMAIN lines /\ max_end \in b .. Len(lines) /\ 1 \in Int
      BY <1>1, <1>5
    <3>2. /\ ReindentFix(lines, b, ends, 1) = {Move(lines, b, Max(ends), 1)}
          /\ Max(ends) \in ends /\ \A x \in ends : x <= Max(ends)
          /\ \A x \in ends : /\ x \in DOMAIN lines /\ b <= x /\ x <= max_end
                             /\ \A j \in b .. x : Reindent(lines, b, x, 1)[j].indent >= 0
                             /\ Compiles(Reindent(lines, b, x, 1))
      BY <2>1, <3>1, ReindentFixIs
    <3>3. QED
      BY <3>2
  <2>3. QED
    BY <1>4, <1>7, <2>2
<1> HIDE DEF ends
<1>9. SyntaxErrorFix(lines, e) = Move(lines, b, m, 1)
  <2>1. MissingIndentFix(lines, e) # {} => SyntaxErrorFix(lines, e) \in MissingIndentFix(lines, e)
    BY OfferIs
  <2>2. QED
    BY <1>8, <2>1
<1>10. m \in end .. Len(lines)
  BY <1>1, <1>8
<1>11. ASSUME NEW j \in Code(lines), b < j, j <= m
       PROVE  /\ ~ (lines[j].indent < lines[k].indent)
              /\ ~ (lines[j].indent = lines[k].indent /\ LooksLikeSpanBoundary(lines[j]))
  <2>1. j \in b + 1 .. max_end
    <3>1. j \in Nat /\ m \in Nat /\ max_end \in Nat
      BY <1>1, <1>5, <1>8
    <3>2. QED
      BY <1>1, <1>8, <1>11, <3>1
  <2>2. j \notin stops
    BY <1>5, <2>1
  <2>3. ~Stop(j)
    BY <2>2
  <2>4. QED
    BY <2>3
<1>12. QED
  BY <1>1, <1>9, <1>10, <1>11 DEF RunsOn

\* A block that has lost its indent, with the colons lost above it or without, is back
\* in its place afterwards, and nothing that follows is drawn into it.
LEMMA BodiesComeBack ==
    ASSUME text \in Seq(Lines), meant \in Seq(Lines), Compiles(meant),
           meant # << >> => ~Blank(meant[Len(meant)])
    PROVE  BodiesRestored
<1> SUFFICES ASSUME NEW k \in DOMAIN meant,
                    Opens(meant[k]), Coherent(meant, k), SetOff(meant, k),
                    BlockEnd(meant, k) <= k + SearchWindow,
                    AllColons(text) = Reindent(meant, k + 1, BlockEnd(meant, k), -1),
                    \A j \in Lost(text) : j <= k,
                    Restorable(MaxSyntaxErrorsPerReview - 1)
             PROVE  Patched(text, Findings(text)) = meant
  BY Zenon DEF BodiesRestored
<1> DEFINE fs == Findings(text)
           end == BlockEnd(meant, k)
           b == Min(Code(meant) \cap (k + 1 .. end))
           C == Code(meant)
           N == Len(meant)
           moved == AllColons(text)
           in == meant[k].indent
<1>1. /\ DOMAIN meant = 1 .. N /\ N \in Nat /\ C \subseteq 1 .. N /\ ~Blank(meant[N])
      /\ \A j \in DOMAIN meant : meant[j] \in Lines /\ meant[j].indent \in Nat
  <2>1. meant # << >>
    OBVIOUS
  <2>2. QED
    BY <2>1, LineIs DEF Code
<1>2. /\ k \in C /\ k \in Nat /\ end \in C /\ end \in Nat /\ b \in C /\ b \in Nat
      /\ k < b /\ b <= end
      /\ \A j \in C : k < j => b <= j
      /\ \A j \in C : k < j /\ j <= end => meant[j].indent > in
      /\ \A x \in C : end < x /\ (\A j \in C : end < j => x <= j) => meant[x].indent <= in
  <2>1. end = BlockEnd(meant, k) /\ b = Min(Code(meant) \cap (k + 1 .. BlockEnd(meant, k)))
    OBVIOUS
  <2>2. ~Blank(meant[Len(meant)])
    BY <1>1
  <2> HIDE DEF end, b
  <2>3. IsBlock(meant, k, b, end)
    BY <2>1, <2>2, BlockIs
  <2>4. QED
    BY <2>3 DEF IsBlock
<1>3. /\ meant[b].indent = in + 1
      /\ \A j \in C : b < j /\ j <= end /\ meant[j].indent = in + 1 => ~Outside(meant[j])
  <2> DEFINE block == C \cap (k + 1 .. end)
  <2>1. meant[b].indent = in + 1
        /\ \A m \in block \ {b} : meant[m].indent = in + 1 => ~Outside(meant[m])
    BY Zenon DEF Coherent
  <2>2. \A j \in C : b < j /\ j <= end => j \in block \ {b}
    BY <1>1, <1>2
  <2> HIDE DEF b
  <2>3. QED
    BY <2>1, <2>2
<1>4. PICK x \in Nat :
          /\ end < x /\ \A j \in C : end < j => x <= j
          /\ x = N + 1 \/ (x \in C /\ (meant[x].indent < in \/ Outside(meant[x])))
  <2> DEFINE after == {m \in C : m > end}
  <2>1. after # {} => meant[Min(after)].indent < in \/ Outside(meant[Min(after)])
    BY Zenon DEF SetOff
  <2>2. after \subseteq Nat
    BY <1>1
  <2>3. CASE after # {}
    <3>1. Min(after) \in after /\ \A m \in after : Min(after) <= m
      <4> HIDE DEF after
      <4>1. QED
        BY <2>2, <2>3, MinIs
    <3> DEFINE x == Min(after)
    <3> HIDE DEF x
    <3>2. x \in after /\ (\A m \in after : x <= m)
          /\ (meant[x].indent < in \/ Outside(meant[x]))
      BY <2>1, <2>3, <3>1 DEF x
    <3>3. x \in C /\ x \in Nat /\ end < x /\ \A j \in C : end < j => x <= j
      BY <1>1, <1>2, <3>2
    <3>4. QED
      BY <3>2, <3>3
  <2>4. CASE after = {}
    <3>1. \A j \in C : ~ (end < j)
      BY <1>1, <1>2, <2>4
    <3>2. N + 1 \in Nat /\ end < N + 1
      BY <1>1, <1>2
    <3>3. QED
      BY <3>1, <3>2
  <2>5. QED
    BY <2>3, <2>4
<1> HIDE DEF b
<1>5. /\ moved = Filled(text, Lost(text)) /\ moved \in Seq(Lines)
      /\ Len(text) = N /\ DOMAIN text = 1 .. N /\ Len(moved) = N /\ DOMAIN moved = 1 .. N
      /\ \A j \in 1 .. N :
             IF k < j /\ j <= end /\ j \in C
             THEN moved[j] = [meant[j] EXCEPT !.indent = @ + -1] ELSE moved[j] = meant[j]
  <2>1. moved = Filled(text, Lost(text))
    BY AllColonsAre
  <2>2. moved \in Seq(Lines) /\ Len(moved) = Len(text) /\ DOMAIN moved = DOMAIN text
    BY <2>1, FilledIs
  <2>3. /\ Len(moved) = N /\ DOMAIN moved = DOMAIN meant
        /\ \A j \in DOMAIN meant : j \in k + 1 .. end /\ ~Blank(meant[j]) =>
               moved[j] = [meant[j] EXCEPT !.indent = @ + -1]
        /\ \A j \in DOMAIN meant : j \notin k + 1 .. end \/ Blank(meant[j]) =>
               moved[j] = meant[j]
    <3> HIDE DEF moved, end
    <3>1. moved = Reindent(meant, k + 1, end, -1) /\ -1 \in Int
      BY DEF moved, end
    <3>2. QED
      BY <3>1, ReindentIs
  <2>4. \A j \in 1 .. N : /\ j \in k + 1 .. end <=> k < j /\ j <= end
                          /\ Blank(meant[j]) <=> j \notin C
    BY <1>1, <1>2 DEF Code
  <2> HIDE DEF moved, end, C, N
  <2>5. QED
    BY <1>1, <2>1, <2>2, <2>3, <2>4
<1> HIDE DEF end, moved
<1>6. ASSUME NEW j \in 1 .. N
      PROVE  /\ moved[j].form = meant[j].form /\ moved[j].indent \in Nat
             /\ k < j /\ j <= end /\ j \in C => moved[j].indent + 1 = meant[j].indent
             /\ ~ (k < j /\ j <= end /\ j \in C) => moved[j] = meant[j]
             /\ [moved[j] EXCEPT !.indent = @ + 1] =
                    IF k < j /\ j <= end /\ j \in C THEN meant[j]
                    ELSE [meant[j] EXCEPT !.indent = @ + 1]
  <2>1. meant[j] \in Lines /\ moved[j] \in Lines
    BY <1>1, <1>5
  <2>2. IF k < j /\ j <= end /\ j \in C
        THEN moved[j] = [meant[j] EXCEPT !.indent = @ + -1] ELSE moved[j] = meant[j]
    BY <1>5
  <2> DEFINE was == meant[j]
             now == moved[j]
  <2> HIDE DEF was, now, C
  <2>3. was \in Lines /\ now \in Lines
    BY <2>1 DEF was, now
  <2>4. CASE k < j /\ j <= end /\ j \in C
    <3>1. now = [was EXCEPT !.indent = @ + -1]
      BY <2>2, <2>4 DEF was, now
    <3>2. now.form = was.form /\ now.indent = was.indent + -1 /\ now.indent \in Nat
          /\ was.indent \in Nat /\ now.colon = was.colon /\ now.comment = was.comment
      BY <2>3, <3>1 DEF Lines
    <3>3. now.indent + 1 = was.indent
      BY <3>2
    <3> DEFINE again == [now EXCEPT !.indent = @ + 1]
    <3>4. again \in Lines /\ again.indent = was.indent /\ again.form = was.form
          /\ again.colon = was.colon /\ again.comment = was.comment
      BY <2>3, <3>2, <3>3 DEF Lines
    <3>5. again = was
      <4> HIDE DEF again
      <4>1. QED
        BY <2>3, <3>4, SameLine
    <3>6. QED
      BY <2>4, <3>2, <3>3, <3>5, Zenon DEF was, now
  <2>5. CASE ~ (k < j /\ j <= end /\ j \in C)
    <3>1. now = was
      BY <2>2, <2>5 DEF was, now
    <3>2. QED
      BY <2>3, <2>5, <3>1 DEF Lines, was, now
  <2>6. QED
    BY <2>4, <2>5
<1>7. Code(moved) = C
  <2>1. DOMAIN moved = 1 .. N /\ DOMAIN meant = 1 .. N /\ \A j \in 1 .. N : moved[j].form = meant[j].form
    BY <1>1, <1>5, <1>6
  <2> HIDE DEF N
  <2>2. QED
    BY <2>1 DEF Code, Blank
<1>8. moved[k] = meant[k] /\ moved[b].indent = moved[k].indent
  <2>1. k \in 1 .. N /\ b \in 1 .. N /\ ~ (k < k) /\ in \in Nat
    BY <1>1, <1>2
  <2>2. moved[k] = meant[k] /\ moved[b].indent + 1 = meant[b].indent /\ moved[b].indent \in Nat
    BY <1>2, <1>6, <2>1
  <2>3. moved[b].indent = in
    <3> DEFINE y == moved[b].indent
    <3> HIDE DEF y, in
    <3>1. y + 1 = in + 1 /\ y \in Nat /\ in \in Nat
      BY <1>3, <2>1, <2>2 DEF y
    <3>2. y = in
      BY <3>1
    <3>3. QED
      BY <3>2 DEF y
  <2>4. QED
    BY <2>2, <2>3
<1>9. PICK S, n, c :
          /\ Given(text, S, c, n, fs)
          /\ n \in 0 .. Rounds
          /\ Len(fs) <= Rounds
          /\ Finished(text, S, n, fs) \/ (n = Rounds /\ Len(fs) = n)
  <2>1. \E S, n, c :
            /\ Given(text, S, c, n, Findings(text))
            /\ n \in 0 .. Rounds
            /\ Len(Findings(text)) <= Rounds
            /\ \/ Finished(text, S, n, Findings(text))
               \/ n = Rounds /\ Len(Findings(text)) = n
    BY FindingsAre
  <2>2. QED
    BY <2>1
<1> HIDE DEF fs
<1>10. S = Lost(text) /\ n # Rounds
  <2>1. /\ \A j \in Lost(text) : j <= k /\ ~text[j].comment
        /\ Cardinality(Lost(text)) <= Rounds - 1
    BY DEF Restorable, Rounds
  <2>2. Rounds \in Nat /\ Cardinality(Lost(text)) \in Nat
    BY LostCount DEF Rounds, MaxSyntaxErrorsPerReview
  <2>3. Cardinality(Lost(text)) <= Rounds
    BY <2>1, <2>2
  <2>4. \A j \in DOMAIN text : j <= k => AllColons(text)[j] = meant[j]
    <3>1. ASSUME NEW j \in 1 .. N, j <= k PROVE moved[j] = meant[j]
      <4>1. ~ (k < j)
        BY <1>2, <3>1
      <4>2. QED
        BY <1>6, <4>1
    <3>2. QED
      BY <1>5, <3>1 DEF moved
  <2>5. S = Lost(text)
    <3>1. Finished(text, S, n, fs) \/ n = Rounds
      BY <1>9
    <3>2. Given(text, S, c, n, fs) /\ k \in Nat /\ Len(text) = Len(meant)
      BY <1>2, <1>5, <1>9
    <3>3. QED
      BY <2>1, <2>3, <2>4, <3>1, <3>2, AllGiven
  <2>6. Cardinality(S) = n
    BY <1>9, GivenCount
  <2>7. n # Rounds
    <3> DEFINE z == Cardinality(Lost(text))
    <3>1. z = n /\ z <= Rounds - 1
      BY <2>1, <2>5, <2>6
    <3> HIDE DEF z
    <3>2. QED
      BY <2>2, <3>1
  <2>8. QED
    BY <2>5, <2>7
<1>11. Filled(text, S) = moved
  BY <1>5, <1>10
<1> DEFINE e == Compile(moved)
<1>12. e.msg = "block" /\ e.lineno = b /\ e.header = k
  <2>1. b \in Code(moved) /\ k \in Code(moved) /\ Opens(moved[k])
        /\ \A j \in Code(moved) : k < j => b <= j
    BY <1>2, <1>7, <1>8
  <2>2. Fault(moved, b) = "block" /\ Max(Above(moved, b) \cup {0}) = k
    BY <1>2, <1>5, <1>8, <2>1, BehindHeader
  <2>3. ASSUME NEW j \in Code(moved), j < b PROVE Fault(moved, j) = "none"
    <3>1. j \in C /\ j \in Nat /\ j \in 1 .. N
      BY <1>1, <1>7
    <3>2. ~ (k < j)
      BY <1>2, <2>3, <3>1
    <3>3. ASSUME NEW i \in 1 .. j PROVE moved[i] = meant[i]
      <4>1. i \in 1 .. N /\ ~ (k < i)
        BY <1>1, <1>2, <3>1, <3>2
      <4>2. QED
        BY <1>6, <4>1
    <3>4. moved[j] = meant[j] /\ \A i \in 1 .. j - 1 : moved[i] = meant[i]
      BY <3>1, <3>3
    <3>5. Fault(moved, j) = Fault(meant, j)
      BY <1>5, <3>4, SameFault
    <3>6. Fault(meant, j) = "none"
      BY <3>1, CompileIs DEF Compiles
    <3>7. QED
      BY <3>5, <3>6
  <2>4. Compile(moved) = Error(Fault(moved, b), b, Max(Above(moved, b) \cup {0}))
    BY <1>5, <2>1, <2>2, <2>3, FirstFault
  <2>5. QED
    BY <2>2, <2>4 DEF Error
<1>13. Len(fs) = n + 1 /\ fs[n + 1] = SyntaxErrorFix(moved, e)
  <2>1. Finished(text, S, n, fs) /\ e.msg # "none"
    BY <1>9, <1>10, <1>12
  <2>2. QED
    BY <1>11, <2>1 DEF Finished
<1> HIDE DEF e
<1> DEFINE Back(m) == Reindent(moved, b, m, 1)
<1>14. ASSUME NEW m \in end .. N, m < x PROVE Back(m) = meant
  <2> DEFINE back == Back(m)
  <2>1. /\ DOMAIN back = 1 .. N
        /\ \A j \in 1 .. N : j \in b .. m /\ ~Blank(moved[j]) =>
               back[j] = [moved[j] EXCEPT !.indent = @ + 1]
        /\ \A j \in 1 .. N : j \notin b .. m \/ Blank(moved[j]) => back[j] = moved[j]
    <3>1. back = Reindent(moved, b, m, 1) /\ 1 \in Int
      OBVIOUS
    <3> HIDE DEF back
    <3>2. QED
      BY <1>5, <3>1, ReindentIs
  <2>2. back = [j \in 1 .. N |-> back[j]] /\ meant = [j \in 1 .. N |-> meant[j]]
    BY <1>1, <2>1 DEF Reindent
  <2> HIDE DEF back
  <2>3. ASSUME NEW j \in 1 .. N PROVE back[j] = meant[j]
    <3>1. j \in Nat /\ (~Blank(moved[j]) <=> j \in C)
      BY <1>1, <1>5, <1>7 DEF Code
    <3>2. CASE k < j /\ j <= end /\ j \in C
      <4>1. b <= j /\ j \in b .. m
        BY <1>2, <3>1, <3>2
      <4>2. back[j] = [moved[j] EXCEPT !.indent = @ + 1]
        BY <2>1, <3>1, <3>2, <4>1
      <4>3. QED
        BY <1>6, <3>2, <4>2
    <3>3. CASE ~ (k < j /\ j <= end /\ j \in C)
      <4>1. moved[j] = meant[j]
        BY <1>6, <3>3
      <4>2. j \notin b .. m \/ j \notin C
        <5> SUFFICES ASSUME j \in b .. m, j \in C PROVE FALSE
          OBVIOUS
        <5>1. k < j
          BY <1>2, <3>1
        <5>2. end < j
          BY <1>2, <3>1, <3>3, <5>1
        <5>3. x <= j
          BY <1>4, <5>2
        <5>4. m \in Nat
          BY <1>1, <1>2
        <5>5. QED
          BY <1>14, <3>1, <5>3, <5>4
      <4>3. QED
        BY <2>1, <3>1, <4>1, <4>2
    <3>4. QED
      BY <3>2, <3>3
  <2>4. back = meant
    <3> HIDE DEF N
    <3>1. QED
      BY <2>2, <2>3
  <2>5. QED
    BY <2>4 DEF back
<1>15. x = N + 1 \/ (x \in C /\ x \in 1 .. N)
  BY <1>1, <1>4
<1>16. PICK m \in end .. N :
          SyntaxErrorFix(moved, e) = Move(moved, b, m, 1) /\ RunsOn(moved, k, b, m)
  <2>1. end \in b .. Len(moved) /\ end <= b + SearchWindow
    <3>1. end <= k + SearchWindow /\ SearchWindow = 50
      BY DEF end, SearchWindow
    <3>2. end <= N
      BY <1>1, <1>2
    <3>3. QED
      BY <1>2, <1>5, <3>1, <3>2
  <2>2. ASSUME NEW j \in Code(moved), b < j, j <= end
        PROVE  /\ ~ (moved[j].indent < moved[k].indent)
               /\ ~ (moved[j].indent = moved[k].indent /\ LooksLikeSpanBoundary(moved[j]))
    <3>1. j \in C /\ j \in 1 .. N /\ k < j
      BY <1>1, <1>2, <1>7, <2>2
    <3>2. moved[j].indent + 1 = meant[j].indent /\ moved[j].indent \in Nat
          /\ moved[j].form = meant[j].form /\ moved[k].indent = in /\ in \in Nat
          /\ meant[j].indent > in
      BY <1>1, <1>2, <1>6, <1>8, <2>2, <3>1
    <3> DEFINE y == moved[j].indent
               w == meant[j].indent
    <3> HIDE DEF y, w, in
    <3>3. y \in Nat /\ in \in Nat /\ w = y + 1 /\ w > in
      BY <3>2 DEF y, w
    <3>4. ~ (y < in) /\ (y = in => w = in + 1)
      BY <3>3
    <3>5. y = in => ~Outside(meant[j])
      BY <1>3, <2>2, <3>1, <3>4 DEF w
    <3>6. LooksLikeSpanBoundary(moved[j]) => Outside(meant[j])
      BY <3>2 DEF LooksLikeSpanBoundary, Outside
    <3>7. QED
      BY <3>2, <3>4, <3>5, <3>6 DEF y
  <2>3. Compiles(Reindent(moved, b, end, 1))
    <3>1. end \in end .. N /\ end < x
      BY <1>1, <1>2, <1>4
    <3>2. Back(end) = meant
      BY <1>14, <3>1
    <3>3. QED
      BY <3>2
  <2>4. \E m \in end .. Len(moved) :
            /\ SyntaxErrorFix(moved, e) = Move(moved, b, m, 1)
            /\ b \in DOMAIN moved
            /\ RunsOn(moved, k, b, m)
    <3>1. e = Compile(moved) /\ e.msg = "block" /\ b = e.lineno /\ k = e.header
      BY <1>12 DEF e
    <3>2. moved \in Seq(Lines) /\ moved[b].indent = moved[k].indent
      BY <1>5, <1>8
    <3>3. RunsOn(moved, k, b, end)
      BY <2>2 DEF RunsOn
    <3> HIDE DEF e, C, N
    <3>4. QED
      BY <2>1, <2>3, <3>1, <3>2, <3>3, BodyFound
  <2>5. QED
    BY <1>5, <2>4
<1>17. m < x /\ m \in Nat /\ m <= N /\ end <= m
  <2>0. m \in Nat /\ m <= N /\ end <= m
    BY <1>1, <1>2
  <2> SUFFICES ASSUME ~ (m < x) PROVE FALSE
    BY <2>0
  <2>1. x \in C /\ x \in Code(moved) /\ b < x /\ x <= m /\ x \in 1 .. N
    BY <1>1, <1>2, <1>4, <1>7, <1>15, <2>0
  <2>2. ~ (moved[x].indent < moved[k].indent)
        /\ ~ (moved[x].indent = moved[k].indent /\ LooksLikeSpanBoundary(moved[x]))
    BY <1>16, <2>1 DEF RunsOn
  <2>3. moved[x] = meant[x]
    <3>1. ~ (x <= end)
      BY <1>2, <1>4
    <3>2. QED
      BY <1>6, <2>1, <3>1
  <2>4. meant[x].indent <= in /\ meant[x].indent \in Nat /\ in \in Nat
    BY <1>1, <1>2, <1>4, <2>1
  <2>5. ~ (meant[x].indent < in) /\ ~ (meant[x].indent = in /\ LooksLikeSpanBoundary(meant[x]))
    BY <1>8, <2>2, <2>3
  <2>6. meant[x].indent = in
    <3> DEFINE y == meant[x].indent
    <3> HIDE DEF y, in
    <3>1. y \in Nat /\ in \in Nat /\ y <= in /\ ~ (y < in)
      BY <2>4, <2>5 DEF y
    <3>2. y = in
      BY <3>1
    <3>3. QED
      BY <3>2 DEF y
  <2>7. meant[x].indent < in \/ Outside(meant[x])
    BY <1>1, <1>4, <2>1
  <2>8. QED
    BY <2>5, <2>6, <2>7 DEF Outside, LooksLikeSpanBoundary
<1>18. Back(m) = meant
  BY <1>14, <1>17
<1>19. fs[n + 1] = [line |-> b, end |-> m, fix |-> SubSeq(meant, b, m),
                    has_fix |-> TRUE, tier |-> "MEDIUM"]
  BY <1>13, <1>16, <1>18 DEF Move
<1> HIDE DEF Back
<1>20. \A i \in 1 .. n :
          /\ c[i] \in S /\ c[i] \in DOMAIN text /\ c[i] \in Nat
          /\ fs[i].has_fix /\ fs[i].line = c[i] /\ End(fs[i]) = c[i]
          /\ fs[i].fix = SubSeq(moved, c[i], c[i])
  <2>1. FittingColons(text, S, c, n, fs)
    BY <1>9, ColonsFit
  <2>2. QED
    BY <1>11, <2>1 DEF FittingColons
<1>21. fs \in Seq(FixFindings) /\ DOMAIN fs = 1 .. n + 1 /\ n \in Nat
  <2>1. fs \in Seq(FixFindings) /\ n \in Nat
    BY <1>9 DEF Given
  <2>2. QED
    BY <1>13, <2>1
<1>22. S \subseteq 1 .. k
  <2>1. \A j \in Lost(text) : j \in Nat /\ j \in DOMAIN text /\ j <= k
    BY LostIs
  <2>2. \A j \in Lost(text) : 1 <= j
    BY <1>5, <2>1
  <2>3. QED
    BY <1>2, <1>10, <2>1, <2>2
<1> DEFINE a == [i \in 1 .. n + 1 |-> fs[i].line]
           z == [i \in 1 .. n + 1 |-> End(fs[i])]
<1>23. /\ \A i \in 1 .. n : a[i] = c[i] /\ z[i] = c[i] /\ c[i] \in 1 .. k
       /\ a[n + 1] = b /\ z[n + 1] = m
       /\ \A i \in 1 .. n + 1 : /\ fs[i].has_fix /\ fs[i].line = a[i] /\ End(fs[i]) = z[i]
                                /\ i \in 1 .. n \/ i = n + 1
  <2>1. \A i \in 1 .. n : i \in 1 .. n + 1 /\ i # n + 1
    BY <1>21
  <2>2. n + 1 \in 1 .. n + 1 /\ \A i \in 1 .. n + 1 : i \in 1 .. n \/ i = n + 1
    BY <1>21
  <2>3. fs[n + 1].line = b /\ End(fs[n + 1]) = m /\ fs[n + 1].has_fix
    <3>1. b <= m
      BY <1>2, <1>17
    <3>2. QED
      BY <1>19, <3>1 DEF End
  <2>4. QED
    BY <1>20, <1>22, <2>1, <2>2, <2>3
<1> HIDE DEF a, z
<1>24. ASSUME NEW j \in 1 .. N, ~ (b <= j /\ j <= m) PROVE moved[j] = meant[j]
  <2>1. j \in Nat
    OBVIOUS
  <2>2. ~ (k < j /\ j <= end /\ j \in C)
    <3> SUFFICES ASSUME k < j, j <= end, j \in C PROVE FALSE
      OBVIOUS
    <3>1. b <= j /\ j <= m
      BY <1>2, <1>17, <2>1
    <3>2. QED
      BY <1>24, <3>1
  <2>3. QED
    BY <1>6, <2>2
<1>25. ASSUME NEW i \in 1 .. n PROVE fs[i].fix = SubSeq(meant, c[i], c[i])
  <2> DEFINE j == c[i]
  <2>1. j \in 1 .. k /\ j \in 1 .. N /\ fs[i].fix = SubSeq(moved, j, j)
    BY <1>5, <1>20, <1>23
  <2>2. moved[j] = meant[j]
    <3>1. ~ (b <= j)
      BY <1>2, <2>1
    <3>2. QED
      BY <1>24, <2>1, <3>1
  <2> HIDE DEF j
  <2>3. ASSUME NEW lines \in Seq(Lines), j \in DOMAIN lines
        PROVE  SubSeq(lines, j, j) = <<lines[j]>>
    <3> DEFINE one == SubSeq(lines, j, j)
    <3>1. j \in Int /\ j <= j /\ j - j + 1 = 1 /\ 1 \in 1 .. j - j + 1 /\ j + 1 - 1 = j
          /\ \A y \in j .. j : lines[y] \in Lines
      BY <2>1, <2>3
    <3>2. one \in Seq(Lines) /\ Len(one) = 1 /\ one[1] = lines[j]
      BY <3>1, SubSeqProperties
    <3> HIDE DEF one
    <3>3. one = <<one[1]>>
      BY <3>2
    <3>4. QED
      BY <3>2, <3>3, Zenon DEF one
  <2>4. SubSeq(moved, j, j) = <<moved[j]>> /\ SubSeq(meant, j, j) = <<meant[j]>>
    BY <1>1, <1>5, <2>1, <2>3
  <2>5. QED
    BY <2>1, <2>2, <2>4 DEF j
<1>26. Fits(text, fs, meant)
  <2>1. Fixable(fs) = 1 .. n + 1
    BY <1>21, <1>23 DEF Fixable
  <2>2. ASSUME NEW i \in 1 .. n + 1
        PROVE  /\ 0 < a[i] /\ z[i] <= N
               /\ fs[i].fix = SubSeq(meant, a[i], z[i])
    <3>1. CASE i \in 1 .. n
      <4>1. a[i] = c[i] /\ z[i] = c[i] /\ c[i] \in 1 .. k /\ fs[i].fix = SubSeq(meant, c[i], c[i])
        BY <1>23, <1>25, <3>1
      <4>2. 0 < c[i] /\ c[i] <= N
        BY <1>1, <1>2, <4>1
      <4>3. QED
        BY <4>1, <4>2
    <3>2. CASE i = n + 1
      <4>1. a[i] = b /\ z[i] = m /\ fs[i].fix = SubSeq(meant, b, m)
        BY <1>19, <1>23, <3>2
      <4>2. 0 < b /\ m <= N
        BY <1>2, <1>17
      <4>3. QED
        BY <4>1, <4>2
    <3>3. QED
      BY <1>23, <3>1, <3>2
  <2>3. ASSUME NEW i \in 1 .. n + 1, NEW j \in 1 .. n + 1, i # j
        PROVE  ~ (a[i] <= z[j] /\ a[j] <= z[i])
    <3>1. CASE i \in 1 .. n /\ j \in 1 .. n
      <4>1. c[i] # c[j] /\ c[i] \in Nat /\ c[j] \in Nat
        BY <1>9, <1>23, <2>3, <3>1 DEF Given
      <4>2. ~ (c[i] <= c[j] /\ c[j] <= c[i])
        BY <4>1
      <4>3. QED
        BY <1>23, <3>1, <4>2
    <3>2. CASE i \in 1 .. n /\ j = n + 1
      <4>1. a[j] = b /\ z[i] = c[i] /\ c[i] \in 1 .. k
        BY <1>23, <3>2
      <4>2. ~ (b <= c[i])
        BY <1>2, <4>1
      <4>3. QED
        BY <4>1, <4>2
    <3>3. CASE j \in 1 .. n /\ i = n + 1
      <4>1. a[i] = b /\ z[j] = c[j] /\ c[j] \in 1 .. k
        BY <1>23, <3>3
      <4>2. ~ (b <= c[j])
        BY <1>2, <4>1
      <4>3. QED
        BY <4>1, <4>2
    <3>4. QED
      BY <1>23, <2>3, <3>1, <3>2, <3>3
  <2>4. ASSUME NEW j \in DOMAIN text
        PROVE  meant[j] = text[j] \/ \E i \in 1 .. n + 1 : a[i] <= j /\ j <= z[i]
    <3>0. j \in 1 .. N /\ j \in Nat
      BY <1>5
    <3>1. CASE j \in S
      <4>1. PICK i \in 1 .. n : c[i] = j
        BY <1>9, <3>1 DEF Given
      <4>2. i \in 1 .. n + 1 /\ a[i] = j /\ z[i] = j
        BY <1>21, <1>23, <4>1
      <4>3. j <= j
        BY <3>0
      <4>4. QED
        BY <4>2, <4>3
    <3>2. CASE b <= j /\ j <= m
      <4>1. n + 1 \in 1 .. n + 1
        BY <1>21
      <4>2. QED
        BY <1>23, <3>2, <4>1
    <3>3. CASE j \notin S /\ ~ (b <= j /\ j <= m)
      <4>1. Filled(text, S)[j] = text[j]
        BY <3>3, FilledIs
      <4>2. moved[j] = meant[j]
        BY <1>24, <3>0, <3>3
      <4>3. QED
        BY <1>11, <4>1, <4>2
    <3>4. QED
      BY <3>1, <3>2, <3>3
  <2>5. /\ \A i \in Fixable(fs) :
               /\ 0 < fs[i].line /\ End(fs[i]) <= Len(text)
               /\ fs[i].fix = SubSeq(meant, fs[i].line, End(fs[i]))
        /\ \A i, j \in Fixable(fs) : i # j => ~Overlap(fs[i], fs[j])
        /\ \A j \in DOMAIN text :
               meant[j] = text[j] \/ \E i \in Fixable(fs) : fs[i].line <= j /\ j <= End(fs[i])
    <3>1. \A i \in 1 .. n + 1 : fs[i].line = a[i] /\ End(fs[i]) = z[i]
      BY <1>23
    <3>2. \A i \in 1 .. n + 1 :
               /\ 0 < fs[i].line /\ End(fs[i]) <= Len(text)
               /\ fs[i].fix = SubSeq(meant, fs[i].line, End(fs[i]))
      BY <1>5, <2>2, <3>1
    <3>3. \A i, j \in 1 .. n + 1 : i # j => ~Overlap(fs[i], fs[j])
      BY <2>3, <3>1 DEF Overlap
    <3>4. \A j \in DOMAIN text :
               meant[j] = text[j] \/ \E i \in 1 .. n + 1 : fs[i].line <= j /\ j <= End(fs[i])
      BY <2>4, <3>1
    <3>5. QED
      BY <2>1, <3>2, <3>3, <3>4
  <2>6. QED
    BY <1>5, <2>5 DEF Fits
<1>27. Patched(text, fs) = meant
  BY <1>21, <1>26, PatchedAs
<1>28. QED
  BY <1>27 DEF fs

-----------------------------------------------------------------------------
(* What is left of the findings when fixes are in.                         *)

\* What a file lacks that no colon mends, and the findings that give S its colons.
Rest(lines) ==
    LET e == Compile(lines)
    IN  IF e.msg = "none" THEN {} ELSE {SyntaxErrorFix(lines, e)}

Colons(lines, S) == {ColonFix(lines, k) : k \in S}

\* A review that is not cut short finds both.
LEMMA FoundIs ==
    ASSUME NEW lines \in Seq(Lines), NEW S, NEW n, NEW c, NEW fs,
           Given(lines, S, c, n, fs), Finished(lines, S, n, fs)
    PROVE  /\ ToSet(fs) = Colons(lines, S) \cup Rest(Filled(lines, S))
           /\ Ended(Filled(lines, S))
<1> DEFINE F == Filled(lines, S)
           e == Compile(F)
           C == Colons(lines, S)
           R == Rest(F)
<1>1. /\ n \in Nat /\ fs \in Seq(FixFindings) /\ n <= Len(fs) /\ c \in [1 .. n -> S]
      /\ \A k \in S : \E i \in 1 .. n : c[i] = k
      /\ \A i \in 1 .. n : fs[i] = ColonFix(lines, c[i])
  BY DEF Given
<1>2. \/ Len(fs) = n /\ e.msg = "none"
      \/ Len(fs) = n + 1 /\ e.msg # "none" /\ Ended(F) /\ fs[n + 1] = SyntaxErrorFix(F, e)
  BY DEF Finished
<1>3. R = IF e.msg = "none" THEN {} ELSE {SyntaxErrorFix(F, e)}
  BY DEF Rest
<1>4. e.msg = "none" => Ended(F)
  BY DEF Ended
<1>5. \A f : f \in C <=> \E i \in 1 .. n : f = fs[i]
  <2>1. \A f : f \in C <=> \E k \in S : f = ColonFix(lines, k)
    BY DEF Colons
  <2>2. \A i \in 1 .. n : c[i] \in S
    BY <1>1
  <2> HIDE DEF C
  <2>3. QED
    BY <1>1, <2>1, <2>2
<1> HIDE DEF F, e, C, R
<1>6. DOMAIN fs = 1 .. Len(fs) /\ Len(fs) \in Nat
  BY <1>1
<1>7. \A f : f \in ToSet(fs) <=> \E i \in 1 .. Len(fs) : f = fs[i]
  BY <1>6 DEF ToSet
<1>8. ToSet(fs) = C \cup R /\ Ended(F)
  <2>1. CASE Len(fs) = n /\ e.msg = "none"
    BY <1>3, <1>4, <1>5, <1>7, <2>1
  <2>2. CASE /\ Len(fs) = n + 1 /\ e.msg # "none" /\ Ended(F)
             /\ fs[n + 1] = SyntaxErrorFix(F, e)
    <3>1. \A i : i \in 1 .. n + 1 <=> i \in 1 .. n \/ i = n + 1
      BY <1>1
    <3>2. R = {fs[n + 1]}
      BY <1>3, <2>2
    <3>3. QED
      BY <1>5, <1>7, <2>2, <3>1, <3>2
  <2>3. QED
    BY <1>2, <2>1, <2>2
<1>9. QED
  BY <1>8 DEF F, C, R

\* So does one of a file that can be given so many colons.
LEMMA FoundFrom ==
    ASSUME NEW lines \in Seq(Lines), NEW T, Sound(lines, T), Ended(Filled(lines, T)),
           IsFiniteSet(T), Cardinality(T) < Rounds
    PROVE  ToSet(Findings(lines)) = Colons(lines, T) \cup Rest(Filled(lines, T))
<1>1. PICK S, n, c :
          /\ Given(lines, S, c, n, Findings(lines))
          /\ n \in 0 .. Rounds
          /\ Len(Findings(lines)) <= Rounds
          /\ \/ Finished(lines, S, n, Findings(lines))
             \/ n = Rounds /\ Len(Findings(lines)) = n
  BY FindingsAre
<1> DEFINE fs == Findings(lines)
<1> HIDE DEF fs
<1>2. Given(lines, S, c, n, fs) /\ (Finished(lines, S, n, fs) \/ n = Rounds)
  BY <1>1 DEF fs
<1>3. Sound(lines, S)
  BY <1>2 DEF Given
<1>4. S \subseteq T
  BY <1>3, GivenFirst
<1>5. Finished(lines, S, n, fs)
  <2>1. Cardinality(S) = n
    BY <1>2, GivenCount
  <2>2. Cardinality(S) <= Cardinality(T)
    BY <1>4, FS_Subset
  <2>3. Cardinality(T) \in Nat /\ n \in Nat /\ Rounds \in Nat
    BY <1>1, FS_CardinalityType DEF Rounds, MaxSyntaxErrorsPerReview
  <2>4. n # Rounds
    BY <2>1, <2>2, <2>3
  <2>5. QED
    BY <1>2, <2>4
<1>6. /\ ToSet(fs) = Colons(lines, S) \cup Rest(Filled(lines, S))
      /\ Ended(Filled(lines, S))
  BY <1>2, <1>5, FoundIs
<1>7. T \subseteq S
  BY <1>3, <1>6, GivenFirst
<1>8. S = T
  BY <1>4, <1>7
<1>9. QED
  BY <1>6, <1>8 DEF fs

\* Stretches of files that agree there.
LEMMA SameStretch ==
    ASSUME NEW s \in Seq(Lines), NEW t \in Seq(Lines), Len(s) = Len(t),
           NEW a \in 1 .. Len(s), NEW b \in 1 .. Len(s), a <= b
    PROVE  /\ (\A k \in a .. b : s[k] = t[k]) => SubSeq(s, a, b) = SubSeq(t, a, b)
           /\ SubSeq(s, a, b) = SubSeq(t, a, b) => s[a] = t[a]
           /\ SubSeq(s, a, a) = <<s[a]>>
<1>1. a \in Int /\ b \in Int /\ Len(s) \in Nat
      /\ (\A k \in a .. b : s[k] \in Lines /\ t[k] \in Lines)
      /\ \A k \in a .. a : s[k] \in Lines
  OBVIOUS
<1> DEFINE u == SubSeq(s, a, b)
           v == SubSeq(t, a, b)
           w == SubSeq(s, a, a)
           n == b - a + 1
<1>2. /\ u \in Seq(Lines) /\ Len(u) = n /\ \A i \in 1 .. n : u[i] = s[a + i - 1]
      /\ v \in Seq(Lines) /\ Len(v) = n /\ \A i \in 1 .. n : v[i] = t[a + i - 1]
  BY <1>1, SubSeqProperties
<1>3. w \in Seq(Lines) /\ Len(w) = 1 /\ w[1] = s[a]
  <2>1. a - a + 1 = 1 /\ a + 1 - 1 = a /\ 1 \in 1 .. a - a + 1 /\ a <= a
    BY <1>1
  <2>2. QED
    BY <1>1, <2>1, SubSeqProperties
<1> HIDE DEF u, v, w
<1>4. n \in Nat /\ 1 \in 1 .. n /\ a + 1 - 1 = a /\ \A i \in 1 .. n : a + i - 1 \in a .. b
  BY <1>1
<1> HIDE DEF n
<1>5. w = <<s[a]>>
  BY <1>3
<1>6. ASSUME \A k \in a .. b : s[k] = t[k] PROVE u = v
  <2>1. \A i \in 1 .. n : u[i] = v[i]
    BY <1>2, <1>4, <1>6
  <2>2. QED
    BY <1>2, <2>1
<1>7. ASSUME u = v PROVE s[a] = t[a]
  BY <1>2, <1>4, <1>7
<1>8. QED
  BY <1>5, <1>6, <1>7 DEF u, v, w

\* A file after a move.
LEMMA MovedIs ==
    ASSUME NEW lines \in Seq(Lines), NEW e, NEW first, NEW end, NEW offset,
           MovesBy(lines, e, first, end, offset),
           NEW moved, moved = Reindent(lines, first, end, offset)
    PROVE  /\ first \in DOMAIN lines /\ end \in DOMAIN lines /\ first <= end
           /\ moved \in Seq(Lines) /\ Len(moved) = Len(lines) /\ DOMAIN moved = DOMAIN lines
           /\ Code(moved) = Code(lines) /\ Compiles(moved)
           /\ \A k \in DOMAIN lines : moved[k].colon = lines[k].colon
                                      /\ moved[k].form = lines[k].form
           /\ \A k \in DOMAIN lines : k \notin first .. end => moved[k] = lines[k]
           /\ \A k \in Code(lines) : k \in first .. end =>
                                         moved[k].indent = lines[k].indent + offset
<1>1. /\ first \in Code(lines) /\ first \in DOMAIN lines /\ end \in DOMAIN lines
      /\ first <= end /\ offset \in Int
      /\ (\A k \in first .. end : moved[k].indent >= 0) /\ Compiles(moved)
  BY DEF MovesBy, Code
<1>2. /\ Len(moved) = Len(lines) /\ DOMAIN moved = DOMAIN lines
      /\ \A k \in DOMAIN lines : k \in first .. end /\ ~Blank(lines[k]) =>
             moved[k] = [lines[k] EXCEPT !.indent = @ + offset]
      /\ \A k \in DOMAIN lines : k \notin first .. end \/ Blank(lines[k]) => moved[k] = lines[k]
  BY <1>1, ReindentIs
<1>3. moved \in Seq(Lines)
  BY <1>1, MoveIs
<1>4. ASSUME NEW k \in DOMAIN lines
      PROVE  /\ moved[k].colon = lines[k].colon /\ moved[k].form = lines[k].form
             /\ k \in first .. end /\ ~Blank(lines[k]) =>
                    moved[k].indent = lines[k].indent + offset
  <2>1. lines[k] \in Lines
    OBVIOUS
  <2>2. CASE k \in first .. end /\ ~Blank(lines[k])
    <3>1. moved[k] = [lines[k] EXCEPT !.indent = @ + offset]
      BY <1>2, <2>2
    <3>2. QED
      BY <2>1, <3>1 DEF Lines
  <2>3. CASE k \notin first .. end \/ Blank(lines[k])
    BY <1>2, <2>3
  <2>4. QED
    BY <2>2, <2>3
<1>5. Code(moved) = Code(lines)
  BY <1>2, <1>4 DEF Code, Blank
<1>6. QED
  BY <1>1, <1>2, <1>3, <1>4, <1>5 DEF Code

\* No line that gets a colon is among those that move: nothing is wrong with it, and if
\* the lines right above the error began a block, they could not be moved to where it is.
LEMMA MovesApart ==
    ASSUME NEW lines \in Seq(Lines), NEW S, Sound(lines, S),
           NEW filled, filled = Filled(lines, S), NEW e, e = Compile(filled),
           NEW first, NEW end, NEW offset, MovesBy(filled, e, first, end, offset)
    PROVE  \A k \in S : k \notin first .. end
<1> SUFFICES ASSUME NEW k \in S, k \in first .. end PROVE FALSE
  OBVIOUS
<1> DEFINE N == Len(filled)
           moved == Reindent(filled, first, end, offset)
<1>1. /\ filled \in Seq(Lines) /\ DOMAIN filled = 1 .. N /\ N \in Nat
      /\ k \in Code(filled) /\ k \in DOMAIN filled /\ k \in Nat /\ Opens(filled[k])
      /\ \A j \in Code(filled) : j <= k => Fault(filled, j) = "none"
  <2>1. filled \in Seq(Lines) /\ Code(filled) = Code(lines) /\ DOMAIN filled = DOMAIN lines
    BY FilledIs
  <2>2. k \in Code(lines) /\ k \in DOMAIN lines /\ k \in Nat /\ Header(lines[k])
    BY LostIs DEF Sound
  <2>3. filled[k].form = lines[k].form /\ filled[k].colon
    BY <2>2, FilledIs
  <2>4. \A j \in Code(lines) : j <= k => Fault(filled, j) = "none"
    BY DEF Sound
  <2>5. QED
    BY <2>1, <2>2, <2>3, <2>4 DEF Opens, Header
<1>2. /\ first \in 1 .. N /\ end \in 1 .. N /\ first <= end
      /\ moved \in Seq(Lines) /\ Len(moved) = N /\ DOMAIN moved = 1 .. N
      /\ Code(moved) = Code(filled) /\ Compiles(moved)
      /\ Opens(moved[k])
      /\ \A j \in DOMAIN filled : j \notin first .. end => moved[j] = filled[j]
      /\ \A j \in Code(filled) : j \in first .. end =>
                                     moved[j].indent = filled[j].indent + offset
  <2>1. moved[k].colon = filled[k].colon /\ moved[k].form = filled[k].form
    BY <1>1, MovedIs
  <2>2. Opens(moved[k])
    BY <1>1, <2>1 DEF Opens, Header
  <2> HIDE DEF moved
  <2>3. QED
    BY <1>1, <2>2, MovedIs DEF moved
<1>3. /\ \A j \in Code(moved) : Fault(moved, j) = "none"
      /\ N > 0 => ~Opens(moved[N])
  <2> DEFINE d == Compile(moved)
  <2>1. d = Compile(moved) /\ d.msg = "none"
    BY <1>2 DEF Compiles
  <2> HIDE DEF d, moved
  <2>2. QED
    BY <1>2, <2>1, CompileIs
<1> HIDE DEF moved
<1>4. CASE e.msg \in {"block", "indent", "unindent"} /\ first = e.lineno
  <2>1. e.lineno \in Code(filled) /\ e.lineno <= k
    BY <1>1, <1>4, CompileIs
  <2>2. Fault(filled, e.lineno) = "none"
    BY <1>1, <2>1
  <2>3. e.lineno = N
    BY <1>1, <1>4, <2>2, CompileIs
  <2>4. k = N
    BY <1>1, <2>1, <2>3
  <2>5. QED
    BY <1>1, <1>2, <1>3, <2>4
<1>5. CASE /\ e.msg \in {"indent", "unindent"}
           /\ Above(filled, e.lineno) # {} /\ end = Max(Above(filled, e.lineno))
           /\ \A j \in first .. end :
                  j \in Code(filled) /\ filled[j].indent + offset = filled[e.lineno].indent
  <2> DEFINE m == e.lineno
  <2>1. m \in Code(filled) /\ \A j \in Code(filled) : j < m => Fault(filled, j) = "none"
    BY <1>1, <1>5, CompileIs
  <2>2. m \in DOMAIN filled /\ m \in Nat
    BY <1>1, <2>1 DEF Code
  <2>3. end < m /\ end \in Code(filled) /\ \A j \in Above(filled, m) : j <= end
    BY <1>1, <1>5, <2>2, AboveIs
  <2>4. \A j \in first .. end :
            j \in Code(filled) /\ filled[j].indent + offset = filled[m].indent
    BY <1>5
  <2> HIDE DEF m
  <2>5. k <= end /\ end \in Nat
    BY <1>1, <1>2
  <2>6. CASE k = end
    <3>1. moved[end].indent = filled[end].indent + offset /\ end \in first .. end
      BY <1>2, <2>3, <2>5
    <3>2. moved[m] = filled[m]
      BY <1>2, <2>2, <2>3, <2>5
    <3>3. moved[m].indent = moved[end].indent
      BY <2>4, <3>1, <3>2
    <3>4. \A j \in Code(moved) : end < j => m <= j
      <4>1. \A j \in Code(filled) : j < m => j \in Above(filled, m)
        BY DEF Above
      <4>2. \A j \in Code(filled) : j \in Nat
        BY <1>1 DEF Code
      <4>3. QED
        BY <1>2, <2>2, <2>3, <2>5, <4>1, <4>2
    <3>5. Fault(moved, m) = "block"
      <4>1. moved \in Seq(Lines) /\ end \in Code(moved) /\ m \in Code(moved) /\ end < m
            /\ Opens(moved[end])
        BY <1>2, <2>1, <2>3, <2>6
      <4>2. QED
        BY <3>3, <3>4, <4>1, BehindHeader
    <3>6. QED
      BY <1>2, <1>3, <2>1, <3>5
  <2>7. CASE k # end
    <3>1. k + 1 \in first .. end /\ k \in first .. end /\ k < k + 1 /\ k + 1 < m
      BY <1>1, <1>2, <2>2, <2>3, <2>5, <2>7
    <3>2. k + 1 \in Code(filled) /\ k \in Code(filled)
      BY <2>4, <3>1
    <3>3. filled[k + 1].indent = filled[k].indent
      <4>1. filled[k + 1].indent \in Nat /\ filled[k].indent \in Nat /\ offset \in Int
        BY <1>1, <3>2, LineIs DEF Code, MovesBy
      <4>2. filled[k + 1].indent + offset = filled[k].indent + offset
        BY <2>4, <3>1
      <4> DEFINE x == filled[k + 1].indent
                 y == filled[k].indent
      <4> HIDE DEF x, y
      <4>3. x \in Nat /\ y \in Nat /\ x + offset = y + offset
        BY <4>1, <4>2 DEF x, y
      <4>4. x = y
        BY <4>1, <4>3
      <4>5. QED
        BY <4>4 DEF x, y
    <3>4. \A j \in Code(filled) : k < j => k + 1 <= j
      BY <1>1 DEF Code
    <3>5. Fault(filled, k + 1) = "block"
      BY <1>1, <3>1, <3>2, <3>3, <3>4, BehindHeader
    <3>6. QED
      BY <2>1, <3>1, <3>2, <3>5
  <2>8. QED
    BY <2>6, <2>7
<1>6. QED
  BY <1>4, <1>5 DEF MovesBy

\* Where the fixes lead: a file in which S have their colons, with nothing wrong up to
\* the last of them and nothing that one more would mend.
Heals(lines, S, goal) ==
    /\ goal \in Seq(Lines) /\ Len(goal) = Len(lines) /\ DOMAIN goal = DOMAIN lines
    /\ \A k \in S : /\ goal[k] = Coloned(lines[k])
                    /\ \A j \in Code(goal) : j <= k => Fault(goal, j) = "none"
    /\ Ended(goal)

\* The same without the colons of T.
Partly(lines, goal, T) == [k \in DOMAIN lines |-> IF k \in T THEN lines[k] ELSE goal[k]]

LEMMA PartlyIs ==
    ASSUME NEW lines \in Seq(Lines), NEW S, NEW goal, Heals(lines, S, goal), NEW T,
           NEW next, next = Partly(lines, goal, T)
    PROVE  /\ next \in Seq(Lines) /\ Len(next) = Len(lines) /\ DOMAIN next = DOMAIN lines
           /\ \A k \in DOMAIN lines : next[k] = IF k \in T THEN lines[k] ELSE goal[k]
<1>1. /\ goal \in Seq(Lines) /\ Len(goal) = Len(lines) /\ DOMAIN goal = DOMAIN lines
      /\ Len(lines) \in Nat /\ DOMAIN lines = 1 .. Len(lines)
  BY DEF Heals
<1>2. next = [k \in 1 .. Len(lines) |-> IF k \in T THEN lines[k] ELSE goal[k]]
  BY <1>1 DEF Partly
<1>3. \A k \in 1 .. Len(lines) : goal[k] \in Lines /\ lines[k] \in Lines
  BY <1>1
<1>4. \A k \in 1 .. Len(lines) : next[k] \in Lines
                                 /\ next[k] = IF k \in T THEN lines[k] ELSE goal[k]
  BY <1>2, <1>3
<1>5. QED
  BY <1>1, <1>2, <1>4

\* A review of it finds these colons, and what the file lacks that it is on the way to.
LEMMA LeftOver ==
    ASSUME NEW lines \in Seq(Lines), NEW S, Sound(lines, S), IsFiniteSet(S),
           Cardinality(S) < Rounds, NEW goal, Heals(lines, S, goal), NEW T, T \subseteq S,
           NEW next, next = Partly(lines, goal, T)
    PROVE  ToSet(Findings(next)) = Colons(lines, T) \cup Rest(goal)
<1>1. /\ next \in Seq(Lines) /\ DOMAIN next = DOMAIN lines /\ Len(next) = Len(lines)
      /\ \A k \in DOMAIN lines : next[k] = IF k \in T THEN lines[k] ELSE goal[k]
  BY PartlyIs
<1>2. /\ goal \in Seq(Lines) /\ DOMAIN goal = DOMAIN lines /\ Len(goal) = Len(lines)
      /\ Ended(goal)
      /\ \A k \in S : /\ goal[k] = Coloned(lines[k])
                      /\ \A j \in Code(goal) : j <= k => Fault(goal, j) = "none"
  BY DEF Heals
<1>3. \A k \in T : k \in S /\ k \in DOMAIN lines /\ Header(lines[k]) /\ ~lines[k].colon
                   /\ ~lines[k].comment /\ next[k] = lines[k]
  BY <1>1, LostIs DEF Sound
<1>4. Filled(next, T) = goal
  <2> DEFINE filled == Filled(next, T)
  <2>1. /\ filled \in Seq(Lines) /\ DOMAIN filled = DOMAIN next /\ Len(filled) = Len(next)
        /\ \A k \in DOMAIN next : filled[k] = IF k \in T THEN Coloned(next[k]) ELSE next[k]
    BY <1>1, FilledIs
  <2> HIDE DEF filled
  <2>2. ASSUME NEW k \in DOMAIN lines PROVE filled[k] = goal[k]
    <3>1. k \in DOMAIN next
      BY <1>1
    <3>2. CASE k \in T
      <4>1. filled[k] = Coloned(next[k]) /\ next[k] = lines[k] /\ goal[k] = Coloned(lines[k])
        BY <1>2, <1>3, <2>1, <3>1, <3>2
      <4>2. QED
        BY <4>1
    <3>3. CASE k \notin T
      <4>1. filled[k] = next[k] /\ next[k] = goal[k]
        BY <1>1, <2>1, <3>1, <3>3
      <4>2. QED
        BY <4>1
    <3>4. QED
      BY <3>2, <3>3
  <2>3. DOMAIN lines = 1 .. Len(lines) /\ Len(next) = Len(lines) /\ Len(goal) = Len(lines)
    BY <1>1, <1>2
  <2>4. filled = goal
    BY <1>2, <2>1, <2>2, <2>3
  <2>5. QED
    BY <2>4 DEF filled
<1>5. Sound(next, T)
  <2>1. \A k \in T : k \in Lost(next) /\ ~next[k].comment
    BY <1>1, <1>3 DEF Lost
  <2>2. Code(next) = Code(goal)
    <3>1. Code(Filled(next, T)) = Code(next)
      BY <1>1, FilledIs
    <3>2. QED
      BY <1>4, <3>1
  <2>3. \A k \in T : \A j \in Code(next) : j <= k => Fault(Filled(next, T), j) = "none"
    BY <1>2, <1>3, <1>4, <2>2
  <2>4. QED
    BY <2>1, <2>3 DEF Sound
<1>6. IsFiniteSet(T) /\ Cardinality(T) < Rounds
  <2>1. IsFiniteSet(T) /\ Cardinality(T) <= Cardinality(S)
    BY FS_Subset
  <2>2. Cardinality(T) \in Nat /\ Cardinality(S) \in Nat /\ Rounds \in Nat
    BY <2>1, FS_CardinalityType DEF Rounds, MaxSyntaxErrorsPerReview
  <2>3. QED
    BY <2>1, <2>2
<1>7. Colons(next, T) = Colons(lines, T)
  <2>1. \A k \in T : ColonFix(next, k) = ColonFix(lines, k)
    BY <1>3 DEF ColonFix
  <2>2. QED
    BY <2>1 DEF Colons
<1>8. ToSet(Findings(next)) = Colons(next, T) \cup Rest(Filled(next, T))
  <2>1. Ended(Filled(next, T))
    BY <1>2, <1>4
  <2>2. QED
    BY <1>1, <1>5, <1>6, <2>1, FoundFrom
<1>9. QED
  BY <1>4, <1>7, <1>8

\* What a fix has been applied to.
GoneIn(next, f) == f.has_fix /\ SubSeq(next, f.line, End(f)) = f.fix

\* The colons that are in have gone from the findings, the others have not.
LEMMA ColonsGone ==
    ASSUME NEW lines \in Seq(Lines), NEW S, Sound(lines, S), NEW goal, Heals(lines, S, goal),
           NEW T, NEW next, next = Partly(lines, goal, T), NEW k \in S
    PROVE  GoneIn(next, ColonFix(lines, k)) <=> k \notin T
<1>1. /\ next \in Seq(Lines) /\ Len(next) = Len(lines)
      /\ \A j \in DOMAIN lines : next[j] = IF j \in T THEN lines[j] ELSE goal[j]
  BY PartlyIs
<1>2. k \in DOMAIN lines /\ k \in 1 .. Len(lines) /\ ~lines[k].colon /\ lines[k] \in Lines
  BY LostIs DEF Sound
<1>3. goal[k] = Coloned(lines[k])
  BY DEF Heals
<1> DEFINE f == ColonFix(lines, k)
<1>4. f.has_fix = TRUE /\ f.line = k /\ End(f) = k
  BY <1>2, ColonFixType
<1>5. f.fix = <<Coloned(lines[k])>>
  BY DEF ColonFix
<1>6. SubSeq(next, k, k) = <<next[k]>>
  <2>1. k <= k
    BY <1>2
  <2>2. QED
    BY <1>1, <1>2, <2>1, SameStretch
<1> HIDE DEF f
<1>7. GoneIn(next, f) <=> <<next[k]>> = <<Coloned(lines[k])>>
  BY <1>4, <1>5, <1>6 DEF GoneIn
<1>8. lines[k] # Coloned(lines[k])
  <2>1. Coloned(lines[k]).colon = TRUE
    BY <1>2 DEF Coloned, Lines
  <2>2. QED
    BY <1>2, <2>1
<1>9. next[k] = Coloned(lines[k]) <=> k \notin T
  BY <1>1, <1>2, <1>3, <1>8
<1>10. <<next[k]>> = <<Coloned(lines[k])>> <=> next[k] = Coloned(lines[k])
  OBVIOUS
<1>11. QED
  BY <1>7, <1>9, <1>10 DEF f

\* The colons lead to such a file, ...
LEMMA ColonsHeal ==
    ASSUME NEW lines \in Seq(Lines), NEW S, Sound(lines, S),
           NEW filled, filled = Filled(lines, S), Ended(filled)
    PROVE  Heals(lines, S, filled)
<1>1. /\ filled \in Seq(Lines) /\ Len(filled) = Len(lines) /\ DOMAIN filled = DOMAIN lines
      /\ Code(filled) = Code(lines)
      /\ \A k \in DOMAIN lines : filled[k] = IF k \in S THEN Coloned(lines[k]) ELSE lines[k]
  BY FilledIs
<1>2. \A k \in S : k \in DOMAIN lines
  BY LostIs DEF Sound
<1>3. \A k \in S : \A j \in Code(filled) : j <= k => Fault(filled, j) = "none"
  BY <1>1 DEF Sound
<1>4. \A k \in S : filled[k] = Coloned(lines[k])
  BY <1>1, <1>2
<1>5. QED
  BY <1>1, <1>3, <1>4 DEF Heals

\* ... and so does the move behind them, which leaves nothing to be found.
LEMMA MoveHeals ==
    ASSUME NEW lines \in Seq(Lines), NEW S, Sound(lines, S),
           NEW filled, filled = Filled(lines, S), NEW e, e = Compile(filled),
           NEW first, NEW end, NEW offset, MovesBy(filled, e, first, end, offset),
           NEW moved, moved = Reindent(filled, first, end, offset)
    PROVE  Heals(lines, S, moved) /\ Rest(moved) = {}
<1>1. /\ filled \in Seq(Lines) /\ Len(filled) = Len(lines) /\ DOMAIN filled = DOMAIN lines
      /\ \A k \in DOMAIN lines : filled[k] = IF k \in S THEN Coloned(lines[k]) ELSE lines[k]
  BY FilledIs
<1>2. /\ moved \in Seq(Lines) /\ Len(moved) = Len(filled) /\ DOMAIN moved = DOMAIN filled
      /\ Compiles(moved)
      /\ \A k \in DOMAIN filled : k \notin first .. end => moved[k] = filled[k]
  BY <1>1, MovedIs
<1>3. \A k \in S : k \in DOMAIN lines /\ k \notin first .. end
  BY LostIs, MovesApart DEF Sound
<1>4. \A k \in S : moved[k] = Coloned(lines[k])
  BY <1>1, <1>2, <1>3
<1> DEFINE d == Compile(moved)
<1>5. d.msg = "none" /\ d = Compile(moved)
  BY <1>2 DEF Compiles
<1> HIDE DEF d
<1>6. \A j \in Code(moved) : Fault(moved, j) = "none"
  BY <1>2, <1>5, CompileIs
<1>7. Ended(moved) /\ Rest(moved) = {}
  BY <1>5 DEF Ended, Rest
<1>8. QED
  BY <1>1, <1>2, <1>4, <1>6, <1>7 DEF Heals

\* As long as it has not been made, the move is still to be found.
LEMMA StillThere ==
    ASSUME NEW lines \in Seq(Lines), NEW S, Sound(lines, S),
           NEW filled, filled = Filled(lines, S), Ended(filled),
           NEW T, NEW next, next = Partly(lines, filled, T), NEW f \in Rest(filled)
    PROVE  ~GoneIn(next, f)
<1> DEFINE e == Compile(filled)
<1>1. filled \in Seq(Lines) /\ Len(filled) = Len(lines) /\ DOMAIN filled = DOMAIN lines
      /\ \A k \in DOMAIN lines : filled[k].indent = lines[k].indent
  BY FilledIs
<1>2. e.msg # "none" /\ f = SyntaxErrorFix(filled, e)
  BY DEF Rest
<1>3. e.msg # "colon" \/ filled[e.lineno].comment
  BY DEF Ended
<1>4. e = Compile(filled)
  OBVIOUS
<1> HIDE DEF e
<1>5. f = Unfixed(e.lineno) \/ Moves(filled, e, f)
  BY <1>1, <1>2, <1>3, <1>4, OfferIs
<1>6. /\ next \in Seq(Lines) /\ Len(next) = Len(lines)
      /\ \A k \in DOMAIN lines : next[k] = IF k \in T THEN lines[k] ELSE filled[k]
  <2>1. Heals(lines, S, filled)
    BY ColonsHeal
  <2>2. QED
    BY <2>1, PartlyIs
<1>7. CASE f = Unfixed(e.lineno)
  BY <1>7 DEF Unfixed, GoneIn
<1>8. CASE Moves(filled, e, f)
  <2>1. PICK first, end, offset :
            MovesBy(filled, e, first, end, offset) /\ f = Move(filled, first, end, offset)
    BY <1>8 DEF Moves
  <2> DEFINE moved == Reindent(filled, first, end, offset)
  <2>2. f.line = first /\ f.end = end /\ f.fix = SubSeq(moved, first, end)
    BY <2>1 DEF Move
  <2>3. /\ first \in DOMAIN filled /\ end \in DOMAIN filled /\ first <= end
        /\ moved \in Seq(Lines) /\ Len(moved) = Len(filled)
        /\ \A k \in Code(filled) : k \in first .. end =>
                                       moved[k].indent = filled[k].indent + offset
    BY <1>1, <2>1, MovedIs
  <2>4. first \in Code(filled) /\ offset \in Int \ {0}
    BY <2>1 DEF MovesBy
  <2> HIDE DEF moved
  <2>5. End(f) = end /\ first \in 1 .. Len(next) /\ end \in 1 .. Len(next) /\ first \in first .. end
    BY <1>1, <1>6, <2>2, <2>3 DEF End
  <2>6. next[first].indent = filled[first].indent /\ filled[first].indent \in Nat
    <3>1. next[first] = lines[first] \/ next[first] = filled[first]
      BY <1>1, <1>6, <2>3
    <3>2. filled[first].indent \in Nat
      BY <1>1, <2>3, LineIs
    <3>3. QED
      BY <1>1, <2>3, <3>1, <3>2
  <2>7. moved[first].indent = filled[first].indent + offset
    BY <2>3, <2>4, <2>5
  <2>8. next[first].indent # moved[first].indent
    <3> DEFINE x == filled[first].indent
    <3> HIDE DEF x
    <3>1. x \in Nat /\ offset \in Int \ {0} /\ next[first].indent = x
          /\ moved[first].indent = x + offset
      BY <2>4, <2>6, <2>7 DEF x
    <3>2. x + offset # x
      BY <3>1
    <3>3. QED
      BY <3>1, <3>2
  <2>9. SubSeq(next, first, end) # SubSeq(moved, first, end)
    <3>1. next \in Seq(Lines) /\ moved \in Seq(Lines) /\ Len(next) = Len(moved) /\ first <= end
      BY <1>1, <1>6, <2>3
    <3>2. SubSeq(next, first, end) = SubSeq(moved, first, end) => next[first] = moved[first]
      BY <2>5, <3>1, SameStretch
    <3>3. QED
      BY <2>8, <3>2
  <2>10. QED
    BY <2>2, <2>5, <2>9 DEF GoneIn
<1>9. QED
  BY <1>5, <1>7, <1>8

\* What they are to be: the colons of S but those of T and perhaps a move from a to b,
\* which is apart from them and brings what else there is to bring.
Brings(lines, S, T, goal, fs, a, b) ==
    /\ \A k \in S : k \notin a .. b
    /\ \A i \in Fixable(fs) :
           \/ \E k \in S \ T : fs[i] = ColonFix(lines, k)
           \/ /\ a \in DOMAIN lines /\ b \in DOMAIN lines /\ a <= b
              /\ fs[i].line = a /\ End(fs[i]) = b /\ fs[i].fix = SubSeq(goal, a, b)
    /\ \A i, j \in Fixable(fs) : i # j => fs[i].line # fs[j].line
    /\ \A k \in S \ T : \E i \in Fixable(fs) : fs[i] = ColonFix(lines, k)
    /\ \A k \in DOMAIN lines : \/ k \in S \/ goal[k] = lines[k]
                               \/ \E i \in Fixable(fs) : fs[i].line <= k /\ k <= End(fs[i])

LEMMA GoalReached ==
    ASSUME NEW lines \in Seq(Lines), NEW S, Sound(lines, S), NEW goal, Heals(lines, S, goal),
           NEW T, T \subseteq S, NEW next, next = Partly(lines, goal, T),
           NEW fs \in Seq(FixFindings), NEW a, NEW b, Brings(lines, S, T, goal, fs, a, b)
    PROVE  Patched(lines, fs) = next
<1> DEFINE N == Len(lines)
<1>0. /\ \A k \in S : k \notin a .. b
      /\ \A i \in Fixable(fs) :
             \/ \E k \in S \ T : fs[i] = ColonFix(lines, k)
             \/ /\ a \in DOMAIN lines /\ b \in DOMAIN lines /\ a <= b
                /\ fs[i].line = a /\ End(fs[i]) = b /\ fs[i].fix = SubSeq(goal, a, b)
      /\ \A i, j \in Fixable(fs) : i # j => fs[i].line # fs[j].line
      /\ \A k \in S \ T : \E i \in Fixable(fs) : fs[i] = ColonFix(lines, k)
      /\ \A k \in DOMAIN lines : \/ k \in S \/ goal[k] = lines[k]
                                 \/ \E i \in Fixable(fs) : fs[i].line <= k /\ k <= End(fs[i])
  BY DEF Brings
<1>1. /\ next \in Seq(Lines) /\ Len(next) = N /\ DOMAIN lines = 1 .. N /\ N \in Nat
      /\ \A k \in DOMAIN lines : next[k] = IF k \in T THEN lines[k] ELSE goal[k]
  BY PartlyIs
<1>2. /\ goal \in Seq(Lines) /\ Len(goal) = N
      /\ \A k \in S : goal[k] = Coloned(lines[k])
  BY DEF Heals
<1>3. \A k \in S : k \in DOMAIN lines /\ k \in Nat
  BY LostIs DEF Sound
<1>4. \A k \in S : /\ ColonFix(lines, k).line = k /\ End(ColonFix(lines, k)) = k
                   /\ ColonFix(lines, k).fix = <<Coloned(lines[k])>>
  <2>1. \A k \in S : ColonFix(lines, k).line = k /\ End(ColonFix(lines, k)) = k
    BY <1>3, ColonFixType
  <2>2. QED
    BY <2>1 DEF ColonFix
<1>5. ASSUME NEW k \in S \ T PROVE SubSeq(next, k, k) = <<Coloned(lines[k])>>
  <2>1. next[k] = Coloned(lines[k]) /\ k \in 1 .. Len(next) /\ k <= k
    BY <1>1, <1>2, <1>3
  <2>2. SubSeq(next, k, k) = <<next[k]>>
    BY <1>1, <2>1, SameStretch
  <2>3. QED
    BY <2>1, <2>2
<1>6. ASSUME a \in DOMAIN lines, b \in DOMAIN lines, a <= b
      PROVE  SubSeq(goal, a, b) = SubSeq(next, a, b)
  <2>1. \A k \in a .. b : k \in DOMAIN lines /\ k \notin T
    BY <1>0, <1>1, <1>6
  <2>2. \A k \in a .. b : goal[k] = next[k]
    BY <1>1, <2>1
  <2>3. a \in 1 .. Len(goal) /\ b \in 1 .. Len(goal) /\ Len(goal) = Len(next)
    BY <1>1, <1>2, <1>6
  <2>4. QED
    BY <1>1, <1>2, <1>6, <2>2, <2>3, SameStretch
<1>7. ASSUME NEW i \in Fixable(fs)
      PROVE  \/ \E k \in S \ T : fs[i].line = k /\ End(fs[i]) = k
             \/ a \in 1 .. N /\ b \in 1 .. N /\ a <= b /\ fs[i].line = a /\ End(fs[i]) = b
  <2>1. CASE \E k \in S \ T : fs[i] = ColonFix(lines, k)
    BY <1>4, <2>1
  <2>2. CASE /\ a \in DOMAIN lines /\ b \in DOMAIN lines /\ a <= b
             /\ fs[i].line = a /\ End(fs[i]) = b
    BY <1>1, <2>2
  <2>3. QED
    BY <1>0, <2>1, <2>2
<1>8. ASSUME NEW i \in Fixable(fs)
      PROVE  /\ 0 < fs[i].line /\ End(fs[i]) <= N
             /\ fs[i].fix = SubSeq(next, fs[i].line, End(fs[i]))
  <2>1. CASE \E k \in S \ T : fs[i] = ColonFix(lines, k)
    <3>1. PICK k \in S \ T : fs[i] = ColonFix(lines, k)
      BY <2>1
    <3>2. fs[i].line = k /\ End(fs[i]) = k /\ fs[i].fix = SubSeq(next, k, k)
      <4>1. fs[i].line = k /\ End(fs[i]) = k /\ fs[i].fix = <<Coloned(lines[k])>>
        BY <1>4, <3>1
      <4>2. SubSeq(next, k, k) = <<Coloned(lines[k])>>
        BY <1>5
      <4>3. QED
        BY <4>1, <4>2
    <3>3. 0 < k /\ k <= N
      BY <1>1, <1>3
    <3>4. QED
      BY <3>2, <3>3
  <2>2. CASE /\ a \in DOMAIN lines /\ b \in DOMAIN lines /\ a <= b
             /\ fs[i].line = a /\ End(fs[i]) = b /\ fs[i].fix = SubSeq(goal, a, b)
    <3>1. fs[i].fix = SubSeq(next, a, b) /\ 0 < a /\ b <= N
      <4>1. SubSeq(goal, a, b) = SubSeq(next, a, b)
        BY <1>6, <2>2
      <4>2. 0 < a /\ b <= N
        BY <1>1, <2>2
      <4>3. QED
        BY <2>2, <4>1, <4>2
    <3>2. QED
      BY <2>2, <3>1
  <2>3. QED
    BY <1>0, <2>1, <2>2
<1>9. ASSUME NEW i \in Fixable(fs), NEW j \in Fixable(fs), i # j
      PROVE  ~Overlap(fs[i], fs[j])
  <2>1. fs[i].line # fs[j].line
    BY <1>0, <1>9
  <2>2. \A k \in S : k \in Nat /\ (a \in 1 .. N /\ b \in 1 .. N => ~ (a <= k /\ k <= b))
    BY <1>0, <1>3
  <2>3. CASE \E k \in S \ T : fs[i].line = k /\ End(fs[i]) = k
    <3>1. PICK k \in S \ T : fs[i].line = k /\ End(fs[i]) = k
      BY <2>3
    <3>2. CASE \E m \in S \ T : fs[j].line = m /\ End(fs[j]) = m
      BY <2>1, <2>2, <3>1, <3>2 DEF Overlap
    <3>3. CASE a \in 1 .. N /\ b \in 1 .. N /\ a <= b /\ fs[j].line = a /\ End(fs[j]) = b
      BY <2>2, <3>1, <3>3 DEF Overlap
    <3>4. QED
      BY <1>7, <3>2, <3>3
  <2>4. CASE a \in 1 .. N /\ b \in 1 .. N /\ a <= b /\ fs[i].line = a /\ End(fs[i]) = b
    <3>1. PICK m \in S \ T : fs[j].line = m /\ End(fs[j]) = m
      BY <1>7, <2>1, <2>4
    <3>2. QED
      BY <2>2, <2>4, <3>1 DEF Overlap
  <2>5. QED
    BY <1>7, <2>3, <2>4
<1>10. ASSUME NEW k \in DOMAIN lines
       PROVE  next[k] = lines[k] \/ \E i \in Fixable(fs) : fs[i].line <= k /\ k <= End(fs[i])
  <2>1. CASE k \in T
    BY <1>1, <2>1
  <2>2. CASE k \in S \ T
    <3>1. PICK i \in Fixable(fs) : fs[i] = ColonFix(lines, k)
      BY <1>0, <2>2
    <3>2. fs[i].line = k /\ End(fs[i]) = k /\ k <= k
      BY <1>3, <1>4, <2>2, <3>1
    <3>3. QED
      BY <3>2
  <2>3. CASE k \notin S
    <3>1. next[k] = goal[k]
      BY <1>1, <2>3
    <3>2. QED
      BY <1>0, <2>3, <3>1
  <2>4. QED
    BY <2>1, <2>2, <2>3
<1>11. Fits(lines, fs, next)
  BY <1>1, <1>8, <1>9, <1>10 DEF Fits
<1>12. QED
  BY <1>11, PatchedAs

\* The next review finds what the one before has found, without what is in.
GoneLeaves(lines, next) ==
    ToSet(Findings(next)) = {f \in ToSet(Findings(lines)) : ~GoneIn(next, f)}

\* A review that has heard everything: the findings that give S its colons and the rest.
Heard(lines, S) ==
    /\ Sound(lines, S) /\ Ended(Filled(lines, S))
    /\ IsFiniteSet(S) /\ Cardinality(S) < Rounds
    /\ ToSet(Findings(lines)) = Colons(lines, S) \cup Rest(Filled(lines, S))

\* It does when the rest is still to be done, ...
LEMMA LeftByColons ==
    ASSUME NEW lines \in Seq(Lines), NEW S, Heard(lines, S), NEW T, T \subseteq S,
           NEW next, next = Partly(lines, Filled(lines, S), T)
    PROVE  GoneLeaves(lines, next)
<1> DEFINE filled == Filled(lines, S)
           R == Rest(filled)
           Fix1(k) == ColonFix(lines, k)
           A == ToSet(Findings(lines))
           B == ToSet(Findings(next))
<1>1. /\ Sound(lines, S) /\ Ended(filled) /\ IsFiniteSet(S) /\ Cardinality(S) < Rounds
      /\ A = Colons(lines, S) \cup R
  BY DEF Heard
<1>2. Heals(lines, S, filled)
  BY <1>1, ColonsHeal
<1>3. B = Colons(lines, T) \cup R
  <2> HIDE DEF filled
  <2>1. next = Partly(lines, filled, T)
    BY DEF filled
  <2>2. QED
    BY <1>1, <1>2, <2>1, LeftOver
<1>4. \A k \in S : GoneIn(next, Fix1(k)) <=> k \notin T
  BY <1>1, <1>2, ColonsGone
<1>5. \A f \in R : ~GoneIn(next, f)
  BY <1>1, StillThere
<1>6. /\ \A f : f \in Colons(lines, S) <=> \E k \in S : f = Fix1(k)
      /\ \A f : f \in Colons(lines, T) <=> \E k \in T : f = Fix1(k)
  BY DEF Colons
<1> HIDE DEF filled, R, Fix1, A, B
<1>7. B = {f \in A : ~GoneIn(next, f)}
  BY <1>1, <1>3, <1>4, <1>5, <1>6
<1>8. QED
  BY <1>7 DEF GoneLeaves, A, B

\* ... and when it is a move that has been made.
LEMMA LeftByMove ==
    ASSUME NEW lines \in Seq(Lines), NEW S, Heard(lines, S), NEW T, T \subseteq S,
           NEW first, NEW end, NEW offset,
           MovesBy(Filled(lines, S), Compile(Filled(lines, S)), first, end, offset),
           Rest(Filled(lines, S)) = {Move(Filled(lines, S), first, end, offset)},
           NEW next, next = Partly(lines, Reindent(Filled(lines, S), first, end, offset), T)
    PROVE  GoneLeaves(lines, next)
<1> DEFINE filled == Filled(lines, S)
           e == Compile(filled)
           moved == Reindent(filled, first, end, offset)
           f == Move(filled, first, end, offset)
           Fix1(k) == ColonFix(lines, k)
           A == ToSet(Findings(lines))
           B == ToSet(Findings(next))
<1>1. /\ Sound(lines, S) /\ Ended(filled) /\ IsFiniteSet(S) /\ Cardinality(S) < Rounds
      /\ A = Colons(lines, S) \cup {f}
  BY DEF Heard
<1>2. f.line = first /\ f.end = end /\ f.fix = SubSeq(moved, first, end) /\ f.has_fix = TRUE
  BY DEF Move
<1> HIDE DEF f
<1>3. filled = Filled(lines, S) /\ e = Compile(filled)
      /\ MovesBy(filled, e, first, end, offset) /\ next = Partly(lines, moved, T)
  OBVIOUS
<1> HIDE DEF filled, e
<1>4. moved = Reindent(filled, first, end, offset)
  OBVIOUS
<1> HIDE DEF moved
<1>5. Heals(lines, S, moved) /\ Rest(moved) = {}
  BY <1>1, <1>3, <1>4, MoveHeals
<1>6. B = Colons(lines, T)
  BY <1>1, <1>3, <1>5, LeftOver
<1>7. \A k \in S : GoneIn(next, Fix1(k)) <=> k \notin T
  BY <1>1, <1>3, <1>5, ColonsGone
<1>8. GoneIn(next, f)
  <2>1. /\ next \in Seq(Lines) /\ Len(next) = Len(lines)
        /\ \A k \in DOMAIN lines : next[k] = IF k \in T THEN lines[k] ELSE moved[k]
    BY <1>3, <1>5, PartlyIs
  <2>2. filled \in Seq(Lines) /\ DOMAIN filled = DOMAIN lines /\ Len(filled) = Len(lines)
    BY <1>3, FilledIs
  <2>3. /\ first \in DOMAIN filled /\ end \in DOMAIN filled /\ first <= end
        /\ moved \in Seq(Lines) /\ Len(moved) = Len(filled)
    BY <1>3, <1>4, <2>2, MovedIs
  <2>4. DOMAIN lines = 1 .. Len(lines) /\ Len(lines) \in Nat
    OBVIOUS
  <2>5. first \in 1 .. Len(next) /\ end \in 1 .. Len(next) /\ Len(next) = Len(moved)
    BY <2>1, <2>2, <2>3, <2>4
  <2>6. \A k \in S : k \notin first .. end
    BY <1>1, <1>3, MovesApart
  <2>7. \A k \in first .. end : k \in DOMAIN lines /\ k \notin T
    BY <2>2, <2>3, <2>4, <2>6
  <2>8. \A k \in first .. end : next[k] = moved[k]
    BY <2>1, <2>7
  <2>9. SubSeq(next, first, end) = SubSeq(moved, first, end)
    BY <2>1, <2>3, <2>5, <2>8, SameStretch
  <2>10. End(f) = end
    BY <1>2, <2>3 DEF End
  <2>11. QED
    BY <1>2, <2>9, <2>10 DEF GoneIn
<1>9. /\ \A x : x \in Colons(lines, S) <=> \E k \in S : x = Fix1(k)
      /\ \A x : x \in Colons(lines, T) <=> \E k \in T : x = Fix1(k)
  BY DEF Colons
<1> HIDE DEF Fix1, A, B
<1>10. B = {x \in A : ~GoneIn(next, x)}
  BY <1>1, <1>6, <1>7, <1>8, <1>9
<1>11. QED
  BY <1>10 DEF GoneLeaves, A, B

\* A colon that is accepted, ...
LEMMA ColonAccepted ==
    ASSUME NEW lines \in Seq(Lines), NEW S, Heard(lines, S), NEW k \in S
    PROVE  Patched(lines, <<ColonFix(lines, k)>>) = Partly(lines, Filled(lines, S), S \ {k})
<1> DEFINE filled == Filled(lines, S)
           f == ColonFix(lines, k)
           fs == <<f>>
           T == S \ {k}
           next == Partly(lines, filled, T)
<1>1. Sound(lines, S) /\ Heals(lines, S, filled)
  BY ColonsHeal DEF Heard
<1>2. k \in DOMAIN lines /\ k \in Nat
  BY <1>1, LostIs DEF Sound
<1>3. f \in FixFindings /\ f.has_fix = TRUE
  BY <1>2, ColonFixType
<1>4. \A j \in DOMAIN lines : j \in S \/ filled[j] = lines[j]
  BY FilledIs
<1>5. T \subseteq S /\ \A j : j \in S \ T => j = k
  OBVIOUS
<1> HIDE DEF T, filled
<1>6. next = Partly(lines, filled, T)
  OBVIOUS
<1> HIDE DEF next
<1>7. fs \in Seq(FixFindings) /\ Fixable(fs) = {1} /\ fs[1] = f
  BY <1>3 DEF Fixable
<1> HIDE DEF fs
<1>8. \A j \in S \ T : \E i \in Fixable(fs) : fs[i] = ColonFix(lines, j)
  BY <1>5, <1>7
<1>9. \A i \in Fixable(fs) : \E j \in S \ T : fs[i] = ColonFix(lines, j)
  BY <1>7 DEF T
<1>10. \A i, j \in Fixable(fs) : i # j => fs[i].line # fs[j].line
  BY <1>7
<1>11. \A j \in S : j \notin 1 .. 0
  OBVIOUS
<1> HIDE DEF f
<1>12. Brings(lines, S, T, filled, fs, 1, 0)
  BY <1>4, <1>8, <1>9, <1>10, <1>11 DEF Brings
<1>13. Patched(lines, fs) = next
  BY <1>1, <1>5, <1>6, <1>7, <1>12, GoalReached
<1>14. QED
  BY <1>13 DEF fs, f, next, T, filled

\* ... a move that is, ...
LEMMA MoveAccepted ==
    ASSUME NEW lines \in Seq(Lines), NEW S, Heard(lines, S), NEW first, NEW end, NEW offset,
           NEW filled, filled = Filled(lines, S),
           NEW e, e = Compile(filled), MovesBy(filled, e, first, end, offset),
           NEW moved, moved = Reindent(filled, first, end, offset)
    PROVE  Patched(lines, <<Move(filled, first, end, offset)>>) = Partly(lines, moved, S)
<1> DEFINE f == Move(filled, first, end, offset)
           fs == <<f>>
           next == Partly(lines, moved, S)
<1>1. Sound(lines, S) /\ Heals(lines, S, moved)
  BY MoveHeals DEF Heard
<1>2. /\ filled \in Seq(Lines) /\ DOMAIN filled = DOMAIN lines
      /\ \A j \in DOMAIN lines : j \in S \/ filled[j] = lines[j]
  BY FilledIs
<1>3. /\ first \in DOMAIN filled /\ end \in DOMAIN filled /\ first <= end
      /\ \A k \in DOMAIN filled : k \notin first .. end => moved[k] = filled[k]
  BY <1>2, MovedIs
<1>4. Moves(filled, e, f)
  BY DEF Moves
<1>5. f \in FixFindings /\ f.has_fix = TRUE
  BY <1>2, <1>4, MovesType
<1>6. f.line = first /\ f.end = end /\ f.fix = SubSeq(moved, first, end)
  BY DEF Move
<1>7. End(f) = end
  BY <1>3, <1>6 DEF End
<1>8. \A k \in S : k \notin first .. end
  BY <1>1, MovesApart
<1> HIDE DEF f
<1>9. fs \in Seq(FixFindings) /\ Fixable(fs) = {1} /\ fs[1] = f
  BY <1>5 DEF Fixable
<1> HIDE DEF fs, next
<1>10. \A i \in Fixable(fs) :
           /\ first \in DOMAIN lines /\ end \in DOMAIN lines /\ first <= end
           /\ fs[i].line = first /\ End(fs[i]) = end /\ fs[i].fix = SubSeq(moved, first, end)
  BY <1>2, <1>3, <1>6, <1>7, <1>9
<1>11. \A i, j \in Fixable(fs) : i # j => fs[i].line # fs[j].line
  BY <1>9
<1>12. \A k \in DOMAIN lines : \/ k \in S \/ moved[k] = lines[k]
                               \/ \E i \in Fixable(fs) : fs[i].line <= k /\ k <= End(fs[i])
  <2> SUFFICES ASSUME NEW k \in DOMAIN lines, k \notin S, moved[k] # lines[k]
               PROVE  \E i \in Fixable(fs) : fs[i].line <= k /\ k <= End(fs[i])
    OBVIOUS
  <2>1. k \in first .. end
    BY <1>2, <1>3
  <2>2. first <= k /\ k <= end
    BY <2>1
  <2>3. QED
    BY <1>9, <1>10, <2>2
<1>13. S \subseteq S /\ \A k \in S \ S : \E i \in Fixable(fs) : fs[i] = ColonFix(lines, k)
  OBVIOUS
<1>14. next = Partly(lines, moved, S)
  BY DEF next
<1>15. Brings(lines, S, S, moved, fs, first, end)
  BY <1>8, <1>10, <1>11, <1>12, <1>13 DEF Brings
<1>16. Patched(lines, fs) = next
  BY <1>1, <1>9, <1>14, <1>15, GoalReached
<1>17. QED
  BY <1>16 DEF fs, f, next

\* ... and what has no fix, which changes nothing.
LEMMA NothingAccepted ==
    ASSUME NEW lines \in Seq(Lines), NEW S, Heard(lines, S)
    PROVE  /\ lines = Partly(lines, Filled(lines, S), S)
           /\ \A k \in Nat : Patched(lines, <<Unfixed(k)>>) = lines
<1>1. \A j \in DOMAIN lines : j \in S \/ Filled(lines, S)[j] = lines[j]
  BY FilledIs
<1>2. lines = [k \in DOMAIN lines |-> lines[k]]
  OBVIOUS
<1>3. lines = Partly(lines, Filled(lines, S), S)
  BY <1>1, <1>2 DEF Partly
<1>4. ASSUME NEW k \in Nat PROVE Patched(lines, <<Unfixed(k)>>) = lines
  <2> DEFINE f == Unfixed(k)
             fs == <<f>>
  <2>1. f \in FixFindings /\ f.has_fix = FALSE
    BY UnfixedType
  <2> HIDE DEF f
  <2>2. fs \in Seq(FixFindings) /\ Fixable(fs) = {}
    BY <2>1 DEF Fixable
  <2> HIDE DEF fs
  <2>3. Fits(lines, fs, lines)
    BY <2>2 DEF Fits
  <2>4. Patched(lines, fs) = lines
    BY <2>2, <2>3, PatchedAs
  <2>5. QED
    BY <2>4 DEF fs, f
<1>5. QED
  BY <1>3, <1>4

\* The findings of a review are findings.
LEMMA FindingsType ==
    ASSUME NEW lines \in Seq(Lines)
    PROVE  Findings(lines) \in Seq(FixFindings)
<1>1. PICK sofar \in [0 .. Rounds -> Collected] :
          CollectedBy(lines, sofar) /\ Findings(lines) = sofar[Rounds].findings
  BY CollectingIs
<1>2. Rounds \in 0 .. Rounds
  BY DEF Rounds, MaxSyntaxErrorsPerReview
<1>3. sofar[Rounds] \in Collected
  BY <1>2
<1>4. QED
  BY <1>1, <1>3 DEF Collected

\* What else there is, is one finding: a move, or an error that has no fix.
LEMMA RestIs ==
    ASSUME NEW lines \in Seq(Lines), Ended(lines), NEW e, e = Compile(lines),
           NEW f \in Rest(lines)
    PROVE  /\ Rest(lines) = {f} /\ e.msg # "none" /\ f = SyntaxErrorFix(lines, e)
           /\ f = Unfixed(e.lineno) \/ Moves(lines, e, f)
           /\ e.lineno \in Nat
<1>1. Rest(lines) = IF e.msg = "none" THEN {} ELSE {SyntaxErrorFix(lines, e)}
  BY DEF Rest
<1>2. e.msg # "none" /\ f = SyntaxErrorFix(lines, e) /\ Rest(lines) = {f}
  BY <1>1
<1>3. e.msg # "colon" \/ lines[e.lineno].comment
  BY DEF Ended
<1>4. f = Unfixed(e.lineno) \/ Moves(lines, e, f)
  BY <1>2, <1>3, OfferIs
<1>5. e.lineno \in Nat
  BY CompileIs
<1>6. QED
  BY <1>2, <1>4, <1>5

\* The findings that give colons, among all of a review.
LEMMA GivenBring ==
    ASSUME NEW lines \in Seq(Lines), NEW S, NEW c, NEW n, NEW fs, Given(lines, S, c, n, fs)
    PROVE  /\ fs \in Seq(FixFindings) /\ n \in Nat /\ n <= Len(fs)
           /\ \A i \in 1 .. n : /\ i \in Fixable(fs) /\ fs[i].line \in S
                                /\ \E k \in S \ {} : fs[i] = ColonFix(lines, k)
           /\ \A i, j \in 1 .. n : i # j => fs[i].line # fs[j].line
           /\ \A k \in S \ {} : \E i \in Fixable(fs) : fs[i] = ColonFix(lines, k)
<1>1. /\ n \in Nat /\ c \in [1 .. n -> S] /\ fs \in Seq(FixFindings) /\ n <= Len(fs)
      /\ \A k \in S : \E i \in 1 .. n : c[i] = k
      /\ \A i, j \in 1 .. n : c[i] = c[j] => i = j
      /\ \A i \in 1 .. n : fs[i] = ColonFix(lines, c[i])
  BY DEF Given
<1>2. FittingColons(lines, S, c, n, fs)
  BY ColonsFit
<1>3. \A i \in 1 .. n : i \in DOMAIN fs /\ c[i] \in S /\ fs[i].has_fix /\ fs[i].line = c[i]
  BY <1>2 DEF FittingColons
<1>4. \A i \in 1 .. n : i \in Fixable(fs)
  BY <1>3 DEF Fixable
<1>5. \A i \in 1 .. n : \E k \in S \ {} : fs[i] = ColonFix(lines, k)
  BY <1>1, <1>3
<1>6. \A i, j \in 1 .. n : i # j => fs[i].line # fs[j].line
  BY <1>1, <1>3
<1>7. \A k \in S \ {} : \E i \in Fixable(fs) : fs[i] = ColonFix(lines, k)
  BY <1>1, <1>4
<1>8. QED
  BY <1>1, <1>3, <1>4, <1>5, <1>6, <1>7

\* All of them, when nothing else has a fix, ...
LEMMA ColonsAccepted ==
    ASSUME NEW lines \in Seq(Lines), NEW S, NEW c, NEW n, NEW fs, Given(lines, S, c, n, fs),
           Heard(lines, S), Fixable(fs) \subseteq 1 .. n
    PROVE  Patched(lines, fs) = Partly(lines, Filled(lines, S), {})
<1> DEFINE filled == Filled(lines, S)
           next == Partly(lines, filled, {})
<1>1. Sound(lines, S) /\ Heals(lines, S, filled)
  BY ColonsHeal DEF Heard
<1>2. /\ fs \in Seq(FixFindings)
      /\ \A i \in 1 .. n : \E k \in S \ {} : fs[i] = ColonFix(lines, k)
      /\ \A i, j \in 1 .. n : i # j => fs[i].line # fs[j].line
      /\ \A k \in S \ {} : \E i \in Fixable(fs) : fs[i] = ColonFix(lines, k)
  BY GivenBring
<1>3. \A j \in DOMAIN lines : j \in S \/ filled[j] = lines[j]
  BY FilledIs
<1> HIDE DEF filled
<1>4. Brings(lines, S, {}, filled, fs, 1, 0)
  <2>1. \A k \in S : k \notin 1 .. 0
    OBVIOUS
  <2>2. \A i \in Fixable(fs) : \E k \in S \ {} : fs[i] = ColonFix(lines, k)
    BY <1>2
  <2>3. \A i, j \in Fixable(fs) : i # j => fs[i].line # fs[j].line
    BY <1>2
  <2>4. QED
    BY <1>2, <1>3, <2>1, <2>2, <2>3 DEF Brings
<1>5. {} \subseteq S /\ next = Partly(lines, filled, {})
  OBVIOUS
<1> HIDE DEF next
<1>6. Patched(lines, fs) = next
  BY <1>1, <1>2, <1>4, <1>5, GoalReached
<1>7. QED
  BY <1>6 DEF next, filled

\* ... and with a move behind them.
LEMMA AllAccepted ==
    ASSUME NEW lines \in Seq(Lines), NEW S, NEW c, NEW n, NEW fs, Given(lines, S, c, n, fs),
           Heard(lines, S), NEW first, NEW end, NEW offset,
           NEW filled, filled = Filled(lines, S),
           NEW e, e = Compile(filled), MovesBy(filled, e, first, end, offset),
           NEW moved, moved = Reindent(filled, first, end, offset),
           Len(fs) = n + 1, fs[n + 1] = Move(filled, first, end, offset)
    PROVE  Patched(lines, fs) = Partly(lines, moved, {})
<1> DEFINE f == Move(filled, first, end, offset)
           next == Partly(lines, moved, {})
<1>1. Sound(lines, S) /\ Heals(lines, S, moved)
  BY MoveHeals DEF Heard
<1>2. /\ filled \in Seq(Lines) /\ DOMAIN filled = DOMAIN lines
      /\ \A j \in DOMAIN lines : j \in S \/ filled[j] = lines[j]
  BY FilledIs
<1>3. /\ first \in DOMAIN filled /\ end \in DOMAIN filled /\ first <= end
      /\ \A k \in DOMAIN filled : k \notin first .. end => moved[k] = filled[k]
  BY <1>2, MovedIs
<1>4. f.line = first /\ f.end = end /\ f.fix = SubSeq(moved, first, end) /\ f.has_fix = TRUE
  BY DEF Move
<1>5. End(f) = end
  BY <1>3, <1>4 DEF End
<1>6. \A k \in S : k \notin first .. end
  BY <1>1, MovesApart
<1>7. /\ fs \in Seq(FixFindings) /\ n \in Nat /\ n <= Len(fs)
      /\ \A i \in 1 .. n : /\ i \in Fixable(fs) /\ fs[i].line \in S
                           /\ \E k \in S \ {} : fs[i] = ColonFix(lines, k)
      /\ \A i, j \in 1 .. n : i # j => fs[i].line # fs[j].line
      /\ \A k \in S \ {} : \E i \in Fixable(fs) : fs[i] = ColonFix(lines, k)
  BY GivenBring
<1>8. fs[n + 1] = f
  OBVIOUS
<1> HIDE DEF f, next
<1>9. /\ n + 1 \in Fixable(fs)
      /\ \A i \in Fixable(fs) : i \in 1 .. n \/ i = n + 1
  <2>1. DOMAIN fs = 1 .. n + 1
    BY <1>7
  <2>2. n + 1 \in 1 .. n + 1
    BY <1>7
  <2>3. \A i \in 1 .. n + 1 : i \in 1 .. n \/ i = n + 1
    BY <1>7
  <2>4. QED
    BY <1>4, <1>8, <2>1, <2>2, <2>3 DEF Fixable
<1>10. first \notin S
  <2>1. first \in first .. end
    <3>1. DOMAIN lines = 1 .. Len(lines) /\ Len(lines) \in Nat
      OBVIOUS
    <3>2. QED
      BY <1>2, <1>3, <3>1
  <2>2. QED
    BY <1>6, <2>1
<1>11. \A i \in Fixable(fs) :
           \/ \E k \in S \ {} : fs[i] = ColonFix(lines, k)
           \/ /\ first \in DOMAIN lines /\ end \in DOMAIN lines /\ first <= end
              /\ fs[i].line = first /\ End(fs[i]) = end /\ fs[i].fix = SubSeq(moved, first, end)
  BY <1>2, <1>3, <1>4, <1>5, <1>7, <1>8, <1>9
<1>12. \A i, j \in Fixable(fs) : i # j => fs[i].line # fs[j].line
  BY <1>4, <1>7, <1>8, <1>9, <1>10
<1>13. \A k \in DOMAIN lines : \/ k \in S \/ moved[k] = lines[k]
                               \/ \E i \in Fixable(fs) : fs[i].line <= k /\ k <= End(fs[i])
  <2> SUFFICES ASSUME NEW k \in DOMAIN lines, k \notin S, moved[k] # lines[k]
               PROVE  \E i \in Fixable(fs) : fs[i].line <= k /\ k <= End(fs[i])
    OBVIOUS
  <2>1. k \in first .. end
    BY <1>2, <1>3
  <2>2. first <= k /\ k <= end
    BY <2>1
  <2>3. QED
    BY <1>4, <1>5, <1>8, <1>9, <2>2
<1>14. Brings(lines, S, {}, moved, fs, first, end)
  BY <1>6, <1>7, <1>11, <1>12, <1>13 DEF Brings
<1>15. {} \subseteq S /\ next = Partly(lines, moved, {})
  BY DEF next
<1>16. Patched(lines, fs) = next
  BY <1>1, <1>7, <1>14, <1>15, GoalReached
<1>17. QED
  BY <1>16 DEF next

\* The next file is what comes of it when all of the findings are accepted or one of them.
Accepts(lines, next) ==
    \/ next = lines
    \/ next = Patched(lines, Findings(lines))
    \/ \E f \in ToSet(Findings(lines)) : next = Patched(lines, <<f>>)

\* In whatever company the suggestions are accepted, what is applied goes and nothing else.
LEMMA OnlyAccepted ==
    ASSUME NEW lines \in Seq(Lines), Len(Findings(lines)) < Rounds,
           NEW next, Accepts(lines, next)
    PROVE  GoneLeaves(lines, next)
<1> DEFINE fs == Findings(lines)
<1>1. PICK S, n, c :
          /\ Given(lines, S, c, n, Findings(lines))
          /\ n \in 0 .. Rounds
          /\ Len(Findings(lines)) <= Rounds
          /\ \/ Finished(lines, S, n, Findings(lines))
             \/ n = Rounds /\ Len(Findings(lines)) = n
  BY FindingsAre
<1> DEFINE filled == Filled(lines, S)
           e == Compile(filled)
           R == Rest(filled)
<1>2. Given(lines, S, c, n, fs) /\ n \in Nat /\ n <= Len(fs) /\ Len(fs) < Rounds
      /\ Finished(lines, S, n, fs)
  <2>1. n \in Nat /\ n <= Len(fs) /\ fs \in Seq(FixFindings)
    BY <1>1 DEF Given
  <2> HIDE DEF fs
  <2>2. Len(fs) < Rounds /\ Len(fs) \in Nat /\ Rounds \in Nat
    BY <2>1 DEF fs, Rounds, MaxSyntaxErrorsPerReview
  <2>3. ~ (n = Rounds /\ Len(fs) = n)
    BY <2>2
  <2>4. QED
    BY <1>1, <2>1, <2>2, <2>3 DEF fs
<1>3. ToSet(fs) = Colons(lines, S) \cup R /\ Ended(filled)
  BY <1>2, FoundIs
<1>4. IsFiniteSet(S) /\ Cardinality(S) < Rounds
  <2>1. IsFiniteSet(S) /\ Cardinality(S) = n
    BY <1>2, GivenCount
  <2>2. Len(fs) \in Nat /\ Rounds \in Nat
    BY <1>2, FindingsType DEF Rounds, MaxSyntaxErrorsPerReview
  <2> HIDE DEF fs
  <2>3. QED
    BY <1>2, <2>1, <2>2
<1>5. Sound(lines, S)
  BY <1>2 DEF Given
<1>6. Heard(lines, S)
  BY <1>3, <1>4, <1>5 DEF Heard
<1>7. filled \in Seq(Lines)
  BY FilledIs
<1>8. lines = Partly(lines, filled, S) /\ \A k \in Nat : Patched(lines, <<Unfixed(k)>>) = lines
  BY <1>6, NothingAccepted
<1>9. ASSUME NEW f \in R
      PROVE  /\ R = {f} /\ e.msg # "none" /\ f = SyntaxErrorFix(filled, e)
             /\ f = Unfixed(e.lineno) \/ Moves(filled, e, f)
             /\ e.lineno \in Nat
  <2>1. e = Compile(filled)
    OBVIOUS
  <2> HIDE DEF e, filled
  <2>2. QED
    BY <1>3, <1>7, <1>9, <2>1, RestIs
<1>10. ASSUME NEW T, T \subseteq S, next = Partly(lines, filled, T) PROVE GoneLeaves(lines, next)
  BY <1>6, <1>10, LeftByColons
<1>11. ASSUME NEW first, NEW end, NEW offset, MovesBy(filled, e, first, end, offset),
              R = {Move(filled, first, end, offset)}, NEW T, T \subseteq S,
              next = Partly(lines, Reindent(filled, first, end, offset), T)
       PROVE  GoneLeaves(lines, next)
  BY <1>6, <1>11, LeftByMove
<1>12. CASE next = lines
  BY <1>8, <1>10, <1>12
<1>13. CASE \E f \in ToSet(fs) : next = Patched(lines, <<f>>)
  <2>1. PICK f \in ToSet(fs) : next = Patched(lines, <<f>>)
    BY <1>13
  <2>2. CASE \E k \in S : f = ColonFix(lines, k)
    <3>1. PICK k \in S : f = ColonFix(lines, k)
      BY <2>2
    <3>2. next = Partly(lines, filled, S \ {k})
      BY <1>6, <2>1, <3>1, ColonAccepted
    <3>3. S \ {k} \subseteq S
      OBVIOUS
    <3>4. QED
      BY <1>10, <3>2, <3>3
  <2>3. CASE f \in R
    <3>1. (f = Unfixed(e.lineno) \/ Moves(filled, e, f)) /\ e.lineno \in Nat
      BY <1>9, <2>3
    <3>2. CASE f = Unfixed(e.lineno)
      <4>1. next = lines
        BY <1>8, <2>1, <3>1, <3>2
      <4>2. QED
        BY <1>12, <4>1
    <3>3. CASE Moves(filled, e, f)
      <4>1. PICK first, end, offset :
                MovesBy(filled, e, first, end, offset) /\ f = Move(filled, first, end, offset)
        BY <3>3 DEF Moves
      <4>2. next = Partly(lines, Reindent(filled, first, end, offset), S)
        BY <1>6, <2>1, <4>1, MoveAccepted
      <4>3. R = {Move(filled, first, end, offset)}
        BY <1>9, <2>3, <4>1
      <4>4. QED
        BY <1>11, <4>1, <4>2, <4>3
    <3>4. QED
      BY <3>1, <3>2, <3>3
  <2>4. QED
    BY <1>3, <2>1, <2>2, <2>3 DEF Colons
<1>14. CASE next = Patched(lines, fs)
  <2>1. \/ Len(fs) = n /\ e.msg = "none"
        \/ Len(fs) = n + 1 /\ e.msg # "none" /\ fs[n + 1] = SyntaxErrorFix(filled, e)
    BY <1>2 DEF Finished
  <2>2. fs \in Seq(FixFindings)
    BY <1>2 DEF Given
  <2>3. CASE Fixable(fs) \subseteq 1 .. n
    <3>1. next = Partly(lines, filled, {})
      BY <1>2, <1>6, <1>14, <2>3, ColonsAccepted
    <3>2. {} \subseteq S
      OBVIOUS
    <3>3. QED
      BY <1>10, <3>1, <3>2
  <2>4. CASE ~ (Fixable(fs) \subseteq 1 .. n)
    <3> HIDE DEF fs
    <3>1. PICK i \in Fixable(fs) : i \notin 1 .. n
      BY <2>4
    <3>2. i \in DOMAIN fs /\ DOMAIN fs = 1 .. Len(fs) /\ fs[i].has_fix
      BY <2>2, <3>1 DEF Fixable
    <3>3. Len(fs) = n + 1 /\ i = n + 1 /\ e.msg # "none" /\ fs[n + 1] = SyntaxErrorFix(filled, e)
      <4>1. n \in Nat /\ Len(fs) \in Nat /\ i \in 1 .. Len(fs) /\ i \notin 1 .. n
        BY <1>2, <2>2, <3>1, <3>2
      <4>2. Len(fs) # n
        BY <4>1
      <4>3. Len(fs) = n + 1 /\ e.msg # "none" /\ fs[n + 1] = SyntaxErrorFix(filled, e)
        BY <2>1, <4>2
      <4>4. i = n + 1
        BY <4>1, <4>3
      <4>5. QED
        BY <4>3, <4>4
    <3> DEFINE f == fs[n + 1]
    <3>4. f \in R /\ f.has_fix
      BY <3>2, <3>3 DEF Rest
    <3>5. f # Unfixed(e.lineno)
      BY <3>4 DEF Unfixed
    <3>6. R = {f} /\ Moves(filled, e, f)
      BY <1>9, <3>4, <3>5
    <3>7. PICK first, end, offset :
              MovesBy(filled, e, first, end, offset) /\ f = Move(filled, first, end, offset)
      BY <3>6 DEF Moves
    <3>8. next = Partly(lines, Reindent(filled, first, end, offset), {})
      BY <1>2, <1>6, <1>14, <3>3, <3>7, AllAccepted
    <3>9. {} \subseteq S /\ R = {Move(filled, first, end, offset)}
      BY <3>6, <3>7
    <3>10. QED
      BY <1>11, <3>7, <3>8, <3>9
  <2>5. QED
    BY <2>3, <2>4
<1>15. QED
  BY <1>12, <1>13, <1>14 DEF Accepts

-----------------------------------------------------------------------------
(* Whatever happens to the file.                                           *)

\* The file the author has in mind stays one that compiles and has no blank lines at
\* its end, which is what the proofs below need besides the types.
RepairInv ==
    /\ RepairTypeOK
    /\ Compiles(meant)
    /\ meant # << >> => ~Blank(meant[Len(meant)])

LEMMA RepairInvInit == RepairInit => RepairInv
<1> SUFFICES ASSUME RepairInit PROVE RepairInv
  OBVIOUS
<1>1. meant \in Meant /\ Compiles(meant) /\ text = meant /\ slips = 0
  BY DEF RepairInit
<1>2. meant \in Seq(Lines) /\ (meant # << >> => ~Blank(meant[Len(meant)]))
  BY <1>1, MeantAssumption
<1>3. QED
  BY <1>1, <1>2 DEF RepairInv, RepairTypeOK

\* What is committed are lines of a file.
LEMMA CommitType ==
    ASSUME RepairInv, NEW fs \in Seq(FixFindings), CommitRepair(fs)
    PROVE  RepairInv'
<1>1. text \in Seq(Lines) /\ text' = Patched(text, fs) /\ meant' = meant /\ slips' = slips
  BY DEF RepairInv, RepairTypeOK, CommitRepair
<1>2. text' \in Seq(Lines)
  BY <1>1, PatchedType
<1>3. QED
  BY <1>1, <1>2 DEF RepairInv, RepairTypeOK

LEMMA RepairInvStep == RepairInv /\ [RepairNext]_repairVars => RepairInv'
<1> SUFFICES ASSUME RepairInv, [RepairNext]_repairVars PROVE RepairInv'
  OBVIOUS
<1>1. meant \in Seq(Lines) /\ text \in Seq(Lines) /\ slips \in Nat
  BY DEF RepairInv, RepairTypeOK
<1>2. ASSUME NEW lines \in Seq(Lines), Slip(lines) PROVE RepairInv'
  BY <1>1, <1>2 DEF Slip, RepairInv, RepairTypeOK
<1>3. CASE DropColon
  <2>1. PICK k \in DOMAIN text : Slip([text EXCEPT ![k].colon = FALSE])
    BY <1>3 DEF DropColon
  <2> DEFINE line == [text[k] EXCEPT !.colon = FALSE]
  <2>2. line \in Lines
    <3>1. text[k] \in Lines
      BY <1>1
    <3>2. QED
      BY <3>1 DEF Lines
  <2>3. [text EXCEPT ![k].colon = FALSE] = [text EXCEPT ![k] = line]
    BY <1>1
  <2> HIDE DEF line
  <2>4. [text EXCEPT ![k] = line] \in Seq(Lines)
    BY <1>1, <2>2
  <2> DEFINE lines == [text EXCEPT ![k] = line]
  <2>5. Slip(lines) /\ lines \in Seq(Lines)
    BY <2>1, <2>3, <2>4
  <2> HIDE DEF lines
  <2>6. QED
    BY <1>2, <2>5
<1>4. CASE Misindent
  <2>1. PICK first \in Code(text), last \in Code(text), offset \in {-1, 1} :
            /\ first <= last
            /\ \A k \in Code(text) \cap (first .. last) :
                   text[k].indent + offset \in 0 .. MaxIndent
            /\ Slip(Reindent(text, first, last, offset))
    BY <1>4 DEF Misindent
  <2>2. first \in DOMAIN text /\ last \in DOMAIN text /\ offset \in Int
        /\ DOMAIN text = 1 .. Len(text) /\ Len(text) \in Nat
    BY <1>1 DEF Code
  <2> DEFINE moved == Reindent(text, first, last, offset)
  <2>3. \A k \in first .. last : moved[k].indent >= 0
    <3> SUFFICES ASSUME NEW k \in first .. last PROVE moved[k].indent >= 0
      OBVIOUS
    <3>1. k \in DOMAIN text /\ text[k] \in Lines
      BY <1>1, <2>2
    <3>2. CASE Blank(text[k])
      <4>1. moved[k] = text[k]
        BY <1>1, <2>2, <3>1, <3>2, ReindentIs
      <4>2. QED
        BY <3>1, <4>1 DEF Lines
    <3>3. CASE ~Blank(text[k])
      <4>1. moved[k] = [text[k] EXCEPT !.indent = @ + offset]
        BY <1>1, <2>2, <3>1, <3>3, ReindentIs
      <4>2. text[k].indent + offset \in 0 .. MaxIndent
        BY <2>1, <3>1, <3>3 DEF Code
      <4> HIDE DEF moved
      <4>3. moved[k].indent = text[k].indent + offset
        BY <3>1, <4>1 DEF Lines
      <4> DEFINE x == text[k].indent + offset
      <4>4. moved[k].indent = x /\ x \in 0 .. MaxIndent
        BY <4>2, <4>3
      <4> HIDE DEF x
      <4>5. QED
        BY <4>4
    <3>4. QED
      BY <3>2, <3>3
  <2>4. moved \in Seq(Lines)
    BY <1>1, <2>1, <2>2, <2>3, MoveIs
  <2> HIDE DEF moved
  <2>5. Slip(moved)
    BY <2>1 DEF moved
  <2>6. QED
    BY <1>2, <2>4, <2>5
<1>5. CASE AutoRepair
  <2>1. Findings(text) \in Seq(FixFindings)
    BY <1>1, FindingsType
  <2>2. QED
    BY <1>5, <2>1, CommitType DEF AutoRepair
<1>6. CASE AcceptRepair
  <2>1. PICK f \in ToSet(Findings(text)) : CommitRepair(<<f>>)
    BY <1>6 DEF AcceptRepair
  <2>2. Findings(text) \in Seq(FixFindings)
    BY <1>1, FindingsType
  <2>3. f \in FixFindings
    BY <2>2 DEF ToSet
  <2>4. <<f>> \in Seq(FixFindings)
    BY <2>3
  <2>5. QED
    BY <2>1, <2>4, CommitType
<1>7. CASE UNCHANGED repairVars
  BY <1>7 DEF repairVars, RepairInv, RepairTypeOK
<1>8. QED
  BY <1>3, <1>4, <1>5, <1>6, <1>7 DEF RepairNext

LEMMA RepairInvHolds == RepairSpec => []RepairInv
<1>1. QED
  BY RepairInvInit, RepairInvStep, PTL DEF RepairSpec

\* A file stays a file, whatever is lost, moved, or replaced by fixes.
THEOREM RepairTypeCorrect == RepairSpec => []RepairTypeOK
<1>1. RepairInv => RepairTypeOK
  BY DEF RepairInv
<1>2. QED
  BY <1>1, RepairInvHolds, PTL

\* "This one genuinely isn't" a judgment call: a file that has lost nothing but colons
\* has them all back once the review's fixes are in, whatever the file, as long as one
\* review has findings enough and no comment is in the way.
THEOREM ColonsComeBackAlways == RepairSpec => []ColonsRestored
<1>1. RepairInv => ColonsRestored
  BY ColonsComeBack DEF RepairInv, RepairTypeOK
<1>2. QED
  BY <1>1, RepairInvHolds, PTL

\* A block that has lost its indent is back in its place, with the colons above it, and
\* nothing that follows is drawn into it, whatever its length and depth.
THEOREM BodiesComeBackAlways == RepairSpec => []BodiesRestored
<1>1. RepairInv => BodiesRestored
  BY BodiesComeBack DEF RepairInv, RepairTypeOK
<1>2. QED
  BY <1>1, RepairInvHolds, PTL

\* "Every line up through max_end_line was already written at the SAME wrong
\* indentation as the first offending line (or nested deeper within it)": none of the
\* lines that _missing_indent_fix() moves into a body is further out than the first.
THEOREM BodyMovesTogetherAlways == RepairSpec => []BodyMovesTogether
<1>1. RepairInv => BodyMovesTogether
  BY BodyStays DEF RepairInv, RepairTypeOK
<1>2. QED
  BY <1>1, RepairInvHolds, PTL

\* What a commit has fixed is not found again, what it has left is found again, and it
\* brings nothing new, whatever the file: the next review finds what the last one has
\* found without what was applied.
THEOREM OnlyAppliedGoes == RepairSpec => OnlyAppliedGo
<1> DEFINE Left == ToSet(Findings(text')) = {f \in ToSet(Findings(text)) : ~Gone(f)}
           Kept == slips' = slips /\ Len(Findings(text)) < MaxSyntaxErrorsPerReview => Left
<1>1. ASSUME RepairInv, [RepairNext]_repairVars PROVE Kept
  <2> SUFFICES ASSUME slips' = slips, Len(Findings(text)) < MaxSyntaxErrorsPerReview
               PROVE  Left
    OBVIOUS
  <2>1. text \in Seq(Lines) /\ slips \in Nat
    BY <1>1 DEF RepairInv, RepairTypeOK
  <2>2. ASSUME NEW lines PROVE ~Slip(lines)
    BY <2>1 DEF Slip
  <2>3. ~DropColon /\ ~Misindent
    BY <2>2 DEF DropColon, Misindent
  <2>4. Accepts(text, text')
    <3>1. CASE AutoRepair
      BY <3>1 DEF AutoRepair, CommitRepair, Accepts
    <3>2. CASE AcceptRepair
      BY <3>2 DEF AcceptRepair, CommitRepair, Accepts
    <3>3. CASE UNCHANGED repairVars
      BY <3>3 DEF repairVars, Accepts
    <3>4. QED
      BY <1>1, <2>3, <3>1, <3>2, <3>3 DEF RepairNext
  <2>5. GoneLeaves(text, text')
    BY <2>1, <2>4, OnlyAccepted DEF Rounds
  <2>6. QED
    BY <2>5 DEF GoneLeaves, GoneIn, Gone
<1>2. RepairInv /\ [RepairNext]_repairVars => [Kept]_repairVars
  BY <1>1
<1>3. RepairInv /\ [RepairNext]_repairVars =>
          [slips' = slips /\ Len(Findings(text)) < MaxSyntaxErrorsPerReview =>
              ToSet(Findings(text')) = {f \in ToSet(Findings(text)) : ~Gone(f)}]_repairVars
  BY <1>2
<1>4. QED
  BY <1>3, RepairInvHolds, PTL DEF RepairSpec, OnlyAppliedGo

-----------------------------------------------------------------------------
(* What a call of a file under review comes to.                            *)

\* A file of such lines.
IsPyFile(lines) == IsSeq(lines) /\ \A k \in DOMAIN lines : IsLine(lines[k])

\* The runs there are of it.
Variables(lines) == Params \cup {lines[k].does.var : k \in DOMAIN lines}
Envs(V) == UNION {[D -> Nat] : D \in SUBSET V}
Overs(lines) == {"none", "UnboundLocalError", "return"} \cup {Raises[a] : a \in Accesses}
                    \cup {lines[k].does.of : k \in DOMAIN lines}
Runs(lines) == [env : Envs(Variables(lines)), json : Nat, over : Overs(lines), deep : Int]

Calls == [Params \cup {"json"} -> Nat]
Started(in) == [env |-> [v \in Params |-> in[v]], json |-> in["json"],
                over |-> "none", deep |-> Deepest]

\* An environment is a function on some variables.
LEMMA EnvIs ==
    ASSUME NEW V, NEW env
    PROVE  env \in Envs(V) <=> /\ env = [v \in DOMAIN env |-> env[v]] /\ DOMAIN env \subseteq V
                               /\ \A v \in DOMAIN env : env[v] \in Nat
<1>1. ASSUME env \in Envs(V)
      PROVE  /\ env = [v \in DOMAIN env |-> env[v]] /\ DOMAIN env \subseteq V
             /\ \A v \in DOMAIN env : env[v] \in Nat
  <2>1. PICK D \in SUBSET V : env \in [D -> Nat]
    BY <1>1 DEF Envs
  <2>2. QED
    BY <2>1
<1>2. ASSUME /\ env = [v \in DOMAIN env |-> env[v]] /\ DOMAIN env \subseteq V
             /\ \A v \in DOMAIN env : env[v] \in Nat
      PROVE  env \in Envs(V)
  <2>1. env \in [DOMAIN env -> Nat]
    BY <1>2
  <2>2. DOMAIN env \in SUBSET V
    BY <1>2
  <2>3. QED
    BY <2>1, <2>2 DEF Envs
<1>3. QED
  BY <1>1, <1>2

\* What a line makes of the environment, when it does not fail.
Bound(env, next, v) ==
    DOMAIN next = DOMAIN env \cup {v} /\ \A u \in DOMAIN env : u # v => next[u] = env[u]

LEMMA BindIs ==
    ASSUME NEW V, NEW run, run.env \in Envs(V), run.json \in Nat,
           NEW d, d.n \in Nat, d.var \in V, Failure(d, run.env) = "none"
    PROVE  /\ Bind(d, run) \in Envs(V)
           /\ \/ Bind(d, run) = run.env
              \/ d.act \in {"get", "json", "grow"} /\ Bound(run.env, Bind(d, run), d.var)
              \/ /\ d.act = "set" /\ Bound(run.env, Bind(d, run), d.var)
                 /\ Bind(d, run)[d.var] = d.n
<1> DEFINE env == run.env
           With(x) == [v \in DOMAIN env \cup {d.var} |-> IF v = d.var THEN x ELSE env[v]]
<1>1. env \in Envs(V) /\ DOMAIN env \subseteq V /\ \A v \in DOMAIN env : env[v] \in Nat
  BY EnvIs
<1>2. d.act = "grow" => d.var \in DOMAIN env
  BY DEF Failure, Reads
<1>3. ASSUME NEW x \in Nat, NEW next, next = With(x)
      PROVE  next \in Envs(V) /\ Bound(env, next, d.var) /\ next[d.var] = x
  <2> HIDE DEF env
  <2>1. /\ next = [v \in DOMAIN next |-> next[v]] /\ DOMAIN next = DOMAIN env \cup {d.var}
        /\ \A v \in DOMAIN next : next[v] = IF v = d.var THEN x ELSE env[v]
    BY <1>3
  <2>2. next \in Envs(V)
    <3>1. DOMAIN next \subseteq V
      BY <1>1, <2>1
    <3>2. \A v \in DOMAIN next : next[v] \in Nat
      BY <1>1, <2>1
    <3>3. QED
      BY <2>1, <3>1, <3>2, EnvIs
  <2>3. QED
    BY <2>1, <2>2 DEF Bound
<1>4. Bind(d, run) = IF d.act = "set" THEN With(d.n)
                     ELSE IF d.act = "get" THEN With(IF env[d.of] > d.n THEN 1 ELSE 0)
                     ELSE IF d.act = "json" THEN With(run.json)
                     ELSE IF d.act = "grow" THEN With(env[d.var] + 1)
                     ELSE env
  BY DEF Bind
<1> DEFINE next == Bind(d, run)
<1>5. /\ d.act = "set" => next = With(d.n)
      /\ d.act = "get" => next = With(IF env[d.of] > d.n THEN 1 ELSE 0)
      /\ d.act = "json" => next = With(run.json)
      /\ d.act = "grow" => next = With(env[d.var] + 1)
      /\ d.act \notin {"set", "get", "json", "grow"} => next = env
  <2> HIDE DEF With
  <2>1. QED
    BY <1>4
<1> HIDE DEF With, next
<1>6. CASE d.act = "set"
  BY <1>3, <1>5, <1>6 DEF next
<1>7. CASE d.act = "get"
  <2>1. (IF env[d.of] > d.n THEN 1 ELSE 0) \in Nat
    OBVIOUS
  <2>2. next \in Envs(V) /\ Bound(env, next, d.var)
    BY <1>3, <1>5, <1>7, <2>1
  <2>3. QED
    BY <1>7, <2>2 DEF next
<1>8. CASE d.act = "json"
  BY <1>3, <1>5, <1>8 DEF next
<1>9. CASE d.act = "grow"
  <2>1. env[d.var] + 1 \in Nat
    BY <1>1, <1>2, <1>9
  <2>2. next \in Envs(V) /\ Bound(env, next, d.var)
    BY <1>3, <1>5, <1>9, <2>1
  <2>3. QED
    BY <1>9, <2>2 DEF next
<1>10. CASE d.act \notin {"set", "get", "json", "grow"}
  BY <1>1, <1>5, <1>10 DEF next
<1>11. QED
  BY <1>6, <1>7, <1>8, <1>9, <1>10

\* What a line makes of a run.
LEMMA StepIs ==
    ASSUME NEW lines, IsPyFile(lines), NEW run \in Runs(lines), NEW k \in DOMAIN lines,
           NEW line, line = lines[k], NEW next, next = Step(run, line)
    PROVE  /\ next \in Runs(lines)
           /\ next.env = run.env \/ (/\ Failure(line.does, run.env) = "none"
                                     /\ next.env = Bind(line.does, run))
<1> DEFINE V == Variables(lines)
           O == Overs(lines)
           d == line.does
           failure == Failure(d, run.env)
           deeper == IF line.form = "if" /\ ~Holds(d, run.env) THEN line.indent ELSE Deepest
<1>1. IsLine(line)
  BY DEF IsPyFile
<1>2. line.indent \in Int /\ d.n \in Nat /\ d.var \in V /\ d.of \in O
  BY <1>1 DEF IsLine, Variables, Overs
<1>3. run.env \in Envs(V) /\ run.json \in Nat /\ run.over \in O /\ run.deep \in Int
  BY DEF Runs
<1>4. failure \in O
  <2>1. \A a \in Accesses : Raises[a] \in O
    BY DEF Overs
  <2>2. {"none", "UnboundLocalError", "return"} \subseteq O
    BY DEF Overs
  <2> HIDE DEF O
  <2>3. QED
    BY <1>2, <2>1, <2>2 DEF Failure
<1>5. failure = "none" => Bind(d, run) \in Envs(V)
  <2> HIDE DEF V
  <2>1. QED
    BY <1>2, <1>3, BindIs
<1>6. Deepest \in Int /\ "none" \in O
  BY DEF Deepest, Overs
<1>7. \/ next = run
      \/ next = [run EXCEPT !.over = "none", !.deep = Deepest]
      \/ next = [run EXCEPT !.deep = line.indent]
      \/ next = [run EXCEPT !.over = failure, !.deep = line.indent]
      \/ failure = "none" /\ next = [run EXCEPT !.env = Bind(d, run), !.deep = deeper]
  BY DEF Step
<1>8. deeper \in Int
  BY <1>2, <1>6
<1> HIDE DEF V, O, d, failure, deeper
<1>9. run \in [env : Envs(V), json : Nat, over : O, deep : Int]
  BY DEF V, O, Runs
<1>10. ASSUME NEW over \in O, NEW deep \in Int, NEW env \in Envs(V)
       PROVE  /\ [run EXCEPT !.over = over, !.deep = deep]
                     \in [env : Envs(V), json : Nat, over : O, deep : Int]
              /\ [run EXCEPT !.over = over, !.deep = deep].env = run.env
              /\ [run EXCEPT !.deep = deep] \in [env : Envs(V), json : Nat, over : O, deep : Int]
              /\ [run EXCEPT !.deep = deep].env = run.env
              /\ [run EXCEPT !.env = env, !.deep = deep]
                     \in [env : Envs(V), json : Nat, over : O, deep : Int]
              /\ [run EXCEPT !.env = env, !.deep = deep].env = env
  BY <1>9
<1> DEFINE R == [env : Envs(V), json : Nat, over : O, deep : Int]
           Over(over, deep) == [run EXCEPT !.over = over, !.deep = deep]
           Deep(deep) == [run EXCEPT !.deep = deep]
           Env(env, deep) == [run EXCEPT !.env = env, !.deep = deep]
<1>11. /\ \A over \in O, deep \in Int : Over(over, deep) \in R /\ Over(over, deep).env = run.env
       /\ \A deep \in Int : Deep(deep) \in R /\ Deep(deep).env = run.env
       /\ \A env \in Envs(V), deep \in Int : Env(env, deep) \in R /\ Env(env, deep).env = env
  BY <1>3, <1>10
<1>12. \/ next = run
       \/ next = Over("none", Deepest)
       \/ next = Deep(line.indent)
       \/ next = Over(failure, line.indent)
       \/ failure = "none" /\ next = Env(Bind(d, run), deeper)
  BY <1>7
<1>13. run \in R
  BY <1>9
<1> HIDE DEF R, Over, Deep, Env
<1>14. next \in R /\ (next.env = run.env \/ (failure = "none" /\ next.env = Bind(d, run)))
  BY <1>2, <1>4, <1>5, <1>6, <1>8, <1>11, <1>12, <1>13
<1>15. QED
  BY <1>14 DEF R, V, O, Runs, failure, d

\* A run goes from line to line.
RunBy(lines, in, after) ==
    /\ after \in [0 .. Len(lines) -> Runs(lines)]
    /\ after[0] = Started(in)
    /\ \A k \in 1 .. Len(lines) : after[k] = Step(after[k - 1], lines[k])

LEMMA RunIs ==
    ASSUME NEW lines, IsPyFile(lines), NEW in \in Calls
    PROVE  \E after : RunBy(lines, in, after) /\ Run(lines, in) = after[Len(lines)]
<1> DEFINE N == Len(lines)
           S == Runs(lines)
           first == Started(in)
           Body(f) == [k \in 0 .. N |-> IF k = 0 THEN first ELSE Step(f[k - 1], lines[k])]
           d == [z \in S \X (1 .. N) |-> Step(z[1], lines[z[2]])]
           after == CHOOSE f : f = Body(f)
<1>1. N \in Nat /\ DOMAIN lines = 1 .. N
  BY DEF IsPyFile, IsSeq
<1>2. first \in S
  <2>1. [v \in Params |-> in[v]] \in Envs(Variables(lines))
    <3> DEFINE env == [v \in Params |-> in[v]]
    <3>1. /\ env = [v \in DOMAIN env |-> env[v]] /\ DOMAIN env = Params
          /\ \A v \in DOMAIN env : env[v] \in Nat
      BY DEF Calls
    <3>2. Params \subseteq Variables(lines)
      BY DEF Variables
    <3> HIDE DEF env
    <3>3. env \in Envs(Variables(lines))
      BY <3>1, <3>2, EnvIs
    <3>4. QED
      BY <3>3 DEF env
  <2>2. in["json"] \in Nat /\ "none" \in Overs(lines) /\ Deepest \in Int
    BY DEF Calls, Overs, Deepest
  <2>3. QED
    BY <2>1, <2>2 DEF Started, Runs
<1>3. ASSUME NEW was \in S, NEW n \in 1 .. N PROVE Step(was, lines[n]) \in S
  <2>1. n \in DOMAIN lines
    BY <1>1
  <2>2. QED
    BY <2>1, StepIs
<1>4. d \in [S \X (1 .. N) -> S]
  <2> HIDE DEF S, N
  <2>1. QED
    BY <1>3
<1>5. PICK f \in [0 .. N -> S] : GoesOn(f, N, first, d)
  <2> HIDE DEF N, S, d, first
  <2>1. QED
    BY <1>1, <1>2, <1>4, Recursion
<1>6. f = Body(f)
  <2>1. ASSUME NEW n \in 1 .. N PROVE f[n] = Step(f[n - 1], lines[n])
    <3>1. <<f[n - 1], n>> \in S \X (1 .. N)
      <4>1. n - 1 \in 0 .. N
        BY <1>1
      <4> HIDE DEF S, N
      <4>2. QED
        BY <4>1
    <3>2. d[<<f[n - 1], n>>] = Step(f[n - 1], lines[n])
      <4> HIDE DEF S, N
      <4>1. QED
        BY <3>1
    <3>3. QED
      BY <1>5, <3>2 DEF GoesOn
  <2>2. f \in [0 .. N -> S] /\ f[0] = first
    BY <1>5 DEF GoesOn
  <2>3. \A n \in 0 .. N : n # 0 => n \in 1 .. N
    BY <1>1
  <2> HIDE DEF N, S, first
  <2>4. \A n \in 0 .. N : f[n] = IF n = 0 THEN first ELSE Step(f[n - 1], lines[n])
    BY <2>1, <2>2, <2>3
  <2>5. QED
    BY <2>2, <2>4
<1>7. after = Body(after)
  <2> HIDE DEF Body
  <2>1. QED
    BY <1>6
<1>8. Run(lines, in) = after[N]
  BY Zenon DEF Run, Started
<1>9. after \in [0 .. N -> S] /\ after[0] = first
      /\ \A n \in 1 .. N : after[n] = Step(after[n - 1], lines[n])
  <2> HIDE DEF after
  <2>1. after[0] = first
    <3>1. 0 \in 0 .. N
      BY <1>1
    <3>2. Body(after)[0] = first
      BY <3>1
    <3> HIDE DEF Body
    <3>3. QED
      BY <1>7, <3>2
  <2>2. ASSUME NEW n \in 1 .. N PROVE after[n] = Step(after[n - 1], lines[n])
    <3>1. n \in 0 .. N /\ n # 0
      BY <1>1
    <3>2. Body(after)[n] = Step(after[n - 1], lines[n])
      BY <3>1
    <3> HIDE DEF Body
    <3>3. QED
      BY <1>7, <3>2
  <2>3. after = [n \in 0 .. N |-> after[n]]
    <3>1. Body(after) = [n \in 0 .. N |-> Body(after)[n]]
      BY Zenon
    <3> HIDE DEF Body
    <3>2. QED
      BY <1>7, <3>1
  <2> DEFINE P == {n \in 0 .. N : after[n] \in S}
  <2>4. 0 .. N \subseteq P
    <3>1. 0 \in P
      BY <1>1, <1>2, <2>1
    <3>2. ASSUME NEW n \in 1 .. N, n - 1 \in P PROVE n \in P
      <4>1. n \in 0 .. N /\ after[n - 1] \in S
        BY <1>1, <3>2
      <4>2. after[n] \in S
        BY <1>3, <2>2, <4>1
      <4>3. QED
        BY <4>1, <4>2
    <3> HIDE DEF P
    <3>3. QED
      BY <1>1, <3>1, <3>2, Upwards
  <2>5. QED
    <3>1. \A n \in 0 .. N : after[n] \in S
      BY <2>4
    <3> HIDE DEF S, P
    <3>2. after \in [0 .. N -> S]
      BY <2>3, <3>1
    <3>3. QED
      BY <2>1, <2>2, <3>2
<1> HIDE DEF after
<1>10. RunBy(lines, in, after)
  BY <1>9 DEF RunBy
<1>11. QED
  BY <1>8, <1>10

\* A variable that is only ever given the value n has no other.
OnlyGiven(lines, v, n) ==
    \A k \in DOMAIN lines :
        lines[k].does.var = v =>
            /\ lines[k].does.act \notin {"get", "json", "grow"}
            /\ lines[k].does.act = "set" => lines[k].does.n = n

LEMMA ValueStays ==
    ASSUME NEW lines, IsPyFile(lines), NEW in \in Calls, NEW v, v \notin Params, NEW n,
           OnlyGiven(lines, v, n), NEW env, env = Run(lines, in).env
    PROVE  v \in DOMAIN env => env[v] = n
<1>1. PICK after : RunBy(lines, in, after) /\ Run(lines, in) = after[Len(lines)]
  BY RunIs
<1> DEFINE N == Len(lines)
           Same(run) == v \in DOMAIN run.env => run.env[v] = n
           P == {k \in 0 .. N : Same(after[k])}
<1>2. N \in Nat /\ DOMAIN lines = 1 .. N
  BY DEF IsPyFile, IsSeq
<1>3. /\ after \in [0 .. N -> Runs(lines)] /\ after[0] = Started(in)
      /\ \A k \in 1 .. N : after[k] = Step(after[k - 1], lines[k])
  BY <1>1 DEF RunBy
<1>4. 0 \in P
  <2>1. DOMAIN Started(in).env = Params
    BY DEF Started
  <2>2. QED
    BY <1>2, <1>3, <2>1
<1>5. ASSUME NEW k \in 1 .. N, k - 1 \in P PROVE k \in P
  <2> DEFINE was == after[k - 1]
             next == after[k]
             d == lines[k].does
  <2>1. k \in 0 .. N /\ k - 1 \in 0 .. N /\ k \in DOMAIN lines
    BY <1>2
  <2>2. was \in Runs(lines) /\ Same(was) /\ next = Step(was, lines[k])
    BY <1>3, <1>5, <2>1
  <2>3. next.env = was.env \/ (Failure(d, was.env) = "none" /\ next.env = Bind(d, was))
    <3> HIDE DEF was, next
    <3>1. QED
      BY <2>1, <2>2, StepIs
  <2>4. /\ d.var = v => d.act \notin {"get", "json", "grow"} /\ (d.act = "set" => d.n = n)
    BY <2>1 DEF OnlyGiven
  <2>5. was.env \in Envs(Variables(lines)) /\ was.json \in Nat /\ d.n \in Nat
        /\ d.var \in Variables(lines)
    <3>1. IsLine(lines[k])
      BY <2>1 DEF IsPyFile
    <3>2. d.var \in Variables(lines)
      BY <2>1 DEF Variables
    <3> HIDE DEF was
    <3>3. QED
      BY <2>2, <3>1, <3>2 DEF Runs, IsLine
  <2> HIDE DEF was, next, d
  <2>6. Same(next)
    <3>1. CASE next.env = was.env
      BY <2>2, <3>1
    <3>2. CASE Failure(d, was.env) = "none" /\ next.env = Bind(d, was)
      <4>1. \/ Bind(d, was) = was.env
            \/ d.act \in {"get", "json", "grow"} /\ Bound(was.env, Bind(d, was), d.var)
            \/ /\ d.act = "set" /\ Bound(was.env, Bind(d, was), d.var)
               /\ Bind(d, was)[d.var] = d.n
        BY <2>5, <3>2, BindIs
      <4>2. CASE next.env = was.env
        BY <2>2, <4>2
      <4>3. CASE d.act \in {"get", "json", "grow"} /\ Bound(was.env, next.env, d.var)
        BY <2>2, <2>4, <4>3 DEF Bound
      <4>4. CASE d.act = "set" /\ Bound(was.env, next.env, d.var) /\ next.env[d.var] = d.n
        BY <2>2, <2>4, <4>4 DEF Bound
      <4>5. QED
        BY <3>2, <4>1, <4>2, <4>3, <4>4
    <3>3. QED
      BY <2>3, <3>1, <3>2
  <2>7. QED
    BY <2>1, <2>6 DEF next
<1> HIDE DEF P
<1>6. 0 .. N \subseteq P
  BY <1>2, <1>4, <1>5, Upwards
<1>7. N \in P
  BY <1>2, <1>6
<1>8. QED
  BY <1>1, <1>7 DEF P

\* What comes before a line.
Begins(lines, before) ==
    /\ IsPyFile(before)
    /\ \A j \in DOMAIN before : before[j] = lines[j] /\ j \in DOMAIN lines

LEMMA PrefixIs ==
    ASSUME NEW lines, IsPyFile(lines), NEW k \in DOMAIN lines
    PROVE  Begins(lines, SubSeq(lines, 1, k - 1))
<1> DEFINE before == SubSeq(lines, 1, k - 1)
           T == {lines[i] : i \in DOMAIN lines}
<1>1. lines \in Seq(T) /\ DOMAIN lines = 1 .. Len(lines) /\ Len(lines) \in Nat
  BY DEF IsPyFile, IsSeq
<1> HIDE DEF T
<1>2. before \in Seq(T) /\ Len(before) = k - 1 /\ \A j \in 1 .. k - 1 : before[j] = lines[j]
  BY <1>1
<1>3. DOMAIN before = 1 .. k - 1 /\ \A j \in 1 .. k - 1 : j \in DOMAIN lines
  BY <1>1, <1>2
<1> HIDE DEF before
<1> DEFINE U == {before[i] : i \in DOMAIN before}
<1>4. before \in Seq(U)
  <2>1. \A j \in 1 .. Len(before) : before[j] \in U
    BY <1>2, <1>3
  <2> HIDE DEF U
  <2>2. QED
    BY <1>2, <2>1, MadeOf
<1>5. \A j \in DOMAIN before : IsLine(before[j])
  BY <1>2, <1>3 DEF IsPyFile
<1>6. Begins(lines, before)
  BY <1>2, <1>3, <1>4, <1>5 DEF Begins, IsPyFile, IsSeq
<1>7. QED
  BY <1>6 DEF before

\* The findings that are certain are those about literals.
LEMMA CertainIs ==
    ASSUME NEW lines, NEW f \in FromCheckers(lines), f.certain = TRUE
    PROVE  \E shape \in {"index", "div", "key", "int"} : f \in LiteralFindings(lines, shape)
<1>1. \/ f \in LiteralFindings(lines, "index") \/ f \in LiteralFindings(lines, "div")
      \/ f \in LiteralFindings(lines, "key") \/ f \in LiteralFindings(lines, "int")
      \/ f \in UnguardedKey(lines) \/ f \in UnguardedDivision(lines)
      \/ f \in UnguardedOpen(lines) \/ f \in UnguardedIndex(lines)
      \/ f \in UnguardedNone(lines)
      \/ \E checker \in {"http_timeout", "weak_crypto", "unsafe_yaml", "insecure_http"} :
             f \in UnsafeCalls(lines, checker)
  BY DEF FromCheckers, MissingKey, LiteralZeroDivision, LiteralOutOfBounds,
         GuaranteedValueErrors, UnguardedHttpCalls, UnsafeYamlLoad, InsecureHttpUrls, WeakCrypto
<1> DEFINE Open == \E line, end, fix, source, var, raises :
                      f = Finding(line, end, fix, source, var, raises, FALSE)
<1>2. ~Open
  BY DEF Finding
<1>3. f \in UnguardedKey(lines) => Open
  BY Zenon DEF UnguardedKey
<1>4. f \in UnguardedDivision(lines) => Open
  BY Zenon DEF UnguardedDivision
<1>5. f \in UnguardedOpen(lines) => Open
  BY Zenon DEF UnguardedOpen
<1>6. f \in UnguardedIndex(lines) => Open
  BY Zenon DEF UnguardedIndex
<1>7. f \in UnguardedNone(lines) => Open
  BY Zenon DEF UnguardedNone
<1>8. \A checker : f \in UnsafeCalls(lines, checker) => Open
  BY Zenon DEF UnsafeCalls
<1> HIDE DEF Open
<1>9. QED
  BY <1>1, <1>2, <1>3, <1>4, <1>5, <1>6, <1>7, <1>8

\* Their line fails whenever a call comes to it: the literal is all the variable can hold.
LEMMA LiteralFails ==
    ASSUME NEW lines, IsPyFile(lines), NEW shape \in {"index", "div", "key", "int"},
           NEW f \in LiteralFindings(lines, shape),
           f.var \notin Params, Sites(lines, {"grow"}, f.var) = {},
           NEW in \in Calls, NEW env, env = Run(SubSeq(lines, 1, f.line - 1), in).env
    PROVE  Failure(lines[f.line].does, env) \notin {"none", "return"}
<1>1. PICK k \in AccessSites(lines, shape) :
          /\ lines[k].does.var \in Tracked(lines, Kind[shape])
          /\ lines[k].does.n >= Literal(lines, lines[k].does.var)
          /\ f = Finding(k, 0, <<Raise(lines[k].indent, Raises[shape]), lines[k]>>,
                         shape, lines[k].does.var, Raises[shape], TRUE)
  BY DEF LiteralFindings
<1> DEFINE d == lines[k].does
           v == d.var
<1>2. f.line = k /\ f.var = v
  BY <1>1 DEF Finding
<1>3. k \in DOMAIN lines /\ d.act = shape
  <2>1. k \in DOMAIN lines /\ (d.act = shape \/ d.act = "grow")
    BY <1>1 DEF AccessSites
  <2>2. d.act # "grow"
    BY <1>2, <2>1 DEF Sites
  <2>3. QED
    BY <2>1, <2>2
<1>4. PICK first \in DOMAIN lines : Assigned(lines, v) = {first} /\ lines[first].does.act = "set"
  BY <1>1 DEF Tracked
<1> DEFINE n == lines[first].does.n
           before == SubSeq(lines, 1, k - 1)
<1>5. d.n >= n /\ d.n \in Nat /\ n \in Nat
  <2>1. Literal(lines, v) = n
    <3>1. Literal(lines, v) = lines[CHOOSE j \in {first} : TRUE].does.n
      BY <1>4 DEF Literal
    <3>2. (CHOOSE j \in {first} : TRUE) = first
      OBVIOUS
    <3>3. QED
      BY <3>1, <3>2
  <2>2. IsLine(lines[k]) /\ IsLine(lines[first])
    BY <1>3 DEF IsPyFile
  <2>3. QED
    BY <1>1, <2>1, <2>2 DEF IsLine
<1>6. IsPyFile(before) /\ \A j \in DOMAIN before : before[j] = lines[j] /\ j \in DOMAIN lines
  <2>1. Begins(lines, before)
    BY <1>3, PrefixIs
  <2>2. QED
    BY <2>1 DEF Begins
<1>7. OnlyGiven(before, v, n)
  <2> SUFFICES ASSUME NEW j \in DOMAIN lines, lines[j].does.var = v
               PROVE  /\ lines[j].does.act \notin {"get", "json", "grow"}
                      /\ lines[j].does.act = "set" => lines[j].does.n = n
    <3> HIDE DEF before, v, n
    <3>1. QED
      BY <1>6 DEF OnlyGiven
  <2>1. lines[j].does.act # "grow"
    BY <1>2 DEF Sites
  <2>2. lines[j].does.act \in {"set", "get", "json"} => j = first
    BY <1>4 DEF Assigned, Sites
  <2>3. QED
    BY <1>4, <2>1, <2>2
<1>8. env = Run(before, in).env
  BY <1>2
<1> HIDE DEF before, n, v
<1>9. v \in DOMAIN env => env[v] = n
  BY <1>2, <1>6, <1>7, <1>8, ValueStays
<1> HIDE DEF d
<1>10. d.act \in {"index", "div", "key", "int"} /\ v = d.var /\ lines[f.line].does = d
  BY <1>2, <1>3 DEF d, v
<1>11. d.act \in Accesses /\ Raises[d.act] \notin {"none", "return"}
  BY <1>10 DEF Accesses, Raises
<1>12. Reads(d) = {v}
  BY <1>10, <1>11 DEF Reads
<1>13. CASE v \notin DOMAIN env
  BY <1>10, <1>12, <1>13 DEF Failure
<1>14. CASE v \in DOMAIN env
  <2>1. env[v] <= d.n
    BY <1>5, <1>9, <1>14 DEF d
  <2>2. Failure(d, env) = Raises[d.act]
    BY <1>10, <1>11, <1>12, <1>14, <2>1 DEF Failure
  <2>3. QED
    BY <1>10, <1>11, <2>2
<1>15. QED
  BY <1>13, <1>14

\* So "guaranteed every time this line runs" is no more than the truth.
LEMMA CertainFails ==
    ASSUME IsPyFile(file)
    PROVE  CriticalIsCertain
<1> SUFFICES ASSUME NEW f \in RunDeterministicCheckers(file),
                    f.certain, f.var \notin Params, Sites(file, {"grow"}, f.var) = {},
                    NEW in \in Inputs
             PROVE  Failure(file[f.line].does, Run(SubSeq(file, 1, f.line - 1), in).env)
                        \notin {"none", "return"}
  BY DEF CriticalIsCertain
<1>1. f \in FromCheckers(file)
  BY DEF RunDeterministicCheckers
<1>2. f.certain = TRUE
  OBVIOUS
<1>3. PICK shape \in {"index", "div", "key", "int"} : f \in LiteralFindings(file, shape)
  BY <1>1, <1>2, CertainIs
<1>4. in \in Calls
  BY InputsAssumption DEF Calls
<1>5. QED
  BY <1>3, <1>4, LiteralFails

-----------------------------------------------------------------------------
(* What the checkers offer is lines.                                       *)

\* A sequence of lines is a file, a file is a sequence of lines.
LEMMA PyFrom ==
    ASSUME NEW T, \A x \in T : IsLine(x), NEW s \in Seq(T)
    PROVE  IsPyFile(s)
<1> DEFINE S == {s[i] : i \in DOMAIN s}
<1>1. DOMAIN s = 1 .. Len(s) /\ \A k \in 1 .. Len(s) : s[k] \in T
  OBVIOUS
<1>2. \A k \in 1 .. Len(s) : s[k] \in S
  BY <1>1
<1> HIDE DEF S
<1>3. s \in Seq(S)
  BY <1>2, MadeOf
<1>4. IsSeq(s)
  BY <1>3 DEF IsSeq, S
<1>5. QED
  BY <1>1, <1>4 DEF IsPyFile

LEMMA PyIs ==
    ASSUME NEW s, IsPyFile(s)
    PROVE  /\ s \in Seq(ToSet(s)) /\ \A x \in ToSet(s) : IsLine(x)
           /\ Len(s) \in Nat /\ DOMAIN s = 1 .. Len(s)
<1> DEFINE S == ToSet(s)
<1>1. s \in Seq(S)
  BY DEF IsPyFile, IsSeq, ToSet
<1>2. \A x \in S : IsLine(x)
  BY DEF IsPyFile, ToSet
<1> HIDE DEF S
<1>3. Len(s) \in Nat /\ DOMAIN s = 1 .. Len(s)
  BY <1>1
<1>4. QED
  BY <1>1, <1>2, <1>3 DEF S

\* Pieces put together.
LEMMA PyBoth ==
    ASSUME NEW s, IsPyFile(s), NEW t, IsPyFile(t)
    PROVE  IsPyFile(s \o t)
<1> DEFINE S == ToSet(s)
           T == ToSet(t)
<1>1. s \in Seq(S) /\ t \in Seq(T) /\ \A x \in S \cup T : IsLine(x)
  BY PyIs
<1> HIDE DEF S, T
<1>2. s \in Seq(S \cup T) /\ t \in Seq(S \cup T)
  BY <1>1, SeqMonotonic
<1>3. s \o t \in Seq(S \cup T)
  BY <1>2
<1> DEFINE c == s \o t
<1> HIDE DEF c
<1>4. c \in Seq(S \cup T)
  BY <1>3 DEF c
<1>5. IsPyFile(c)
  BY <1>1, <1>4, PyFrom
<1>6. QED
  BY <1>5 DEF c

LEMMA PySub ==
    ASSUME NEW s, IsPyFile(s), NEW a \in 1 .. Len(s), NEW b \in 0 .. Len(s)
    PROVE  IsPyFile(SubSeq(s, a, b))
<1> DEFINE S == ToSet(s)
<1>1. s \in Seq(S) /\ \A x \in S : IsLine(x) /\ Len(s) \in Nat
  BY PyIs
<1> HIDE DEF S
<1>2. SubSeq(s, a, b) \in Seq(S)
  BY <1>1
<1> DEFINE c == SubSeq(s, a, b)
<1> HIDE DEF c
<1>3. c \in Seq(S)
  BY <1>2 DEF c
<1>4. IsPyFile(c)
  BY <1>1, <1>3, PyFrom
<1>5. QED
  BY <1>4 DEF c

LEMMA PyOne ==
    ASSUME NEW l, IsLine(l)
    PROVE  IsPyFile(<<l>>)
<1>1. <<l>> \in Seq({l}) /\ \A x \in {l} : IsLine(x)
  OBVIOUS
<1> DEFINE s == <<l>>
           T == {l}
<1> HIDE DEF s, T
<1>2. s \in Seq(T) /\ \A x \in T : IsLine(x)
  BY <1>1 DEF s, T
<1>3. IsPyFile(s)
  BY <1>2, PyFrom
<1>4. QED
  BY <1>3 DEF s

LEMMA PyTwo ==
    ASSUME NEW l, IsLine(l), NEW m, IsLine(m)
    PROVE  IsPyFile(<<l, m>>)
<1>1. <<l, m>> \in Seq({l, m}) /\ \A x \in {l, m} : IsLine(x)
  OBVIOUS
<1> DEFINE s == <<l, m>>
           T == {l, m}
<1> HIDE DEF s, T
<1>2. s \in Seq(T) /\ \A x \in T : IsLine(x)
  BY <1>1 DEF s, T
<1>3. IsPyFile(s)
  BY <1>2, PyFrom
<1>4. QED
  BY <1>3 DEF s

\* Lines made up by a checker, or made of others.
LEMMA NewLine ==
    ASSUME NEW indent \in Int, NEW form, NEW act, NEW var, NEW n \in Nat, NEW of
    PROVE  IsLine(Line(indent, form, Does(act, var, n, of)))
  BY DEF IsLine, Line, Does

LEMMA RaiseLine ==
    ASSUME NEW indent \in Int, NEW exc
    PROVE  IsLine(Raise(indent, exc))
  BY DEF IsLine, Line, Does, Raise

LEMMA PyGuard ==
    ASSUME NEW indent \in Int, NEW act, NEW var, NEW n \in Nat, NEW exc
    PROVE  IsPyFile(Guard(indent, Test(act, var, n), exc))
<1>1. IsLine(Line(indent, "if", Test(act, var, n)))
  BY DEF IsLine, Line, Does, Test
<1>2. IsLine(Raise(indent + 1, exc))
  BY RaiseLine
<1> DEFINE l == Line(indent, "if", Test(act, var, n))
           m == Raise(indent + 1, exc)
<1> HIDE DEF l, m
<1>3. IsPyFile(<<l, m>>)
  BY <1>1, <1>2, PyTwo DEF l, m
<1>4. QED
  BY <1>3 DEF Guard, l, m

LEMMA LineParts ==
    ASSUME NEW lines, IsPyFile(lines), NEW k \in DOMAIN lines
    PROVE  IsLine(lines[k]) /\ lines[k].indent \in Int /\ lines[k].does.n \in Nat
  BY DEF IsPyFile, IsLine

LEMMA MovedLine ==
    ASSUME NEW l, IsLine(l), NEW indent \in Int
    PROVE  IsLine([l EXCEPT !.indent = indent])
  BY DEF IsLine, Line, Does

LEMMA OtherForm ==
    ASSUME NEW l, IsLine(l), NEW form
    PROVE  IsLine([l EXCEPT !.form = form])
  BY DEF IsLine, Line, Does

LEMMA OtherAct ==
    ASSUME NEW l, IsLine(l), NEW act
    PROVE  IsLine([l EXCEPT !.does.act = act])
  BY DEF IsLine, Line, Does

\* A line for each one.
LEMMA PyMap ==
    ASSUME NEW N \in Nat, NEW s, DOMAIN s = 1 .. N, s = [k \in 1 .. N |-> s[k]],
           \A k \in 1 .. N : IsLine(s[k])
    PROVE  IsPyFile(s)
<1> DEFINE T == {s[k] : k \in 1 .. N}
<1>1. \A x \in T : IsLine(x)
  OBVIOUS
<1>2. s \in [1 .. N -> T]
  OBVIOUS
<1> HIDE DEF T
<1>3. s \in Seq(T)
  BY <1>2, SeqDef
<1>4. QED
  BY <1>1, <1>3, PyFrom

LEMMA PyDeeper ==
    ASSUME NEW s, IsPyFile(s)
    PROVE  IsPyFile(Deeper(s))
<1> DEFINE d == Deeper(s)
           N == Len(s)
<1>1. N \in Nat /\ DOMAIN s = 1 .. N
  BY PyIs
<1>2. /\ DOMAIN d = 1 .. N /\ d = [k \in 1 .. N |-> d[k]]
      /\ \A k \in 1 .. N : d[k] = [s[k] EXCEPT !.indent = @ + 1]
  BY <1>1 DEF Deeper
<1>3. ASSUME NEW k \in 1 .. N PROVE IsLine(d[k])
  <2>1. IsLine(s[k]) /\ s[k].indent \in Int
    BY <1>1, LineParts
  <2>2. [s[k] EXCEPT !.indent = @ + 1] = [s[k] EXCEPT !.indent = s[k].indent + 1]
    OBVIOUS
  <2>3. s[k].indent + 1 \in Int
    BY <2>1
  <2> DEFINE i == s[k].indent + 1
             l == s[k]
  <2> HIDE DEF i, l
  <2>4. IsLine([l EXCEPT !.indent = i])
    BY <2>1, <2>3, MovedLine DEF i, l
  <2>5. QED
    BY <1>2, <2>2, <2>4 DEF i, l
<1> HIDE DEF d, N
<1>4. IsPyFile(d)
  BY <1>1, <1>2, <1>3, PyMap
<1>5. QED
  BY <1>4 DEF d

\* What is printed when the next line of a statement is.
Printed(s, l) ==
    IF l.form = "close" THEN s
    ELSE Append(s, IF l.form = "open" THEN [l EXCEPT !.form = "stmt"] ELSE l)

LEMMA PyJoined ==
    ASSUME NEW lines, IsPyFile(lines)
    PROVE  IsPyFile(Joined(lines))
<1> DEFINE N == Len(lines)
           T == {lines[k] : k \in 1 .. N} \cup {[lines[k] EXCEPT !.form = "stmt"] : k \in 1 .. N}
           S == Seq(T)
           Body(f) == [k \in 0 .. N |-> IF k = 0 THEN << >> ELSE Printed(f[k - 1], lines[k])]
           d == [z \in S \X (1 .. N) |-> Printed(z[1], lines[z[2]])]
           upto == CHOOSE f : f = Body(f)
<1>1. N \in Nat /\ DOMAIN lines = 1 .. N
  BY PyIs
<1>2. << >> \in S
  OBVIOUS
<1>3. ASSUME NEW was \in S, NEW n \in 1 .. N PROVE Printed(was, lines[n]) \in S
  <2>1. lines[n] \in T /\ [lines[n] EXCEPT !.form = "stmt"] \in T
    OBVIOUS
  <2> HIDE DEF T
  <2>2. QED
    BY <2>1 DEF Printed
<1>4. d \in [S \X (1 .. N) -> S]
  <2> HIDE DEF S, N
  <2>1. QED
    BY <1>3
<1>5. PICK f \in [0 .. N -> S] : GoesOn(f, N, << >>, d)
  <2> HIDE DEF N, S, d
  <2>1. QED
    BY <1>1, <1>2, <1>4, Recursion
<1>6. f = Body(f)
  <2>1. ASSUME NEW n \in 1 .. N PROVE f[n] = Printed(f[n - 1], lines[n])
    <3>1. <<f[n - 1], n>> \in S \X (1 .. N)
      <4>1. n - 1 \in 0 .. N
        BY <1>1
      <4> HIDE DEF S, N
      <4>2. QED
        BY <4>1
    <3>2. d[<<f[n - 1], n>>] = Printed(f[n - 1], lines[n])
      <4> HIDE DEF S, N
      <4>1. QED
        BY <3>1
    <3>3. QED
      BY <1>5, <3>2 DEF GoesOn
  <2>2. f \in [0 .. N -> S] /\ f[0] = << >>
    BY <1>5 DEF GoesOn
  <2>3. \A n \in 0 .. N : n # 0 => n \in 1 .. N
    BY <1>1
  <2> HIDE DEF N, S
  <2>4. \A n \in 0 .. N : f[n] = IF n = 0 THEN << >> ELSE Printed(f[n - 1], lines[n])
    BY <2>1, <2>2, <2>3
  <2>5. QED
    BY <2>2, <2>4
<1>7. upto = Body(upto)
  <2> HIDE DEF Body
  <2>1. QED
    BY <1>6
<1>8. Joined(lines) = upto[N]
  BY Zenon DEF Joined, Printed
<1>9. upto[0] = << >> /\ \A n \in 1 .. N : upto[n] = Printed(upto[n - 1], lines[n])
  <2> HIDE DEF upto
  <2>1. upto[0] = << >>
    <3>1. 0 \in 0 .. N
      BY <1>1
    <3>2. Body(upto)[0] = << >>
      BY <3>1
    <3> HIDE DEF Body
    <3>3. QED
      BY <1>7, <3>2
  <2>2. ASSUME NEW n \in 1 .. N PROVE upto[n] = Printed(upto[n - 1], lines[n])
    <3>1. n \in 0 .. N /\ n # 0
      BY <1>1
    <3>2. Body(upto)[n] = Printed(upto[n - 1], lines[n])
      BY <3>1
    <3> HIDE DEF Body
    <3>3. QED
      BY <1>7, <3>2
  <2>3. QED
    BY <2>1, <2>2
<1> HIDE DEF upto, Body
<1> DEFINE P == {n \in 0 .. N : upto[n] \in S}
<1>10. 0 .. N \subseteq P
  <2>1. 0 \in P
    <3> HIDE DEF S
    <3>1. QED
      BY <1>1, <1>2, <1>9
  <2>2. ASSUME NEW n \in 1 .. N, n - 1 \in P PROVE n \in P
    <3>1. n \in 0 .. N /\ upto[n - 1] \in S
      BY <1>1, <2>2
    <3> HIDE DEF S
    <3>2. upto[n] \in S
      BY <1>3, <1>9, <3>1
    <3>3. QED
      BY <3>1, <3>2
  <2> HIDE DEF P
  <2>3. QED
    BY <1>1, <2>1, <2>2, Upwards
<1>11. Joined(lines) \in S
  <2>1. N \in 0 .. N
    BY <1>1
  <2> HIDE DEF S, N
  <2>2. QED
    BY <1>8, <1>10, <2>1
<1>12. \A x \in T : IsLine(x)
  <2>1. ASSUME NEW k \in 1 .. N PROVE IsLine(lines[k]) /\ IsLine([lines[k] EXCEPT !.form = "stmt"])
    <3>1. IsLine(lines[k])
      BY <1>1, LineParts
    <3> DEFINE l == lines[k]
    <3> HIDE DEF l
    <3>2. IsLine([l EXCEPT !.form = "stmt"])
      BY <3>1, OtherForm DEF l
    <3>3. QED
      BY <3>1, <3>2 DEF l
  <2>2. QED
    BY <2>1
<1> DEFINE j == Joined(lines)
<1> HIDE DEF T, j
<1>13. j \in Seq(T)
  BY <1>11 DEF j
<1>14. IsPyFile(j)
  BY <1>12, <1>13, PyFrom
<1>15. QED
  BY <1>14 DEF j

\* Where a statement ends.
LEMMA StmtEndIs ==
    ASSUME NEW lines, IsPyFile(lines), Statements(lines), NEW k \in DOMAIN lines
    PROVE  StmtEnd(lines, k) \in k .. Len(lines)
<1> DEFINE N == Len(lines)
           J == {j \in k .. N : \A m \in k + 1 .. j : lines[m].indent > lines[k].indent}
<1>1. N \in Nat /\ k \in 1 .. N
  BY PyIs
<1>2. CASE lines[k].form = "open"
  <2>1. k \in 0 .. N /\ k > 0
    BY <1>1
  <2>2. k < N
    BY <1>2, <2>1 DEF Statements
  <2>3. k + 1 \in k .. N
    BY <1>1, <2>2
  <2>4. QED
    BY <1>2, <2>3 DEF StmtEnd
<1>3. CASE lines[k].form # "open" /\ lines[k].form \notin Heads
  <2>1. k \in k .. N
    BY <1>1
  <2>2. QED
    BY <1>3, <2>1 DEF StmtEnd
<1>4. CASE lines[k].form # "open" /\ lines[k].form \in Heads
  <2>1. J \subseteq 0 .. N /\ k \in J
    BY <1>1
  <2>2. Max(J) \in J
    <3> HIDE DEF J, N
    <3>1. QED
      BY <1>1, <2>1, MaxIs
  <2>3. StmtEnd(lines, k) = Max(J)
    BY <1>4 DEF StmtEnd
  <2>4. J \subseteq k .. N
    OBVIOUS
  <2> HIDE DEF J
  <2>5. QED
    BY <2>2, <2>3, <2>4
<1>5. QED
  BY <1>2, <1>3, <1>4

\* A statement.
LEMMA PyStmt ==
    ASSUME NEW lines, IsPyFile(lines), Statements(lines), NEW k \in DOMAIN lines
    PROVE  IsPyFile(SubSeq(lines, k, StmtEnd(lines, k)))
<1>1. Len(lines) \in Nat /\ k \in 1 .. Len(lines)
  BY PyIs
<1>2. StmtEnd(lines, k) \in 0 .. Len(lines)
  BY <1>1, StmtEndIs
<1>3. QED
  BY <1>1, <1>2, PySub

LEMMA PyUnparsed ==
    ASSUME NEW lines, IsPyFile(lines), Statements(lines), NEW k \in DOMAIN lines
    PROVE  IsPyFile(Unparsed(lines, k))
<1> DEFINE stmt == Joined(SubSeq(lines, k, StmtEnd(lines, k)))
           u == Unparsed(lines, k)
           N == Len(stmt)
<1>1. IsPyFile(stmt)
  <2> DEFINE s == SubSeq(lines, k, StmtEnd(lines, k))
  <2>1. IsPyFile(s)
    BY PyStmt
  <2> HIDE DEF s
  <2>2. IsPyFile(Joined(s))
    BY <2>1, PyJoined
  <2>3. QED
    BY <2>2 DEF s
<1>2. /\ DOMAIN u = DOMAIN stmt /\ u = [j \in DOMAIN stmt |-> u[j]]
      /\ \A j \in DOMAIN stmt :
             u[j] = IF j = 1 THEN [stmt[1] EXCEPT !.does.act = "safe call"]
                    ELSE [stmt[j] EXCEPT !.indent = @ - lines[k].indent]
  <2> HIDE DEF stmt
  <2>1. u = [j \in DOMAIN stmt |-> IF j = 1 THEN [stmt[1] EXCEPT !.does.act = "safe call"]
                                   ELSE [stmt[j] EXCEPT !.indent = @ - lines[k].indent]]
    BY DEF Unparsed, stmt
  <2> HIDE DEF u
  <2>2. QED
    BY <2>1
<1>3. lines[k].indent \in Int
  BY LineParts
<1> HIDE DEF stmt, u
<1>4. N \in Nat /\ DOMAIN stmt = 1 .. N
  BY <1>1, PyIs
<1>5. ASSUME NEW j \in 1 .. N PROVE IsLine(u[j])
  <2> DEFINE l == stmt[j]
             i == l.indent - lines[k].indent
  <2>1. IsLine(l) /\ l.indent \in Int
    BY <1>1, <1>4, LineParts
  <2>2. i \in Int
    BY <1>3, <2>1
  <2>3. u[j] = [l EXCEPT !.does.act = "safe call"] \/ u[j] = [l EXCEPT !.indent = i]
    BY <1>2, <1>4
  <2> HIDE DEF l, i
  <2>4. IsLine([l EXCEPT !.indent = i])
    BY <2>1, <2>2, MovedLine
  <2>5. IsLine([l EXCEPT !.does.act = "safe call"])
    BY <2>1, OtherAct
  <2>6. QED
    BY <2>3, <2>4, <2>5
<1> HIDE DEF N
<1>6. IsPyFile(u)
  BY <1>2, <1>4, <1>5, PyMap
<1>7. QED
  BY <1>6 DEF u

-----------------------------------------------------------------------------
(* What there is to find in a file.                                        *)

\* A finding that apply_fixes_to_file() takes.
OffersLines(f) == f.line \in Nat /\ f.end \in Nat /\ f.has_fix = TRUE /\ IsPyFile(f.fix)

LEMMA OfferOf ==
    ASSUME NEW line \in Nat, NEW end \in Nat, NEW fix, IsPyFile(fix),
           NEW source, NEW var, NEW raises, NEW certain
    PROVE  OffersLines(Finding(line, end, fix, source, var, raises, certain))
  BY DEF OffersLines, Finding

\* The greatest of the numbers some lines have.
LEMMA GreatestOf ==
    ASSUME NEW N \in Nat, NEW K, K \subseteq 1 .. N, K # {}, NEW h, \A k \in K : h[k] \in Int
    PROVE  \E m \in K : Max({h[k] : k \in K}) = h[m]
<1> DEFINE Upto(n) == {k \in K : k <= n}
           Top(n) == Upto(n) = {} \/ \E m \in Upto(n) : \A k \in Upto(n) : h[k] <= h[m]
           P == {n \in 0 .. N : Top(n)}
<1> HIDE DEF P
<1>0. \A k \in K : k \in Int /\ 1 <= k /\ k <= N
  OBVIOUS
<1>1. Top(0)
  <2>1. Upto(0) = {}
    <3>1. \A k \in K : ~ (k <= 0)
      BY <1>0
    <3>2. QED
      BY <3>1
  <2>2. QED
    BY <2>1
<1>2. ASSUME NEW n \in 1 .. N, Top(n - 1) PROVE Top(n)
  <2>1. /\ n \in K => Upto(n) = Upto(n - 1) \cup {n}
        /\ n \notin K => Upto(n) = Upto(n - 1)
    <3>1. \A k \in K : k <= n <=> k <= n - 1 \/ k = n
      BY <1>0
    <3>2. QED
      BY <3>1
  <2>2. CASE n \notin K
    <3>1. Upto(n) = Upto(n - 1)
      BY <2>1, <2>2
    <3> HIDE DEF Upto
    <3>2. QED
      BY <1>2, <3>1
  <2>3. CASE n \in K /\ Upto(n - 1) = {}
    <3>1. Upto(n) = {n} /\ h[n] <= h[n]
      BY <2>1, <2>3
    <3> HIDE DEF Upto
    <3>2. QED
      BY <3>1
  <2>4. CASE n \in K /\ Upto(n - 1) # {}
    <3>1. PICK m \in Upto(n - 1) : \A k \in Upto(n - 1) : h[k] <= h[m]
      BY <1>2, <2>4
    <3>2. Upto(n) = Upto(n - 1) \cup {n} /\ \A k \in Upto(n) : h[k] \in Int
      BY <2>1, <2>4
    <3> HIDE DEF Upto
    <3>3. CASE h[n] <= h[m]
      BY <3>1, <3>2, <3>3
    <3>4. CASE ~(h[n] <= h[m])
      <4>1. h[m] \in Int /\ h[n] \in Int
        BY <3>2
      <4>2. \A k \in Upto(n) : h[k] <= h[n]
        BY <3>1, <3>2, <3>4, <4>1
      <4>3. QED
        BY <3>2, <4>2
    <3>5. QED
      BY <3>3, <3>4
  <2>5. QED
    BY <2>2, <2>3, <2>4
<1> HIDE DEF Top
<1>3. 0 .. N \subseteq P
  <2>1. 0 \in P /\ \A n \in 1 .. N : n - 1 \in P => n \in P
    BY <1>1, <1>2 DEF P
  <2>2. QED
    BY <2>1, Upwards
<1>4. Top(N)
  BY <1>3 DEF P
<1>5. Upto(N) = K
  BY <1>0
<1> HIDE DEF Upto
<1>6. PICK m \in K : \A k \in K : h[k] <= h[m]
  BY <1>4, <1>5 DEF Top
<1> DEFINE S == {h[k] : k \in K}
<1>7. h[m] \in S /\ \A x \in S : x \in Int /\ h[m] >= x
  BY <1>6
<1>8. Max(S) \in S
  <2> HIDE DEF S
  <2>1. QED
    BY <1>7 DEF Max
<1>9. QED
  BY <1>8

\* A file has as many findings of a kind as it has lines, at most.
LEMMA FewOf ==
    ASSUME NEW N \in Nat, NEW S, NEW g, \A f \in S : \E k \in 1 .. N : f = g[k]
    PROVE  IsFiniteSet(S)
<1> DEFINE K == 1 .. N
           T == {g[k] : k \in K}
           h == [k \in K |-> g[k]]
<1>1. h \in Surjection(K, T)
  <2>1. h \in [K -> T]
    OBVIOUS
  <2>2. \A t \in T : \E k \in K : h[k] = t
    OBVIOUS
  <2> HIDE DEF h, T, K
  <2>3. QED
    BY <2>1, <2>2 DEF Surjection
<1>2. IsFiniteSet(K)
  BY FS_Interval
<1>3. IsFiniteSet(T)
  <2> HIDE DEF h, T, K
  <2>1. QED
    BY <1>1, <1>2, FS_Surjection
<1>4. S \subseteq T
  OBVIOUS
<1>5. QED
  <2> HIDE DEF T
  <2>1. QED
    BY <1>3, <1>4, FS_Subset

\* The findings about single lines.
LEMMA LiteralOffers ==
    ASSUME NEW lines, IsPyFile(lines), NEW shape
    PROVE  /\ \A f \in LiteralFindings(lines, shape) : OffersLines(f)
           /\ IsFiniteSet(LiteralFindings(lines, shape))
<1> DEFINE F(k) == Finding(k, 0, <<Raise(lines[k].indent, Raises[shape]), lines[k]>>,
                           shape, lines[k].does.var, Raises[shape], TRUE)
           N == Len(lines)
           g == [k \in 1 .. N |-> F(k)]
<1>1. N \in Nat /\ DOMAIN lines = 1 .. N
  BY PyIs
<1>2. ASSUME NEW k \in 1 .. N PROVE OffersLines(F(k))
  <2>1. IsLine(lines[k]) /\ lines[k].indent \in Int
    BY <1>1, LineParts
  <2> DEFINE l == lines[k]
             m == Raise(lines[k].indent, Raises[shape])
  <2>2. IsLine(m)
    BY <2>1, RaiseLine
  <2> HIDE DEF l, m
  <2>3. IsPyFile(<<m, l>>)
    BY <2>1, <2>2, PyTwo DEF l
  <2>4. k \in Nat /\ 0 \in Nat
    OBVIOUS
  <2> DEFINE fix == <<m, l>>
  <2> HIDE DEF fix
  <2>5. OffersLines(Finding(k, 0, fix, shape, lines[k].does.var, Raises[shape], TRUE))
    BY <2>3, <2>4, OfferOf DEF fix
  <2>6. QED
    BY <2>5 DEF fix, l, m
<1>3. \A f \in LiteralFindings(lines, shape) : \E k \in 1 .. N : f = F(k) /\ f = g[k]
  <2>1. \A k \in AccessSites(lines, shape) : k \in 1 .. N
    BY <1>1 DEF AccessSites
  <2>2. \A f \in LiteralFindings(lines, shape) : \E k \in AccessSites(lines, shape) : f = F(k)
    BY Zenon DEF LiteralFindings
  <2>3. \A k \in 1 .. N : g[k] = F(k)
    OBVIOUS
  <2> HIDE DEF F, g, N
  <2>4. QED
    BY <2>1, <2>2, <2>3
<1> HIDE DEF F, g, N
<1>4. \A f \in LiteralFindings(lines, shape) : OffersLines(f)
  BY <1>2, <1>3
<1>5. \A f \in LiteralFindings(lines, shape) : \E k \in 1 .. N : f = g[k]
  BY <1>3
<1>6. IsFiniteSet(LiteralFindings(lines, shape))
  <2> DEFINE S == LiteralFindings(lines, shape)
  <2> HIDE DEF S
  <2>1. IsFiniteSet(S)
    BY <1>1, <1>5, FewOf DEF S
  <2>2. QED
    BY <2>1 DEF S
<1>7. QED
  BY <1>4, <1>6

LEMMA DivisionOffers ==
    ASSUME NEW lines, IsPyFile(lines)
    PROVE  /\ \A f \in UnguardedDivision(lines) : OffersLines(f)
           /\ IsFiniteSet(UnguardedDivision(lines))
<1> DEFINE act(k) == IF lines[k].does.act = "divlen" THEN "len ==" ELSE "=="
           F(k) == Finding(k, 0,
                           Guard(lines[k].indent, Test(act(k), lines[k].does.var, 0),
                                 "ZeroDivisionError") \o <<lines[k]>>,
                           "div", lines[k].does.var, "ZeroDivisionError", FALSE)
           N == Len(lines)
           g == [k \in 1 .. N |-> F(k)]
           S == UnguardedDivision(lines)
<1>1. N \in Nat /\ DOMAIN lines = 1 .. N
  BY PyIs
<1>2. ASSUME NEW k \in 1 .. N PROVE OffersLines(F(k))
  <2> DEFINE l == lines[k]
             v == lines[k].does.var
             a == act(k)
             s == Guard(l.indent, Test(a, v, 0), "ZeroDivisionError")
             t == <<l>>
             fix == s \o t
  <2>1. IsLine(l) /\ l.indent \in Int
    BY <1>1, LineParts
  <2>2. IsPyFile(s)
    <3> HIDE DEF l, v, a
    <3>1. QED
      BY <2>1, PyGuard
  <2>3. IsPyFile(t)
    <3> HIDE DEF l
    <3>1. QED
      BY <2>1, PyOne
  <2>4. IsPyFile(fix)
    <3> HIDE DEF s, t
    <3>1. QED
      BY <2>2, <2>3, PyBoth
  <2>5. F(k) = Finding(k, 0, fix, "div", v, "ZeroDivisionError", FALSE)
    OBVIOUS
  <2> HIDE DEF fix, v, F
  <2>6. k \in Nat /\ 0 \in Nat
    OBVIOUS
  <2>7. OffersLines(Finding(k, 0, fix, "div", v, "ZeroDivisionError", FALSE))
    BY <2>4, <2>6, OfferOf
  <2>8. QED
    BY <2>5, <2>7
<1>3. \A f \in S : \E k \in 1 .. N : f = F(k) /\ f = g[k]
  <2>1. \A f \in S : \E k \in DOMAIN lines : f = F(k)
    BY Zenon DEF UnguardedDivision
  <2>2. \A k \in 1 .. N : g[k] = F(k)
    OBVIOUS
  <2> HIDE DEF F, g, N, S
  <2>3. QED
    BY <1>1, <2>1, <2>2
<1> HIDE DEF F, g, N, S
<1>4. \A f \in S : OffersLines(f)
  BY <1>2, <1>3
<1>5. IsFiniteSet(S)
  BY <1>1, <1>3, FewOf
<1>6. QED
  BY <1>4, <1>5 DEF S

LEMMA NoneOffers ==
    ASSUME NEW lines, IsPyFile(lines)
    PROVE  /\ \A f \in UnguardedNone(lines) : OffersLines(f)
           /\ IsFiniteSet(UnguardedNone(lines))
<1> DEFINE F(k) == Finding(k, 0,
                           <<lines[k]>> \o Guard(lines[k].indent,
                                                 Test("is None", lines[k].does.var, 0),
                                                 "AttributeError"),
                           "attr", lines[k].does.var, "AttributeError", FALSE)
           N == Len(lines)
           g == [k \in 1 .. N |-> F(k)]
           S == UnguardedNone(lines)
<1>1. N \in Nat /\ DOMAIN lines = 1 .. N
  BY PyIs
<1>2. ASSUME NEW k \in 1 .. N PROVE OffersLines(F(k))
  <2> DEFINE l == lines[k]
             v == lines[k].does.var
             s == Guard(l.indent, Test("is None", v, 0), "AttributeError")
             t == <<l>>
             fix == t \o s
  <2>1. IsLine(l) /\ l.indent \in Int
    BY <1>1, LineParts
  <2>2. IsPyFile(s)
    <3> HIDE DEF l, v
    <3>1. QED
      BY <2>1, PyGuard
  <2>3. IsPyFile(t)
    <3> HIDE DEF l
    <3>1. QED
      BY <2>1, PyOne
  <2>4. IsPyFile(fix)
    <3> HIDE DEF s, t
    <3>1. QED
      BY <2>2, <2>3, PyBoth
  <2>5. F(k) = Finding(k, 0, fix, "attr", v, "AttributeError", FALSE)
    OBVIOUS
  <2> HIDE DEF fix, v, F
  <2>6. k \in Nat /\ 0 \in Nat
    OBVIOUS
  <2>7. OffersLines(Finding(k, 0, fix, "attr", v, "AttributeError", FALSE))
    BY <2>4, <2>6, OfferOf
  <2>8. QED
    BY <2>5, <2>7
<1>3. \A f \in S : \E k \in 1 .. N : f = F(k) /\ f = g[k]
  <2>1. \A f \in S : \E k \in DOMAIN lines : f = F(k)
    BY Zenon DEF UnguardedNone
  <2>2. \A k \in 1 .. N : g[k] = F(k)
    OBVIOUS
  <2> HIDE DEF F, g, N, S
  <2>3. QED
    BY <1>1, <2>1, <2>2
<1> HIDE DEF F, g, N, S
<1>4. \A f \in S : OffersLines(f)
  BY <1>2, <1>3
<1>5. IsFiniteSet(S)
  BY <1>1, <1>3, FewOf
<1>6. QED
  BY <1>4, <1>5 DEF S

\* ... and about statements.
LEMMA CallOffers ==
    ASSUME NEW lines, IsPyFile(lines), Statements(lines), NEW checker
    PROVE  /\ \A f \in UnsafeCalls(lines, checker) : OffersLines(f)
           /\ IsFiniteSet(UnsafeCalls(lines, checker))
<1> DEFINE F(k) == Finding(k, 0, Unparsed(lines, k), checker, lines[k].does.var, "none", FALSE)
           N == Len(lines)
           g == [k \in 1 .. N |-> F(k)]
           S == UnsafeCalls(lines, checker)
<1>1. N \in Nat /\ DOMAIN lines = 1 .. N
  BY PyIs
<1>2. ASSUME NEW k \in 1 .. N PROVE OffersLines(F(k))
  <2> DEFINE fix == Unparsed(lines, k)
  <2>1. IsPyFile(fix)
    BY <1>1, PyUnparsed
  <2> HIDE DEF fix
  <2>2. k \in Nat /\ 0 \in Nat
    OBVIOUS
  <2>3. OffersLines(Finding(k, 0, fix, checker, lines[k].does.var, "none", FALSE))
    BY <2>1, <2>2, OfferOf
  <2>4. QED
    BY <2>3 DEF fix
<1>3. \A f \in S : \E k \in 1 .. N : f = F(k) /\ f = g[k]
  <2>1. \A f \in S : \E k \in DOMAIN lines : f = F(k)
    BY Zenon DEF UnsafeCalls
  <2>2. \A k \in 1 .. N : g[k] = F(k)
    OBVIOUS
  <2> HIDE DEF F, g, N, S
  <2>3. QED
    BY <1>1, <2>1, <2>2
<1> HIDE DEF F, g, N, S
<1>4. \A f \in S : OffersLines(f)
  BY <1>2, <1>3
<1>5. IsFiniteSet(S)
  BY <1>1, <1>3, FewOf
<1>6. QED
  BY <1>4, <1>5 DEF S

LEMMA PyWrapped ==
    ASSUME NEW lines, IsPyFile(lines), Statements(lines), NEW k \in DOMAIN lines
    PROVE  IsPyFile(Wrapped(lines, k))
<1> DEFINE i == lines[k].indent
           first == Line(i, "try", Does("none", "none", 0, "none"))
           handler == Line(i, "except", Does("none", "none", 0, "FileNotFoundError"))
           last == Raise(i + 1, "FileNotFoundError")
           stmt == SubSeq(lines, k, StmtEnd(lines, k))
           deeper == Deeper(stmt)
           head == <<first>>
           tail == <<handler, last>>
           body == head \o deeper
           all == body \o tail
<1>1. i \in Int
  BY LineParts
<1>2. IsLine(first) /\ IsLine(handler) /\ IsLine(last)
  <2> HIDE DEF i
  <2>1. IsLine(first)
    BY <1>1, NewLine
  <2>2. IsLine(handler)
    BY <1>1, NewLine
  <2>3. i + 1 \in Int
    BY <1>1
  <2> DEFINE j == i + 1
  <2> HIDE DEF j
  <2>4. IsLine(Raise(j, "FileNotFoundError"))
    BY <2>3, RaiseLine DEF j
  <2>5. QED
    BY <2>1, <2>2, <2>4 DEF j
<1>3. IsPyFile(stmt)
  BY PyStmt
<1>4. IsPyFile(deeper)
  <2> HIDE DEF stmt
  <2>1. QED
    BY <1>3, PyDeeper
<1>5. Wrapped(lines, k) = all
  BY DEF Wrapped
<1> HIDE DEF first, handler, last, deeper, stmt
<1>6. IsPyFile(head) /\ IsPyFile(tail)
  BY <1>2, PyOne, PyTwo
<1> HIDE DEF head, tail
<1>7. IsPyFile(body)
  BY <1>4, <1>6, PyBoth
<1> HIDE DEF body
<1>8. IsPyFile(all)
  BY <1>6, <1>7, PyBoth
<1>9. QED
  BY <1>5, <1>8

LEMMA OpenOffers ==
    ASSUME NEW lines, IsPyFile(lines), Statements(lines)
    PROVE  /\ \A f \in UnguardedOpen(lines) : OffersLines(f)
           /\ IsFiniteSet(UnguardedOpen(lines))
<1> DEFINE F(k) == Finding(k, StmtEnd(lines, k), Wrapped(lines, k), "open", lines[k].does.var,
                           "FileNotFoundError", FALSE)
           N == Len(lines)
           g == [k \in 1 .. N |-> F(k)]
           S == UnguardedOpen(lines)
<1>1. N \in Nat /\ DOMAIN lines = 1 .. N
  BY PyIs
<1>2. ASSUME NEW k \in 1 .. N PROVE OffersLines(F(k))
  <2> DEFINE fix == Wrapped(lines, k)
             end == StmtEnd(lines, k)
  <2>1. IsPyFile(fix)
    BY <1>1, PyWrapped
  <2>2. end \in Nat
    <3>1. end \in k .. Len(lines)
      BY <1>1, StmtEndIs
    <3> HIDE DEF end
    <3>2. QED
      BY <3>1
  <2> HIDE DEF fix, end
  <2>3. k \in Nat
    OBVIOUS
  <2>4. OffersLines(Finding(k, end, fix, "open", lines[k].does.var, "FileNotFoundError", FALSE))
    BY <2>1, <2>2, <2>3, OfferOf
  <2>5. QED
    BY <2>4 DEF fix, end
<1>3. \A f \in S : \E k \in 1 .. N : f = F(k) /\ f = g[k]
  <2>1. \A f \in S : \E k \in DOMAIN lines : f = F(k)
    BY Zenon DEF UnguardedOpen
  <2>2. \A k \in 1 .. N : g[k] = F(k)
    OBVIOUS
  <2> HIDE DEF F, g, N, S
  <2>3. QED
    BY <1>1, <2>1, <2>2
<1> HIDE DEF F, g, N, S
<1>4. \A f \in S : OffersLines(f)
  BY <1>2, <1>3
<1>5. IsFiniteSet(S)
  BY <1>1, <1>3, FewOf
<1>6. QED
  BY <1>4, <1>5 DEF S

\* ... and about variables: the line that a guard comes behind.
LEMMA AnchorIs ==
    ASSUME NEW lines, IsPyFile(lines), NEW v, v \in Params \/ Sites(lines, {"json"}, v) # {},
           DOMAIN lines # {}
    PROVE  KeyAnchor(lines, v) \in DOMAIN lines
<1> DEFINE N == Len(lines)
           K == Sites(lines, {"json"}, v)
           h == [k \in 1 .. N |-> lines[k].indent]
           deep == Max({lines[k].indent : k \in K})
           D == {k \in K : lines[k].indent = deep}
<1>1. N \in Nat /\ DOMAIN lines = 1 .. N
  BY PyIs
<1>2. CASE v \in Params
  <2>1. 1 \in DOMAIN lines
    BY <1>1
  <2>2. QED
    BY <1>2, <2>1 DEF KeyAnchor
<1>3. CASE v \notin Params
  <2>1. K \subseteq 1 .. N /\ K # {}
    BY <1>1, <1>3 DEF Sites
  <2>2. \A k \in K : h[k] = lines[k].indent /\ h[k] \in Int
    <3>1. \A k \in 1 .. N : lines[k].indent \in Int
      BY <1>1, LineParts
    <3>2. \A k \in 1 .. N : h[k] = lines[k].indent
      OBVIOUS
    <3> HIDE DEF K, h, N
    <3>3. QED
      BY <2>1, <3>1, <3>2
  <2>3. PICK m \in K : Max({h[k] : k \in K}) = h[m]
    <3> HIDE DEF K, h, N
    <3>1. QED
      BY <1>1, <2>1, <2>2, GreatestOf
  <2>4. {h[k] : k \in K} = {lines[k].indent : k \in K}
    <3> HIDE DEF K, h
    <3>1. QED
      BY <2>2
  <2>5. deep = lines[m].indent
    <3> HIDE DEF K, h
    <3>1. QED
      BY <2>2, <2>3, <2>4
  <2>6. D \subseteq 0 .. N /\ D # {} /\ D \subseteq 1 .. N
    <3> HIDE DEF deep
    <3>1. m \in D
      BY <2>5
    <3>2. D \subseteq K
      OBVIOUS
    <3> HIDE DEF K, N, D
    <3>3. QED
      BY <1>1, <2>1, <3>1, <3>2
  <2>7. Max(D) \in D
    <3> HIDE DEF D, N
    <3>1. QED
      BY <1>1, <2>6, MaxIs
  <2>8. KeyAnchor(lines, v) = Max(D)
    BY <1>3 DEF KeyAnchor
  <2> HIDE DEF D, N
  <2>9. QED
    BY <1>1, <2>6, <2>7, <2>8
<1>4. QED
  BY <1>2, <1>3

LEMMA KeyOffers ==
    ASSUME NEW lines, IsPyFile(lines), Statements(lines)
    PROVE  /\ \A f \in UnguardedKey(lines) : OffersLines(f)
           /\ IsFiniteSet(UnguardedKey(lines))
<1> DEFINE start(v) == KeyAnchor(lines, v)
           end(v) == IF v \in Params THEN 1 ELSE StmtEnd(lines, start(v))
           indent(v) == lines[start(v)].indent + (IF v \in Params THEN 1 ELSE 0)
           F(v) == Finding(start(v), IF end(v) > start(v) THEN end(v) ELSE 0,
                           SubSeq(lines, start(v), end(v))
                               \o Guard(indent(v), Test("not in", v, 0), "KeyError"),
                           "key", v, "KeyError", FALSE)
           Risky == {u \in RiskyDicts(lines) : KeySites(lines, u) # {} /\ ~KeyGuarded(lines, u)}
           N == Len(lines)
           g == [k \in 1 .. N |-> F(lines[k].does.var)]
           S == UnguardedKey(lines)
<1>1. N \in Nat /\ DOMAIN lines = 1 .. N
  BY PyIs
<1>2. ASSUME NEW v \in Risky
      PROVE  /\ v \in Params \/ Sites(lines, {"json"}, v) # {}
             /\ \E k \in 1 .. N : v = lines[k].does.var
  <2>1. v \in Params \/ Sites(lines, {"json"}, v) # {}
    BY DEF RiskyDicts
  <2>2. PICK k \in KeySites(lines, v) : TRUE
    OBVIOUS
  <2>3. k \in DOMAIN lines /\ v = lines[k].does.var
    BY <2>2 DEF KeySites, AccessSites
  <2>4. QED
    BY <1>1, <2>1, <2>3
<1>3. ASSUME NEW v \in Risky PROVE OffersLines(F(v))
  <2> DEFINE a == start(v)
             b == end(v)
             i == indent(v)
             e == IF b > a THEN b ELSE 0
             s == SubSeq(lines, a, b)
             t == Guard(i, Test("not in", v, 0), "KeyError")
             fix == s \o t
  <2>1. a \in 1 .. N
    <3>1. DOMAIN lines # {}
      BY <1>1, <1>2
    <3>2. v \in Params \/ Sites(lines, {"json"}, v) # {}
      BY <1>2
    <3> HIDE DEF Risky
    <3>3. QED
      BY <1>1, <3>1, <3>2, AnchorIs
  <2> HIDE DEF Risky
  <2>2. b \in 0 .. N
    <3>1. CASE v \in Params
      <4>1. 1 \in 0 .. N
        BY <1>1, <2>1
      <4>2. QED
        BY <3>1, <4>1
    <3>2. CASE v \notin Params
      <4>1. StmtEnd(lines, a) \in a .. N
        <5> HIDE DEF a
        <5>1. QED
          BY <1>1, <2>1, StmtEndIs
      <4>2. a .. N \subseteq 0 .. N
        <5> HIDE DEF a, N
        <5>1. QED
          BY <1>1, <2>1
      <4>3. QED
        BY <3>2, <4>1, <4>2
    <3>3. QED
      BY <3>1, <3>2
  <2>3. i \in Int
    <3>1. lines[a].indent \in Int
      <4> HIDE DEF a
      <4>1. QED
        BY <1>1, <2>1, LineParts
    <3>2. (IF v \in Params THEN 1 ELSE 0) \in Int
      OBVIOUS
    <3> DEFINE x == lines[a].indent
               y == IF v \in Params THEN 1 ELSE 0
    <3>3. i = x + y
      OBVIOUS
    <3> HIDE DEF x, y, i
    <3>4. QED
      BY <3>1, <3>2, <3>3 DEF x, y
  <2>4. a \in Nat /\ e \in Nat
    <3> HIDE DEF a, b, N
    <3>1. QED
      BY <1>1, <2>1, <2>2
  <2>5. IsPyFile(s)
    <3> HIDE DEF a, b
    <3>1. QED
      BY <2>1, <2>2, PySub
  <2>6. IsPyFile(t)
    <3> HIDE DEF i
    <3>1. 0 \in Nat
      OBVIOUS
    <3>2. QED
      BY <2>3, <3>1, PyGuard
  <2>7. IsPyFile(fix)
    <3> HIDE DEF s, t
    <3>1. QED
      BY <2>5, <2>6, PyBoth
  <2>8. F(v) = Finding(a, e, fix, "key", v, "KeyError", FALSE)
    OBVIOUS
  <2> HIDE DEF a, e, fix, F
  <2>9. OffersLines(Finding(a, e, fix, "key", v, "KeyError", FALSE))
    BY <2>4, <2>7, OfferOf
  <2>10. QED
    BY <2>8, <2>9
<1>4. \A f \in S : \E v \in Risky : f = F(v)
  BY Zenon DEF UnguardedKey
<1>5. \A k \in 1 .. N : g[k] = F(lines[k].does.var)
  OBVIOUS
<1> HIDE DEF F, g, N, S, Risky
<1>6. \A f \in S : OffersLines(f)
  BY <1>3, <1>4
<1>7. \A f \in S : \E k \in 1 .. N : f = g[k]
  BY <1>2, <1>4, <1>5
<1>8. IsFiniteSet(S)
  BY <1>1, <1>7, FewOf
<1>9. QED
  BY <1>6, <1>8 DEF S

LEMMA IndexOffers ==
    ASSUME NEW lines, IsPyFile(lines)
    PROVE  /\ \A f \in UnguardedIndex(lines) : OffersLines(f)
           /\ IsFiniteSet(UnguardedIndex(lines))
<1> DEFINE top(v) == Max({lines[k].does.n : k \in Sites(lines, {"index"}, v)})
           F(v, n) == Finding(1, 0,
                              <<lines[1]>> \o Guard(lines[1].indent + 1, Test("len <=", v, n),
                                                    "IndexError"),
                              "index", v, "IndexError", FALSE)
           Risky == {u \in Params : \E k \in Sites(lines, {"index"}, u) :
                                        ~LenGuardCovers(lines, u, lines[k].does.n)}
           Pairs == {<<v, top(v)>> : v \in Risky}
           N == Len(lines)
           g == [k \in 1 .. N |-> F(lines[k].does.var, top(lines[k].does.var))]
           S == UnguardedIndex(lines)
<1>1. N \in Nat /\ DOMAIN lines = 1 .. N
  BY PyIs
<1>2. ASSUME NEW v \in Risky
      PROVE  Sites(lines, {"index"}, v) # {} /\ \E k \in 1 .. N : v = lines[k].does.var
  <2>1. PICK k \in Sites(lines, {"index"}, v) : TRUE
    OBVIOUS
  <2>2. k \in DOMAIN lines /\ v = lines[k].does.var
    BY <2>1 DEF Sites
  <2>3. QED
    BY <1>1, <2>1, <2>2
<1>3. ASSUME NEW v \in Risky PROVE OffersLines(F(v, top(v)))
  <2> DEFINE K == Sites(lines, {"index"}, v)
             h == [k \in 1 .. N |-> lines[k].does.n]
             n == top(v)
             l == lines[1]
             i == l.indent + 1
             t == Guard(i, Test("len <=", v, n), "IndexError")
             s == <<l>>
             fix == s \o t
  <2>1. K # {} /\ K \subseteq 1 .. N
    <3>1. K \subseteq 1 .. N
      BY <1>1 DEF Sites
    <3>2. K # {}
      BY <1>2
    <3>3. QED
      BY <3>1, <3>2
  <2>2. \A k \in K : h[k] = lines[k].does.n /\ h[k] \in Nat
    <3>1. \A k \in 1 .. N : lines[k].does.n \in Nat
      BY <1>1, LineParts
    <3>2. \A k \in 1 .. N : h[k] = lines[k].does.n
      OBVIOUS
    <3> HIDE DEF K, h, N
    <3>3. QED
      BY <2>1, <3>1, <3>2
  <2>3. PICK m \in K : Max({h[k] : k \in K}) = h[m]
    <3> HIDE DEF K, h, N
    <3>1. \A k \in K : h[k] \in Int
      BY <2>2
    <3>2. QED
      BY <1>1, <2>1, <3>1, GreatestOf
  <2>4. {h[k] : k \in K} = {lines[k].does.n : k \in K}
    <3> HIDE DEF K, h
    <3>1. QED
      BY <2>2
  <2>5. n \in Nat
    <3>1. n = Max({lines[k].does.n : k \in K})
      OBVIOUS
    <3> HIDE DEF K, h, n
    <3>2. QED
      BY <2>2, <2>3, <2>4, <3>1
  <2>6. IsLine(l) /\ i \in Int
    <3>1. 1 \in DOMAIN lines
      <4> HIDE DEF K, N
      <4>1. QED
        BY <1>1, <2>1
    <3>2. IsLine(l) /\ l.indent \in Int
      BY <3>1, LineParts
    <3> HIDE DEF l
    <3>3. QED
      BY <3>2
  <2>7. IsPyFile(s)
    <3> HIDE DEF l
    <3>1. QED
      BY <2>6, PyOne
  <2>8. IsPyFile(t)
    <3> HIDE DEF i, n
    <3>1. QED
      BY <2>5, <2>6, PyGuard
  <2>9. IsPyFile(fix)
    <3> HIDE DEF s, t
    <3>1. QED
      BY <2>7, <2>8, PyBoth
  <2>10. F(v, n) = Finding(1, 0, fix, "index", v, "IndexError", FALSE)
    OBVIOUS
  <2>11. 1 \in Nat /\ 0 \in Nat
    OBVIOUS
  <2> HIDE DEF fix, n, F
  <2>12. OffersLines(Finding(1, 0, fix, "index", v, "IndexError", FALSE))
    BY <2>9, <2>11, OfferOf
  <2>13. QED
    BY <2>10, <2>12 DEF n
<1>4. \A f \in S : \E v \in Risky : f = F(v, top(v))
  <2>1. S = {F(found[1], found[2]) : found \in Pairs}
    BY Zenon DEF UnguardedIndex
  <2> HIDE DEF F, Risky, S, top
  <2>2. QED
    BY <2>1
<1>5. \A k \in 1 .. N : g[k] = F(lines[k].does.var, top(lines[k].does.var))
  OBVIOUS
<1> HIDE DEF F, g, N, S, Risky, top
<1>6. \A f \in S : OffersLines(f)
  BY <1>3, <1>4
<1>7. \A f \in S : \E k \in 1 .. N : f = g[k]
  BY <1>2, <1>4, <1>5
<1>8. IsFiniteSet(S)
  BY <1>1, <1>7, FewOf
<1>9. QED
  BY <1>6, <1>8 DEF S

\* A review finds so many fixes, each of which puts lines into the file.
LEMMA ReviewOffers ==
    ASSUME NEW lines, IsPyFile(lines)
    PROVE  /\ \A f \in RunDeterministicCheckers(lines) : OffersLines(f)
           /\ IsFiniteSet(RunDeterministicCheckers(lines))
<1> DEFINE S == RunDeterministicCheckers(lines)
           A == FromCheckers(lines)
           L(shape) == LiteralFindings(lines, shape)
           C(checker) == UnsafeCalls(lines, checker)
           U == UnguardedKey(lines)
           V == UnguardedDivision(lines)
           W == UnguardedOpen(lines)
           X == UnguardedIndex(lines)
           Y == UnguardedNone(lines)
           Both(T) == IsFiniteSet(T) /\ \A f \in T : OffersLines(f)
<1>1. CASE ~Parses(lines)
  <2>1. S = {}
    BY <1>1 DEF RunDeterministicCheckers
  <2>2. IsFiniteSet({})
    BY FS_EmptySet
  <2>3. QED
    BY <2>1, <2>2
<1>2. CASE Parses(lines)
  <2>1. Statements(lines)
    BY <1>2 DEF Parses
  <2>2. Both(U) /\ Both(V) /\ Both(W) /\ Both(X) /\ Both(Y)
    BY <2>1, KeyOffers, DivisionOffers, OpenOffers, IndexOffers, NoneOffers
  <2>3. \A shape : Both(L(shape))
    BY LiteralOffers
  <2>4. \A checker : Both(C(checker))
    BY <2>1, CallOffers
  <2> DEFINE All == {L("key"), U, L("div"), V, W, C("http_timeout"), C("unsafe_yaml"),
                     C("insecure_http"), L("index"), X, Y, C("weak_crypto"), L("int")}
  <2>5. A = UNION All
    BY Zenon DEF FromCheckers, MissingKey, LiteralZeroDivision, LiteralOutOfBounds,
         GuaranteedValueErrors, UnguardedHttpCalls, UnsafeYamlLoad, InsecureHttpUrls, WeakCrypto
  <2>6. S \subseteq A
    BY <1>2 DEF RunDeterministicCheckers
  <2> HIDE DEF S, A, L, C, U, V, W, X, Y, Both
  <2>7. \A T \in All : Both(T)
    BY <2>2, <2>3, <2>4
  <2>8. IsFiniteSet(All)
    <3> DEFINE g == <<L("key"), U, L("div"), V, W, C("http_timeout"), C("unsafe_yaml"),
                      C("insecure_http"), L("index"), X, Y, C("weak_crypto"), L("int")>>
    <3>1. \A T \in All : \E k \in 1 .. 13 : T = g[k]
      OBVIOUS
    <3>2. 13 \in Nat
      OBVIOUS
    <3> HIDE DEF g, All
    <3>3. QED
      BY <3>1, <3>2, FewOf
  <2> HIDE DEF All
  <2>9. \A f \in A : OffersLines(f)
    BY <2>5, <2>7 DEF Both
  <2>10. IsFiniteSet(A)
    <3>1. \A T \in All : IsFiniteSet(T)
      BY <2>7 DEF Both
    <3>2. QED
      BY <2>5, <2>8, <3>1, FS_UNION
  <2>11. IsFiniteSet(S)
    BY <2>6, <2>10, FS_Subset
  <2>12. QED
    BY <2>6, <2>9, <2>11 DEF S
<1>3. QED
  BY <1>1, <1>2

-----------------------------------------------------------------------------
(* What the fixes make of a file under review.                             *)

\* The elements of a finite set, in some order.
LEMMA InSomeOrder ==
    ASSUME NEW S, IsFiniteSet(S)
    PROVE  SetToSeq(S) \in Seq(S)
<1> DEFINE n == Cardinality(S)
<1>1. n \in Nat /\ ExistsBijection(1 .. n, S)
  BY FS_CardinalityType
<1>2. \E f \in [1 .. n -> S] : IsInjective(f)
  <2> HIDE DEF n
  <2>1. QED
    BY <1>1 DEF ExistsBijection, Bijection, Injection
<1>3. SetToSeq(S) \in [1 .. n -> S]
  <2>1. SetToSeq(S) = CHOOSE f \in [1 .. n -> S] : IsInjective(f)
    BY DEF SetToSeq
  <2> HIDE DEF n
  <2>2. QED
    BY <1>2, <2>1
<1> HIDE DEF n
<1>4. QED
  BY <1>1, <1>3, SeqDef

LEMMA PatchPy ==
    ASSUME NEW lines, IsPyFile(lines), NEW S, IsFiniteSet(S), \A f \in S : OffersLines(f)
    PROVE  IsPyFile(Patch(lines, SetToSeq(S)).lines)
<1> DEFINE fs == SetToSeq(S)
<1>1. fs \in Seq(S)
  BY InSomeOrder
<1> HIDE DEF fs
<1>2. DOMAIN fs = 1 .. Len(fs) /\ \A i \in DOMAIN fs : fs[i] \in S
  BY <1>1
<1>3. IsSeq(fs)
  <2> DEFINE T == {fs[i] : i \in DOMAIN fs}
  <2>1. \A k \in 1 .. Len(fs) : fs[k] \in T
    BY <1>2
  <2> HIDE DEF T
  <2>2. fs \in Seq(T)
    BY <1>1, <2>1, MadeOf
  <2>3. QED
    BY <2>2 DEF IsSeq, T
<1>4. \A i \in DOMAIN fs : OffersLines(fs[i])
  BY <1>2
<1>5. AreFindings(fs) /\ IsSeq(lines)
  <2>1. ASSUME NEW i \in DOMAIN fs
        PROVE  /\ fs[i].line \in Nat /\ fs[i].end \in Nat /\ fs[i].has_fix \in BOOLEAN
               /\ IsSeq(fs[i].fix)
    BY <1>4 DEF OffersLines, IsPyFile
  <2>2. QED
    BY <1>3, <2>1 DEF AreFindings, IsPyFile
<1> DEFINE p == Patch(lines, fs).lines
           T == AnyLine(lines, fs)
<1>6. p \in Seq(T)
  <2>1. Patch(lines, fs) \in Outcomes(lines, fs)
    BY <1>5, PatchMade
  <2>2. QED
    BY <2>1 DEF Outcomes
<1>7. \A x \in T : IsLine(x)
  <2>1. \A i \in DOMAIN lines : IsLine(lines[i])
    BY DEF IsPyFile
  <2>2. ASSUME NEW k \in Fixable(fs), NEW i \in DOMAIN fs[k].fix PROVE IsLine(fs[k].fix[i])
    <3>1. OffersLines(fs[k])
      BY <1>4 DEF Fixable
    <3>2. QED
      BY <3>1 DEF OffersLines, IsPyFile
  <2>3. QED
    BY <2>1, <2>2 DEF AnyLine
<1> HIDE DEF p, T
<1>8. IsPyFile(p)
  BY <1>6, <1>7, PyFrom
<1>9. QED
  BY <1>8 DEF p, fs

\* Whatever is applied in whatever order, the file remains a file.
LEMMA FileStays ==
    ASSUME IsPyFile(file), [Next]_vars
    PROVE  IsPyFile(file')
<1> DEFINE found == RunDeterministicCheckers(file)
<1>1. (\A f \in found : OffersLines(f)) /\ IsFiniteSet(found)
  BY ReviewOffers
<1> HIDE DEF found
<1>2. CASE UNCHANGED vars
  BY <1>2 DEF vars
<1>3. CASE AutoApply(found)
  <2>1. file' = Patch(file, SetToSeq(found)).lines
    BY <1>3 DEF AutoApply, Commit
  <2>2. IsPyFile(Patch(file, SetToSeq(found)).lines)
    BY <1>1, PatchPy
  <2>3. QED
    BY <2>1, <2>2
<1>4. CASE AcceptSuggestion(found)
  <2>1. PICK f \in found : file' = Patch(file, SetToSeq({f})).lines
    BY <1>4 DEF AcceptSuggestion, Commit
  <2>2. IsFiniteSet({f}) /\ \A g \in {f} : OffersLines(g)
    BY <1>1, FS_Singleton
  <2> DEFINE S == {f}
  <2> HIDE DEF S
  <2>3. IsPyFile(Patch(file, SetToSeq(S)).lines)
    BY <2>2, PatchPy DEF S
  <2>4. QED
    BY <2>1, <2>3 DEF S
<1>5. QED
  BY <1>2, <1>3, <1>4 DEF Next, found

\* The inductive invariant.
FileIsLines == IsPyFile(file)

\* The file under review stays a sequence of lines, whatever fixes get into it.
THEOREM FileStaysLines == Spec => []FileIsLines
<1>1. Init => FileIsLines
  BY FilesAssumption DEF Init, IsPyFile, FileIsLines
<1>2. FileIsLines /\ [Next]_vars => FileIsLines'
  BY FileStays DEF FileIsLines
<1>3. QED
  BY <1>1, <1>2, PTL DEF Spec

\* A finding of severity CRITICAL is certain, in every file and for all the arguments
\* of a call, after whatever fixes have been applied: the one assignment of the
\* literal is all that can have given the variable its value.
THEOREM CriticalIsCertainAlways == Spec => []CriticalIsCertain
<1>1. FileIsLines => CriticalIsCertain
  BY CertainFails DEF FileIsLines
<1>2. QED
  BY <1>1, FileStaysLines, PTL

=============================================================================
