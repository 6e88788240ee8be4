------------------------- MODULE ApplyFixes_proofs --------------------------
(***************************************************************************)
(* What apply_fixes_to_file() makes of a file, for any file and findings:  *)
(* sorting, grouping and replacing from the bottom up amount to each line  *)
(* giving way to the one fix that is for it, or staying.                   *)
(***************************************************************************)
EXTENDS ApplyFixes, SequenceTheorems, FiniteSetTheorems, WellFoundedInduction, TLAPS

-----------------------------------------------------------------------------
(* Recursion.                                                              *)

\* A set of numbers has a least one: the sets 1 .. n are well-founded.
LEMMA LeastNumber ==
    ASSUME NEW T, T \subseteq Nat, T # {}
    PROVE  \E m \in T : \A n \in T : m <= n
<1> DEFINE R == StrictSubsetOrdering(Nat)
           W == {1 .. n : n \in T}
<1>1. W \subseteq FiniteSubsetsOf(Nat) /\ W # {}
  <2>1. \A n \in T : 1 .. n \subseteq Nat /\ IsFiniteSet(1 .. n)
    BY FS_Interval
  <2>2. QED
    BY <2>1 DEF FiniteSubsetsOf
<1>2. ASSUME NEW x \in T, NEW y \in T, y < x
      PROVE  <<1 .. y, 1 .. x>> \in R
  <2>1. 1 .. y \subseteq 1 .. x /\ x \in 1 .. x /\ x \notin 1 .. y
    BY <1>2
  <2>2. QED
    BY <2>1 DEF StrictSubsetOrdering
<1>3. PICK x \in W : \A y \in W : ~ (<<y, x>> \in R)
  <2>1. IsWellFoundedOn(R, FiniteSubsetsOf(Nat))
    BY ONLY FS_StrictSubsetOrderingWellFounded
  <2> HIDE DEF R, W
  <2>2. QED
    BY <1>1, <2>1, WFMin
<1>4. PICK m \in T : x = 1 .. m
  BY <1>3
<1>5. \A n \in T : ~ (n < m)
  BY <1>2, <1>3, <1>4
<1>6. QED
  BY <1>5

\* What is true of 0, and of each number if it is true of the one before, is
\* true of all of them.
LEMMA Upwards ==
    ASSUME NEW N \in Nat, NEW P, 0 \in P, \A n \in 1 .. N : n - 1 \in P => n \in P
    PROVE  0 .. N \subseteq P
<1> SUFFICES ASSUME ~ (0 .. N \subseteq P) PROVE FALSE
  OBVIOUS
<1> DEFINE T == {n \in 0 .. N : n \notin P}
<1>1. PICK m \in T : \A n \in T : m <= n
  <2>1. T \subseteq Nat /\ T # {}
    OBVIOUS
  <2> HIDE DEF T
  <2>2. QED
    BY <2>1, LeastNumber
<1>2. m \in 1 .. N /\ m \notin P
  OBVIOUS
<1>3. m - 1 \in P
  <2>1. m - 1 \in 0 .. N /\ ~ (m <= m - 1)
    BY <1>2
  <2>2. QED
    BY <1>1, <2>1
<1>4. QED
  BY <1>2, <1>3

\* f begins with a and goes on as d says.
GoesOn(f, N, a, d) == f[0] = a /\ \A n \in 1 .. N : f[n] = d[<<f[n - 1], n>>]

\* A value for 0 and one for each number, given that of the one before, make a
\* function.
LEMMA Recursion ==
    ASSUME NEW N \in Nat, NEW S, NEW a \in S, NEW d \in [S \X (1 .. N) -> S]
    PROVE  \E f \in [0 .. N -> S] : GoesOn(f, N, a, d)
<1> DEFINE Upto(m) == \E f \in [0 .. m -> S] :
                          f[0] = a /\ \A n \in 1 .. m : f[n] = d[<<f[n - 1], n>>]
           P == {m \in 0 .. N : Upto(m)}
<1>1. Upto(0)
  <2> DEFINE f == [i \in 0 .. 0 |-> a]
  <2>1. f \in [0 .. 0 -> S] /\ f[0] = a /\ 1 .. 0 = {}
    OBVIOUS
  <2> HIDE DEF f
  <2>2. QED
    BY <2>1
<1>2. ASSUME NEW m \in 1 .. N, Upto(m - 1) PROVE Upto(m)
  <2>1. PICK f \in [0 .. m - 1 -> S] :
            f[0] = a /\ \A n \in 1 .. m - 1 : f[n] = d[<<f[n - 1], n>>]
    BY <1>2
  <2> DEFINE v == d[<<f[m - 1], m>>]
             g == [i \in 0 .. m |-> IF i = m THEN v ELSE f[i]]
  <2>2. v \in S
    <3>1. f[m - 1] \in S /\ m \in 1 .. N
      OBVIOUS
    <3>2. QED
      BY <3>1
  <2>3. g \in [0 .. m -> S]
    <3> HIDE DEF v
    <3>1. \A i \in 0 .. m : i # m => f[i] \in S
      OBVIOUS
    <3>2. QED
      BY <2>2, <3>1
  <2>4. g[0] = a
    BY <2>1
  <2>5. ASSUME NEW n \in 1 .. m PROVE g[n] = d[<<g[n - 1], n>>]
    <3>1. g[n - 1] = f[n - 1]
      OBVIOUS
    <3>2. CASE n = m
      <4>1. g[n] = v
        BY <3>2
      <4>2. QED
        BY <3>1, <3>2, <4>1
    <3>3. CASE n # m
      <4>1. g[n] = f[n] /\ n \in 1 .. m - 1
        BY <3>3
      <4> HIDE DEF g
      <4>2. QED
        BY <2>1, <3>1, <4>1
    <3>4. QED
      BY <3>2, <3>3
  <2> HIDE DEF g
  <2>6. QED
    BY <2>3, <2>4, <2>5
<1> HIDE DEF Upto
<1>3. 0 .. N \subseteq P
  <2>1. 0 \in P /\ \A m \in 1 .. N : m - 1 \in P => m \in P
    BY <1>1, <1>2
  <2> HIDE DEF P
  <2>2. QED
    BY <2>1, Upwards
<1>4. Upto(N)
  BY <1>3
<1>5. QED
  BY <1>4 DEF Upto, GoesOn

-----------------------------------------------------------------------------
(* Groups.                                                                 *)

\* A span is not empty.
LEMMA EndOf ==
    ASSUME NEW f, f.line \in Nat, f.end \in Nat
    PROVE  End(f) \in Nat /\ f.line <= End(f)
  BY DEF End

\* Lists of findings.
Spans(s) == Len(s) \in Nat /\ DOMAIN s = 1 .. Len(s)
            /\ \A k \in DOMAIN s : s[k].line \in Nat /\ s[k].end \in Nat

\* group_end, from one finding to the next one.
LEMMA GroupEndOf ==
    ASSUME NEW s, Spans(s)
    PROVE  /\ GroupEnd(s) \in [0 .. Len(s) -> Int]
           /\ GroupEnd(s)[0] = -1
           /\ \A k \in 1 .. Len(s) :
                  GroupEnd(s)[k] =
                      IF s[k].line <= GroupEnd(s)[k - 1] /\ End(s[k]) <= GroupEnd(s)[k - 1]
                      THEN GroupEnd(s)[k - 1] ELSE End(s[k])
<1> DEFINE N == Len(s)
           Step(e, k) == IF s[k].line <= e /\ End(s[k]) <= e THEN e ELSE End(s[k])
           Body(f) == [k \in 0 .. N |-> IF k = 0 THEN -1
                                        ELSE IF s[k].line <= f[k - 1] /\ End(s[k]) <= f[k - 1] THEN f[k - 1]
                                        ELSE End(s[k])]
           d == [z \in Int \X (1 .. N) |-> Step(z[1], z[2])]
           e == GroupEnd(s)
<1>1. N \in Nat /\ \A k \in 1 .. N : End(s[k]) \in Int
  BY EndOf DEF Spans
<1>2. d \in [Int \X (1 .. N) -> Int]
  BY <1>1
<1>3. PICK f \in [0 .. N -> Int] : f[0] = -1 /\ \A k \in 1 .. N : f[k] = d[<<f[k - 1], k>>]
  <2> DEFINE Z == Int
             a == -1
  <2>1. N \in Nat /\ a \in Z /\ d \in [Z \X (1 .. N) -> Z]
    BY <1>1, <1>2
  <2> HIDE DEF d, N, Z, a
  <2>2. \E f \in [0 .. N -> Z] : GoesOn(f, N, a, d)
    BY <2>1, Recursion
  <2>3. QED
    BY <2>2 DEF Z, a, GoesOn
<1>4. f = Body(f)
  <2>1. ASSUME NEW k \in 1 .. N PROVE f[k] = Step(f[k - 1], k)
    <3>1. <<f[k - 1], k>> \in Int \X (1 .. N)
      <4>1. k - 1 \in 0 .. N
        BY <1>1
      <4>2. QED
        BY <4>1
    <3>2. d[<<f[k - 1], k>>] = Step(f[k - 1], k)
      BY <3>1
    <3>3. QED
      BY <1>3, <3>2
  <2>2. QED
    BY <1>1, <1>3, <2>1
<1>5. e = Body(e)
  <2>1. e = CHOOSE g : g = Body(g)
    BY DEF GroupEnd
  <2> HIDE DEF Body, e
  <2>2. QED
    BY <1>4, <2>1
<1>6. e[0] = -1
  <2>1. 0 \in 0 .. N
    BY <1>1
  <2>2. Body(e)[0] = -1
    BY <2>1
  <2> HIDE DEF e, Body
  <2>3. QED
    BY <1>5, <2>2
<1>7. ASSUME NEW k \in 1 .. N PROVE e[k] = Step(e[k - 1], k)
  <2>1. k \in 0 .. N /\ k # 0
    BY <1>1
  <2> HIDE DEF e
  <2>2. Body(e)[k] = Step(e[k - 1], k)
    BY <2>1
  <2> HIDE DEF Body, Step
  <2>3. QED
    BY <1>5, <2>2
<1>8. e \in [0 .. N -> Int]
  <2> DEFINE P == {k \in 0 .. N : e[k] \in Int}
  <2>1. 0 \in P /\ \A k \in 1 .. N : k - 1 \in P => k \in P
    <3> HIDE DEF e
    <3>1. QED
      BY <1>1, <1>6, <1>7
  <2>2. 0 .. N \subseteq P
    <3> HIDE DEF P
    <3>1. QED
      BY <1>1, <2>1, Upwards
  <2>3. DOMAIN e = 0 .. N /\ e = [k \in 0 .. N |-> e[k]]
    <3>1. Body(e) = [k \in 0 .. N |-> Body(e)[k]] /\ DOMAIN Body(e) = 0 .. N
      BY Zenon
    <3> HIDE DEF e, Body
    <3>2. QED
      BY <1>5, <3>1
  <2> HIDE DEF e
  <2>4. QED
    BY <2>2, <2>3
<1> HIDE DEF e
<1>9. QED
  BY <1>6, <1>7, <1>8 DEF e

\* A finding joins a group exactly if one before it reaches down to it.
LEMMA JoinsMeans ==
    ASSUME NEW s, Spans(s), NEW k \in Int
    PROVE  Joins(s, k) <=> /\ k \in DOMAIN s
                           /\ \E j \in 1 .. k - 1 : s[k].line <= End(s[j])
<1> DEFINE N == Len(s)
           e == GroupEnd(s)
           P == {n \in 0 .. N : /\ \A j \in 1 .. n : End(s[j]) <= e[n]
                                /\ n = 0 \/ \E j \in 1 .. n : e[n] = End(s[j])}
<1>1. N \in Nat /\ DOMAIN s = 1 .. N
  BY DEF Spans
<1>2. \A n \in 1 .. N : s[n].line \in Nat /\ End(s[n]) \in Nat /\ s[n].line <= End(s[n])
  BY EndOf DEF Spans
<1>3. /\ e[0] = -1
      /\ \A n \in 1 .. N : e[n] \in Int /\ e[n - 1] \in Int
      /\ \A n \in 1 .. N : e[n] = IF s[n].line <= e[n - 1] /\ End(s[n]) <= e[n - 1]
                                  THEN e[n - 1] ELSE End(s[n])
  <2>1. \A n \in 1 .. N : n \in 0 .. N /\ n - 1 \in 0 .. N
    BY <1>1
  <2>2. QED
    BY <2>1, GroupEndOf
<1> HIDE DEF e, N
<1>4. 0 .. N \subseteq P
  <2>1. 0 \in P
    BY <1>1
  <2>2. ASSUME NEW n \in 1 .. N, n - 1 \in P PROVE n \in P
    <3>1. \A j \in 1 .. n : j \in 1 .. N /\ (j # n => j \in 1 .. n - 1)
      BY <1>1
    <3>2. n - 1 = 0 \/ \E j \in 1 .. n - 1 : e[n - 1] = End(s[j])
      BY <2>2
    <3>3. \A j \in 1 .. n - 1 : End(s[j]) <= e[n - 1]
      BY <2>2
    <3>4. n \in 1 .. n /\ n \in 0 .. N
      BY <1>1
    <3>5. CASE s[n].line <= e[n - 1] /\ End(s[n]) <= e[n - 1]
      <4>1. e[n] = e[n - 1]
        BY <1>3, <3>5
      <4>2. n - 1 # 0
        BY <1>2, <1>3, <3>5
      <4>3. PICK j \in 1 .. n - 1 : e[n - 1] = End(s[j])
        BY <3>2, <4>2
      <4>4. j \in 1 .. n
        OBVIOUS
      <4>5. \A i \in 1 .. n : End(s[i]) <= e[n]
        BY <3>1, <3>3, <3>5, <4>1
      <4>6. QED
        BY <3>4, <4>1, <4>3, <4>4, <4>5
    <3>6. CASE ~ (s[n].line <= e[n - 1] /\ End(s[n]) <= e[n - 1])
      <4>1. e[n] = End(s[n])
        BY <1>3, <3>6
      <4>2. e[n - 1] <= e[n]
        BY <1>2, <1>3, <3>6, <4>1
      <4>3. \A i \in 1 .. n : End(s[i]) <= e[n]
        <5> SUFFICES ASSUME NEW i \in 1 .. n, i # n PROVE End(s[i]) <= e[n]
          BY <1>2, <4>1
        <5>1. End(s[i]) <= e[n - 1] /\ End(s[i]) \in Nat
          BY <1>2, <3>1, <3>3
        <5>2. QED
          BY <1>3, <4>2, <5>1
      <4>4. QED
        BY <3>4, <4>1, <4>3
    <3>7. QED
      BY <3>5, <3>6
  <2> HIDE DEF P
  <2>3. QED
    BY <1>1, <2>1, <2>2, Upwards
<1>5. ASSUME k \in 1 .. N
      PROVE  s[k].line <= e[k - 1] <=> \E j \in 1 .. k - 1 : s[k].line <= End(s[j])
  <2>1. k - 1 \in P
    <3>1. k - 1 \in 0 .. N
      BY <1>1, <1>5
    <3>2. QED
      BY <1>4, <3>1
  <2>2. s[k].line \in Nat /\ e[k - 1] \in Int /\ \A j \in 1 .. k - 1 : End(s[j]) \in Nat
    <3>1. \A j \in 1 .. k - 1 : j \in 1 .. N
      BY <1>1, <1>5
    <3>2. QED
      BY <1>2, <1>3, <1>5, <3>1
  <2>3. CASE k - 1 = 0
    <3>1. e[k - 1] = -1 /\ 1 .. k - 1 = {}
      BY <1>3, <2>3
    <3>2. QED
      BY <2>2, <3>1
  <2>4. CASE k - 1 # 0
    <3>1. PICK j \in 1 .. k - 1 : e[k - 1] = End(s[j])
      BY <2>1, <2>4
    <3>2. \A i \in 1 .. k - 1 : End(s[i]) <= e[k - 1]
      BY <2>1
    <3>3. QED
      BY <2>2, <3>1, <3>2
  <2>5. QED
    BY <2>3, <2>4
<1>6. QED
  BY <1>1, <1>5 DEF Joins, e

\* A list of findings from the top of the file to its bottom.
Sorted(s) == \A j, k \in DOMAIN s : j < k => s[j].line <= s[k].line

\* A finding is alone in its group exactly if it overlaps no other one.
LEMMA SingleMeans ==
    ASSUME NEW s, Spans(s), Sorted(s), NEW k \in DOMAIN s
    PROVE  Single(s, k) <=> \A j \in DOMAIN s \ {k} : ~Overlap(s[k], s[j])
<1> DEFINE N == Len(s)
<1>1. N \in Nat /\ DOMAIN s = 1 .. N /\ k \in 1 .. N
  BY DEF Spans
<1>2. \A n \in 1 .. N : s[n].line \in Nat /\ End(s[n]) \in Nat /\ s[n].line <= End(s[n])
  BY EndOf DEF Spans
<1> HIDE DEF N
<1>3. ASSUME NEW i \in 1 .. N, NEW j \in 1 .. N, i <= j PROVE s[i].line <= s[j].line
  <2>1. s[i].line \in Nat
    BY <1>2
  <2>2. i = j \/ i < j
    BY <1>1, <1>3
  <2>3. i < j => s[i].line <= s[j].line
    BY <1>1 DEF Sorted
  <2>4. QED
    BY <2>1, <2>2, <2>3
<1>4. Joins(s, k) <=> \E j \in 1 .. k - 1 : s[k].line <= End(s[j])
  BY <1>1, JoinsMeans
<1>5. Joins(s, k + 1) <=> /\ k + 1 \in 1 .. N
                          /\ \E j \in 1 .. k : s[k + 1].line <= End(s[j])
  <2>1. k + 1 \in Int /\ (k + 1) - 1 = k
    BY <1>1
  <2>2. QED
    BY <1>1, <2>1, JoinsMeans
<1>6. ASSUME Single(s, k), NEW j \in 1 .. N, j # k PROVE ~Overlap(s[k], s[j])
  <2>1. CASE j < k
    <3>1. j \in 1 .. k - 1
      BY <1>1, <2>1
    <3>2. ~ (s[k].line <= End(s[j]))
      BY <1>4, <1>6, <3>1 DEF Single
    <3>3. QED
      BY <3>2 DEF Overlap
  <2>2. CASE k < j
    <3>1. k + 1 \in 1 .. N /\ k + 1 <= j /\ k \in 1 .. k
      BY <1>1, <2>2
    <3>2. ~ (s[k + 1].line <= End(s[k]))
      BY <1>5, <1>6, <3>1 DEF Single
    <3>3. s[k + 1].line <= s[j].line
      BY <1>3, <3>1
    <3>4. ~ (s[j].line <= End(s[k]))
      <4>1. s[k + 1].line \in Nat /\ s[j].line \in Nat /\ End(s[k]) \in Nat
        BY <1>1, <1>2, <3>1
      <4>2. QED
        BY <3>2, <3>3, <4>1
    <3>5. QED
      BY <3>4 DEF Overlap
  <2>3. QED
    BY <1>1, <1>6, <2>1, <2>2
<1>7. ASSUME \A j \in (1 .. N) \ {k} : ~Overlap(s[k], s[j]) PROVE Single(s, k)
  <2>1. ASSUME NEW j \in 1 .. k - 1 PROVE End(s[j]) < s[k].line
    <3>1. j \in 1 .. N /\ j # k /\ j <= k
      BY <1>1
    <3>2. ~Overlap(s[k], s[j]) /\ s[j].line <= s[k].line
      BY <1>1, <1>3, <1>7, <3>1
    <3>3. /\ s[k].line \in Nat /\ End(s[k]) \in Nat /\ s[k].line <= End(s[k])
          /\ s[j].line \in Nat /\ End(s[j]) \in Nat
      BY <1>1, <1>2, <3>1
    <3>4. QED
      BY <3>2, <3>3 DEF Overlap
  <2>2. ASSUME k + 1 \in 1 .. N PROVE End(s[k]) < s[k + 1].line
    <3>1. ~Overlap(s[k], s[k + 1]) /\ s[k].line <= s[k + 1].line
      BY <1>1, <1>3, <1>7, <2>2
    <3>2. /\ s[k].line \in Nat /\ End(s[k]) \in Nat /\ s[k + 1].line \in Nat
          /\ End(s[k + 1]) \in Nat /\ s[k + 1].line <= End(s[k + 1])
      BY <1>1, <1>2, <2>2
    <3>3. QED
      BY <3>1, <3>2 DEF Overlap
  <2>3. ~Joins(s, k)
    <3> SUFFICES ASSUME NEW j \in 1 .. k - 1, s[k].line <= End(s[j]) PROVE FALSE
      BY <1>4
    <3>1. j \in 1 .. N
      BY <1>1
    <3>2. s[k].line \in Nat /\ End(s[j]) \in Nat
      BY <1>1, <1>2, <3>1
    <3>3. QED
      BY <2>1, <3>2
  <2>4. ~Joins(s, k + 1)
    <3> SUFFICES ASSUME k + 1 \in 1 .. N, NEW j \in 1 .. k, s[k + 1].line <= End(s[j])
                 PROVE  FALSE
      BY <1>5
    <3>1. j \in 1 .. N /\ (j = k \/ j \in 1 .. k - 1)
      BY <1>1
    <3>2. s[k].line <= s[k + 1].line
      BY <1>1, <1>3
    <3>3. End(s[j]) < s[k + 1].line
      <4>1. s[k].line \in Nat /\ s[k + 1].line \in Nat /\ End(s[j]) \in Nat
        BY <1>1, <1>2, <3>1
      <4>2. QED
        BY <2>1, <2>2, <3>1, <3>2, <4>1
    <3>4. QED
      BY <1>2, <3>1, <3>3
  <2>5. QED
    BY <2>3, <2>4 DEF Single
<1>8. QED
  BY <1>1, <1>6, <1>7

-----------------------------------------------------------------------------
(* Sorting.                                                                *)

\* Ordered is a permutation of the fixable findings, in the order of Earlier.
LEMMA OrderedIs ==
    ASSUME NEW fs, AreFindings(fs)
    PROVE  LET s == Ordered(fs)
               N == Cardinality(Fixable(fs))
           IN  /\ N \in Nat /\ Len(s) = N /\ DOMAIN s = 1 .. N
               /\ \E at \in [1 .. N -> Fixable(fs)] :
                      /\ \A k \in 1 .. N : s[k] = fs[at[k]]
                      /\ \A i \in Fixable(fs) : \E k \in 1 .. N : at[k] = i
                      /\ \A j, k \in 1 .. N : j < k => Earlier(fs, at[j], at[k])
<1> DEFINE F == Fixable(fs)
           N == Cardinality(F)
           Upto(i) == {j \in F : j = i \/ Earlier(fs, j, i)}
           place == [i \in F |-> Place(fs, i)]
           at == [k \in 1 .. N |-> CHOOSE i \in F : Place(fs, i) = k]
<1>1. /\ Len(fs) \in Nat /\ F \subseteq 1 .. Len(fs)
      /\ \A i \in F : i \in Nat /\ fs[i].line \in Nat /\ End(fs[i]) \in Nat
  <2>1. Len(fs) \in Nat /\ DOMAIN fs = 1 .. Len(fs)
    BY LenProperties DEF AreFindings, IsSeq
  <2>2. QED
    BY <2>1, EndOf DEF AreFindings, Fixable
<1>2. IsFiniteSet(F) /\ N \in Nat
  <2>1. IsFiniteSet(1 .. Len(fs))
    BY <1>1, FS_Interval
  <2>2. IsFiniteSet(F)
    BY <1>1, <2>1, FS_Subset
  <2>3. QED
    BY <2>2, FS_CardinalityType
<1>3. ASSUME NEW i \in F, NEW j \in F
      PROVE  /\ i = j \/ Earlier(fs, i, j) \/ Earlier(fs, j, i)
             /\ ~ (Earlier(fs, i, j) /\ Earlier(fs, j, i)) /\ ~Earlier(fs, i, i)
             /\ \A k \in F : Earlier(fs, k, i) /\ Earlier(fs, i, j) => Earlier(fs, k, j)
  <2>1. /\ i \in Nat /\ fs[i].line \in Nat /\ End(fs[i]) \in Nat
        /\ j \in Nat /\ fs[j].line \in Nat /\ End(fs[j]) \in Nat
    BY <1>1
  <2>2. i = j \/ Earlier(fs, i, j) \/ Earlier(fs, j, i)
    BY <2>1 DEF Earlier
  <2>3. ~ (Earlier(fs, i, j) /\ Earlier(fs, j, i)) /\ ~Earlier(fs, i, i)
    BY <2>1 DEF Earlier
  <2>4. ASSUME NEW k \in F, Earlier(fs, k, i), Earlier(fs, i, j) PROVE Earlier(fs, k, j)
    <3>1. k \in Nat /\ fs[k].line \in Nat /\ End(fs[k]) \in Nat
      BY <1>1
    <3>2. QED
      BY <2>1, <2>4, <3>1 DEF Earlier
  <2>5. QED
    BY <2>2, <2>3, <2>4
<1>4. ASSUME NEW i \in F
      PROVE  IsFiniteSet(Upto(i)) /\ Place(fs, i) = Cardinality(Upto(i)) /\ Place(fs, i) \in 1 .. N
  <2>1. Upto(i) \in SUBSET F /\ i \in Upto(i)
    OBVIOUS
  <2>2. Place(fs, i) = Cardinality(Upto(i))
    BY DEF Place
  <2> HIDE DEF Upto
  <2>3. IsFiniteSet(Upto(i)) /\ Cardinality(Upto(i)) <= N
    BY <1>2, <2>1, FS_Subset
  <2>4. Cardinality(Upto(i)) \in Nat /\ Cardinality(Upto(i)) # 0
    BY <2>1, <2>3, FS_CardinalityType, FS_EmptySet
  <2>5. QED
    BY <1>2, <2>2, <2>3, <2>4
<1>5. ASSUME NEW i \in F, NEW j \in F, Earlier(fs, i, j) PROVE Place(fs, i) < Place(fs, j)
  <2>1. Upto(i) \in SUBSET Upto(j)
    BY <1>3, <1>5
  <2>2. j \in Upto(j) /\ j \notin Upto(i)
    BY <1>3, <1>5
  <2> HIDE DEF Upto
  <2>3. Cardinality(Upto(i)) <= Cardinality(Upto(j)) /\ Cardinality(Upto(i)) # Cardinality(Upto(j))
    <3>1. IsFiniteSet(Upto(j)) /\ Upto(i) # Upto(j)
      BY <1>4, <2>2
    <3>2. QED
      BY <2>1, <3>1, FS_Subset
  <2>4. QED
    BY <1>4, <2>3
<1>6. \A k \in 1 .. N : \E i \in F : Place(fs, i) = k
  <2>1. place \in [F -> 1 .. N]
    BY <1>4
  <2>2. ASSUME NEW i \in F, NEW j \in F, place[i] = place[j] PROVE i = j
    <3>1. Place(fs, i) = Place(fs, j) /\ Place(fs, i) \in Nat
      <4>1. place[i] = Place(fs, i) /\ place[j] = Place(fs, j)
        OBVIOUS
      <4>2. Place(fs, i) \in 1 .. N
        BY <1>4
      <4> HIDE DEF place, N
      <4>3. Place(fs, i) = Place(fs, j)
        BY <2>2, <4>1, Zenon
      <4>4. Place(fs, i) \in Nat
        BY <1>2, <4>2
      <4>5. QED
        BY <4>3, <4>4
    <3>2. ~Earlier(fs, i, j) /\ ~Earlier(fs, j, i)
      BY <1>5, <3>1
    <3>3. QED
      BY <1>3, <3>2
  <2>3. place \in Injection(F, 1 .. N)
    <3> HIDE DEF place
    <3>1. QED
      BY <2>1, <2>2 DEF Injection, IsInjective
  <2>4. IsFiniteSet(1 .. N) /\ Cardinality(1 .. N) = N
    BY <1>2, FS_Interval
  <2>5. place \in Surjection(F, 1 .. N)
    <3> HIDE DEF place, F
    <3>1. QED
      BY <2>3, <2>4, FS_Injection
  <2>6. \A k \in 1 .. N : \E i \in F : place[i] = k
    <3> HIDE DEF place, F
    <3>1. QED
      BY <2>5 DEF Surjection
  <2>7. QED
    BY <2>6
<1>7. \A k \in 1 .. N : at[k] \in F /\ Place(fs, at[k]) = k
  BY <1>6
<1>8. /\ at \in [1 .. N -> F]
      /\ \A k \in 1 .. N : Ordered(fs)[k] = fs[at[k]]
      /\ DOMAIN Ordered(fs) = 1 .. N
  BY <1>7 DEF Ordered
<1>9. Len(Ordered(fs)) = N
  BY <1>2, <1>8
<1> HIDE DEF at, F, N
<1>10. ASSUME NEW i \in F PROVE \E k \in 1 .. N : at[k] = i
  <2>1. Place(fs, i) \in 1 .. N
    BY <1>4
  <2>2. at[Place(fs, i)] = i
    BY <1>3, <1>4, <1>5, <1>7, <2>1
  <2>3. QED
    BY <2>1, <2>2
<1>11. ASSUME NEW j \in 1 .. N, NEW k \in 1 .. N, j < k PROVE Earlier(fs, at[j], at[k])
  <2>1. at[j] # at[k] /\ ~Earlier(fs, at[k], at[j])
    BY <1>2, <1>5, <1>7, <1>11
  <2>2. QED
    BY <1>3, <1>7, <2>1
<1>12. QED
  BY <1>2, <1>8, <1>9, <1>10, <1>11 DEF F, N

-----------------------------------------------------------------------------
(* Line by line.                                                           *)

\* The lines there are and those the fixes bring.
AnyLine(lines, fs) ==
    {lines[i] : i \in DOMAIN lines}
        \cup UNION {{fs[k].fix[i] : i \in DOMAIN fs[k].fix} : k \in Fixable(fs)}

\* A file and the fixes for it are made of them.
LEMMA LineTypes ==
    ASSUME NEW lines, IsSeq(lines), NEW fs, AreFindings(fs)
    PROVE  /\ lines \in Seq(AnyLine(lines, fs))
           /\ \A k \in Fixable(fs) : fs[k].fix \in Seq(AnyLine(lines, fs))
<1> DEFINE T == AnyLine(lines, fs)
<1>1. lines \in Seq(T)
  <2>1. {lines[i] : i \in DOMAIN lines} \subseteq T
    BY DEF AnyLine
  <2> HIDE DEF T
  <2>2. QED
    BY <2>1, SeqMonotonic DEF IsSeq
<1>2. ASSUME NEW k \in Fixable(fs) PROVE fs[k].fix \in Seq(T)
  <2>1. {fs[k].fix[i] : i \in DOMAIN fs[k].fix} \subseteq T
    BY DEF AnyLine
  <2>2. IsSeq(fs[k].fix)
    BY DEF AreFindings, Fixable
  <2> HIDE DEF T
  <2>3. QED
    BY <2>1, <2>2, SeqMonotonic DEF IsSeq
<1>3. QED
  BY <1>1, <1>2

\* What makes a finding undisputed: its range is in the file and no other one's.
LEMMA UndisputedIs ==
    ASSUME NEW lines, NEW fs, AreFindings(fs), NEW i \in Undisputed(lines, fs)
    PROVE  /\ i \in Fixable(fs) /\ fs[i].line \in Nat \ {0} /\ End(fs[i]) \in Nat
           /\ fs[i].line <= End(fs[i]) /\ End(fs[i]) <= Len(lines)
           /\ \A j \in Fixable(fs) : ~Overlap(fs[i], fs[j]) \/ i = j
<1>1. i \in Fixable(fs) /\ 0 < fs[i].line /\ End(fs[i]) <= Len(lines)
      /\ \A j \in Fixable(fs) : ~Overlap(fs[i], fs[j]) \/ i = j
  BY DEF Undisputed
<1>2. fs[i].line \in Nat /\ fs[i].end \in Nat
  BY <1>1 DEF Fixable, AreFindings
<1>3. QED
  BY <1>1, <1>2, EndOf

\* What comes of a line.
LEMMA InsteadIs ==
    ASSUME NEW lines, IsSeq(lines), NEW fs, AreFindings(fs), NEW n \in 1 .. Len(lines)
    PROVE  /\ Instead(lines, fs, n) \in Seq(AnyLine(lines, fs))
           /\ (\A i \in Undisputed(lines, fs) : n < fs[i].line \/ End(fs[i]) < n) =>
                  Instead(lines, fs, n) = <<lines[n]>>
           /\ \A i \in Undisputed(lines, fs) : fs[i].line <= n /\ n <= End(fs[i]) =>
                  Instead(lines, fs, n) = IF fs[i].line = n THEN fs[i].fix ELSE << >>
<1> DEFINE T == AnyLine(lines, fs)
           U == Undisputed(lines, fs)
           fixes == {i \in U : fs[i].line <= n /\ n <= End(fs[i])}
           In == Instead(lines, fs, n)
<1>1. ASSUME fixes = {} PROVE In = <<lines[n]>>
  BY <1>1 DEF Instead
<1>2. ASSUME NEW i \in fixes
      PROVE  In = IF fs[i].line = n THEN fs[i].fix ELSE << >>
  <2>1. \A j \in fixes : j = i
    <3> SUFFICES ASSUME NEW j \in fixes PROVE j = i
      OBVIOUS
    <3>1. /\ fs[i].line \in Nat /\ End(fs[i]) \in Nat /\ j \in Fixable(fs)
          /\ fs[j].line \in Nat /\ End(fs[j]) \in Nat
          /\ ~Overlap(fs[i], fs[j]) \/ i = j
      BY UndisputedIs
    <3>2. /\ fs[i].line <= n /\ n <= End(fs[i]) /\ fs[j].line <= n /\ n <= End(fs[j])
          /\ n \in Int
      OBVIOUS
    <3>3. fs[i].line <= End(fs[j]) /\ fs[j].line <= End(fs[i])
      <4> DEFINE a == fs[i].line
                 b == End(fs[i])
                 c == fs[j].line
                 e == End(fs[j])
      <4>1. a \in Int /\ b \in Int /\ c \in Int /\ e \in Int /\ n \in Int
        BY <3>1, <3>2
      <4>2. a <= n /\ n <= b /\ c <= n /\ n <= e
        BY <3>2
      <4> HIDE DEF a, b, c, e
      <4>3. a <= e /\ c <= b
        BY <4>1, <4>2
      <4>4. QED
        BY <4>3 DEF a, b, c, e
    <3>4. QED
      BY <3>1, <3>3 DEF Overlap
  <2>2. fixes # {} /\ (CHOOSE j \in fixes : TRUE) = i
    BY <2>1
  <2>3. QED
    BY <2>2 DEF Instead
<1>3. ASSUME \A i \in U : n < fs[i].line \/ End(fs[i]) < n PROVE fixes = {}
  <2> SUFFICES ASSUME NEW i \in fixes PROVE FALSE
    OBVIOUS
  <2>1. fs[i].line \in Nat /\ End(fs[i]) \in Nat /\ fs[i].line <= n /\ n <= End(fs[i])
    BY UndisputedIs
  <2>2. QED
    BY <1>3, <2>1
<1>4. In \in Seq(T)
  <2>1. <<lines[n]>> \in Seq(T)
    <3>1. lines \in Seq(T)
      BY LineTypes
    <3> HIDE DEF T
    <3>2. lines[n] \in T
      BY <3>1, ElementOfSeq
    <3>3. QED
      BY <3>2
  <2>2. ASSUME NEW i \in fixes PROVE In \in Seq(T)
    <3>1. fs[i].fix \in Seq(T)
      BY LineTypes, UndisputedIs
    <3> HIDE DEF T, In
    <3>2. << >> \in Seq(T)
      BY EmptySeq
    <3>3. QED
      BY <1>2, <3>1, <3>2
  <2>3. CASE fixes = {}
    <3> HIDE DEF T, In, fixes
    <3>1. QED
      BY <1>1, <2>1, <2>3
  <2>4. QED
    BY <2>2, <2>3
<1> HIDE DEF T, In
<1>5. QED
  BY <1>1, <1>2, <1>3, <1>4 DEF T, In

\* The loops of Intended, ...
IntendedBy(lines, fs, last) ==
    /\ last[0] = << >>
    /\ \A n \in 1 .. Len(lines) :
           last[n] = Instead(lines, fs, Len(lines) + 1 - n) \o last[n - 1]

LEMMA IntendedIs ==
    ASSUME NEW lines, IsSeq(lines), NEW fs, AreFindings(fs)
    PROVE  \E last \in [0 .. Len(lines) -> Seq(AnyLine(lines, fs))] :
               IntendedBy(lines, fs, last) /\ Intended(lines, fs) = last[Len(lines)]
<1> DEFINE N == Len(lines)
           S == Seq(AnyLine(lines, fs))
           Step(rest, n) == Instead(lines, fs, N + 1 - n) \o rest
           Body(f) == [n \in 0 .. N |-> IF n = 0 THEN << >>
                                        ELSE Instead(lines, fs, N + 1 - n) \o f[n - 1]]
           d == [z \in S \X (1 .. N) |-> Step(z[1], z[2])]
           last == CHOOSE f : f = Body(f)
           first == << >>
<1>1. N \in Nat
  BY LenProperties DEF IsSeq
<1>2. d \in [S \X (1 .. N) -> S]
  <2>1. ASSUME NEW rest \in S, NEW n \in 1 .. N PROVE Step(rest, n) \in S
    <3>1. N + 1 - n \in 1 .. N
      BY <1>1
    <3>2. Instead(lines, fs, N + 1 - n) \in S
      BY <3>1, InsteadIs
    <3>3. QED
      BY <3>2, ConcatProperties
  <2> HIDE DEF S, Step, N
  <2>2. QED
    BY <2>1
<1>3. first \in S
  BY EmptySeq
<1>4. PICK f \in [0 .. N -> S] : GoesOn(f, N, first, d)
  <2> HIDE DEF N, S, d, first
  <2>1. QED
    BY <1>1, <1>2, <1>3, Recursion
<1>5. f = Body(f)
  <2>1. ASSUME NEW n \in 1 .. N PROVE f[n] = Step(f[n - 1], n)
    <3>1. <<f[n - 1], n>> \in S \X (1 .. N)
      <4>1. n - 1 \in 0 .. N
        BY <1>1
      <4> HIDE DEF S, N
      <4>2. QED
        BY <4>1
    <3>2. d[<<f[n - 1], n>>] = Step(f[n - 1], n)
      <4> HIDE DEF S, N, Step
      <4>1. QED
        BY <3>1
    <3>3. QED
      BY <1>4, <3>2 DEF GoesOn
  <2>2. f \in [0 .. N -> S] /\ f[0] = << >>
    BY <1>4 DEF GoesOn
  <2>3. \A n \in 0 .. N : n # 0 => n \in 1 .. N
    BY <1>1
  <2> HIDE DEF N, S
  <2>4. \A n \in 0 .. N :
            f[n] = IF n = 0 THEN << >> ELSE Instead(lines, fs, N + 1 - n) \o f[n - 1]
    BY <2>1, <2>2, <2>3
  <2>5. QED
    BY <2>2, <2>4
<1>6. last = Body(last)
  <2> HIDE DEF Body
  <2>1. QED
    BY <1>5
<1>7. Intended(lines, fs) = last[N]
  BY DEF Intended
<1>8. last \in [0 .. N -> S] /\ IntendedBy(lines, fs, last)
  <2> HIDE DEF last
  <2>1. last[0] = << >>
    <3>1. 0 \in 0 .. N
      BY <1>1
    <3>2. Body(last)[0] = << >>
      BY <3>1
    <3> HIDE DEF Body
    <3>3. QED
      BY <1>6, <3>2
  <2>2. ASSUME NEW n \in 1 .. N PROVE last[n] = Step(last[n - 1], n)
    <3>1. n \in 0 .. N /\ n # 0
      BY <1>1
    <3>2. Body(last)[n] = Step(last[n - 1], n)
      BY <3>1
    <3> HIDE DEF Body, Step
    <3>3. QED
      BY <1>6, <3>2
  <2>3. last = [n \in 0 .. N |-> last[n]]
    <3>1. Body(last) = [n \in 0 .. N |-> Body(last)[n]]
      BY Zenon
    <3> HIDE DEF Body
    <3>2. QED
      BY <1>6, <3>1
  <2> DEFINE P == {n \in 0 .. N : last[n] \in S}
  <2>4. 0 .. N \subseteq P
    <3>1. 0 \in P
      BY <1>1, <1>3, <2>1
    <3>2. ASSUME NEW n \in 1 .. N, n - 1 \in P PROVE n \in P
      <4>1. N + 1 - n \in 1 .. N /\ n \in 0 .. N /\ last[n - 1] \in S
        BY <1>1, <3>2
      <4>2. Instead(lines, fs, N + 1 - n) \in S
        BY <4>1, InsteadIs
      <4>3. last[n] \in S
        BY <2>2, <4>1, <4>2, ConcatProperties
      <4>4. QED
        BY <4>1, <4>3
    <3> HIDE DEF P
    <3>3. QED
      BY <1>1, <3>1, <3>2, Upwards
  <2>5. QED
    <3>1. \A n \in 0 .. N : last[n] \in S
      BY <2>4
    <3> HIDE DEF S, P
    <3>2. last \in [0 .. N -> S]
      BY <2>3, <3>1
    <3>3. QED
      BY <2>1, <2>2, <3>2 DEF IntendedBy
<1> HIDE DEF last
<1>9. QED
  BY <1>7, <1>8

\* A patched file: its lines, and what has been applied to it.
Outcomes(lines, fs) == [lines : Seq(AnyLine(lines, fs)), applied : Seq({fs[i] : i \in DOMAIN fs})]

\* A replacement makes another one of it.
LEMMA ReplaceType ==
    ASSUME NEW T, NEW E, NEW f \in E, f.line \in Nat, f.end \in Nat, f.fix \in Seq(T),
           NEW file \in [lines : Seq(T), applied : Seq(E)]
    PROVE  Replace(f, file) \in [lines : Seq(T), applied : Seq(E)]
<1> DEFINE L == file.lines
           head == SubSeq(L, 1, f.line - 1)
           tail == SubSeq(L, End(f) + 1, Len(L))
           new == [lines |-> head \o f.fix \o tail, applied |-> Append(file.applied, f)]
<1>1. L \in Seq(T) /\ Len(L) \in Nat /\ file.applied \in Seq(E) /\ End(f) \in Nat
      /\ f.line <= End(f)
  BY LenProperties, EndOf
<1>2. CASE 0 < f.line /\ f.line <= Len(L) /\ End(f) <= Len(L)
  <2>1. \A i \in 1 .. Len(L) : L[i] \in T
    BY <1>1, ElementOfSeq
  <2>2. head \in Seq(T)
    <3>1. \A i \in 1 .. f.line - 1 : L[i] \in T
      BY <1>1, <1>2, <2>1
    <3> HIDE DEF L
    <3>2. QED
      BY <3>1, SubSeqProperties
  <2>3. tail \in Seq(T)
    <3>1. \A i \in End(f) + 1 .. Len(L) : L[i] \in T
      BY <1>1, <1>2, <2>1
    <3>2. End(f) + 1 \in Int /\ Len(L) \in Int
      BY <1>1
    <3> HIDE DEF L
    <3>3. QED
      BY <3>1, <3>2, SubSeqProperties
  <2>4. head \o f.fix \o tail \in Seq(T)
    <3> HIDE DEF head, tail
    <3>1. head \o f.fix \in Seq(T)
      BY <2>2, ConcatProperties
    <3>2. QED
      BY <2>3, <3>1, ConcatProperties
  <2>5. Append(file.applied, f) \in Seq(E)
    BY <1>1, AppendProperties
  <2>6. Replace(f, file) = new
    BY <1>2 DEF Replace
  <2> DEFINE x == head \o f.fix \o tail
             y == Append(file.applied, f)
  <2> HIDE DEF x, y
  <2>7. [lines |-> x, applied |-> y] \in [lines : Seq(T), applied : Seq(E)]
    BY <2>4, <2>5 DEF x, y
  <2>8. QED
    BY <2>6, <2>7 DEF x, y
<1>3. CASE ~ (0 < f.line /\ f.line <= Len(L) /\ End(f) <= Len(L))
  BY <1>3 DEF Replace
<1>4. QED
  BY <1>2, <1>3

\* ... and of Patch.
PatchedBy(lines, s, file) ==
    /\ file[0] = [lines |-> lines, applied |-> << >>]
    /\ \A n \in 1 .. Len(s) :
           file[n] = IF Single(s, Len(s) + 1 - n) THEN Replace(s[Len(s) + 1 - n], file[n - 1])
                                                  ELSE file[n - 1]

LEMMA PatchIs ==
    ASSUME NEW lines, IsSeq(lines), NEW fs, AreFindings(fs)
    PROVE  \E file \in [0 .. Len(Ordered(fs)) -> Outcomes(lines, fs)] :
               /\ PatchedBy(lines, Ordered(fs), file)
               /\ Patch(lines, fs) = file[Len(Ordered(fs))]
<1> DEFINE s == Ordered(fs)
           N == Len(s)
           S == Outcomes(lines, fs)
           Step(was, n) == IF Single(s, N + 1 - n) THEN Replace(s[N + 1 - n], was) ELSE was
           first == [lines |-> lines, applied |-> << >>]
           Body(f) == [n \in 0 .. N |-> IF n = 0 THEN [lines |-> lines, applied |-> << >>]
                                        ELSE LET k == N + 1 - n
                                             IN  IF Single(s, k) THEN Replace(s[k], f[n - 1])
                                                                 ELSE f[n - 1]]
           d == [z \in S \X (1 .. N) |-> Step(z[1], z[2])]
           file == CHOOSE f : f = Body(f)
<1>1. N \in Nat /\ \A k \in 1 .. N : \E i \in Fixable(fs) : s[k] = fs[i]
  <2>1. PICK at \in [1 .. N -> Fixable(fs)] : \A k \in 1 .. N : s[k] = fs[at[k]]
    <3> HIDE DEF s
    <3>1. QED
      BY OrderedIs DEF s
  <2>2. N \in Nat
    BY OrderedIs
  <2> HIDE DEF s, N
  <2>3. QED
    BY <2>1, <2>2
<1>2. ASSUME NEW was \in S, NEW n \in 1 .. N PROVE Step(was, n) \in S
  <2>1. N + 1 - n \in 1 .. N
    BY <1>1
  <2>2. PICK i \in Fixable(fs) : s[N + 1 - n] = fs[i]
    BY <1>1, <2>1
  <2>3. /\ fs[i] \in {fs[j] : j \in DOMAIN fs} /\ fs[i].fix \in Seq(AnyLine(lines, fs))
        /\ fs[i].line \in Nat /\ fs[i].end \in Nat
    BY LineTypes DEF AreFindings, Fixable
  <2>4. Replace(fs[i], was) \in S
    <3> DEFINE T == AnyLine(lines, fs)
               E == {fs[j] : j \in DOMAIN fs}
               e == fs[i]
    <3>1. was \in [lines : Seq(T), applied : Seq(E)]
      BY DEF Outcomes
    <3>2. e \in E /\ e.line \in Nat /\ e.end \in Nat /\ e.fix \in Seq(T)
      BY <2>3
    <3> HIDE DEF S, T, E, e
    <3>3. Replace(e, was) \in [lines : Seq(T), applied : Seq(E)]
      BY <3>1, <3>2, ReplaceType
    <3>4. QED
      BY <3>3 DEF S, T, E, e, Outcomes
  <2> HIDE DEF S, s, N
  <2>5. QED
    BY <2>2, <2>4
<1>3. d \in [S \X (1 .. N) -> S]
  <2> HIDE DEF S, Step, N
  <2>1. QED
    BY <1>2
<1>4. first \in S
  <2> DEFINE none == << >>
  <2>1. lines \in Seq(AnyLine(lines, fs)) /\ none \in Seq({fs[i] : i \in DOMAIN fs})
    BY LineTypes, EmptySeq
  <2> HIDE DEF none
  <2>2. [lines |-> lines, applied |-> none] \in S
    BY <2>1 DEF Outcomes
  <2>3. QED
    BY <2>2 DEF none
<1>5. PICK f \in [0 .. N -> S] : GoesOn(f, N, first, d)
  <2> HIDE DEF N, S, d, first
  <2>1. QED
    BY <1>1, <1>3, <1>4, Recursion
<1>6. f = Body(f)
  <2>1. ASSUME NEW n \in 1 .. N PROVE f[n] = Step(f[n - 1], n)
    <3>1. <<f[n - 1], n>> \in S \X (1 .. N)
      <4>1. n - 1 \in 0 .. N
        BY <1>1
      <4> HIDE DEF S, N
      <4>2. QED
        BY <4>1
    <3>2. d[<<f[n - 1], n>>] = Step(f[n - 1], n)
      <4> HIDE DEF S, N, Step
      <4>1. QED
        BY <3>1
    <3>3. QED
      BY <1>5, <3>2 DEF GoesOn
  <2>2. f \in [0 .. N -> S] /\ f[0] = first
    BY <1>5 DEF GoesOn
  <2>3. \A n \in 0 .. N : n # 0 => n \in 1 .. N
    BY <1>1
  <2>4. \A n \in 0 .. N : f[n] = IF n = 0 THEN first ELSE Step(f[n - 1], n)
    <3> HIDE DEF N, S, s, first, Step
    <3>1. QED
      BY <2>1, <2>2, <2>3
  <2> HIDE DEF N, S, s
  <2>5. QED
    BY <2>2, <2>4
<1>7. file = Body(file)
  <2> HIDE DEF Body
  <2>1. QED
    BY <1>6
<1>8. Patch(lines, fs) = file[N]
  BY DEF Patch
<1>9. file \in [0 .. N -> S] /\ PatchedBy(lines, s, file)
  <2> HIDE DEF file
  <2>1. file[0] = first
    <3>1. 0 \in 0 .. N
      BY <1>1
    <3>2. Body(file)[0] = first
      BY <3>1
    <3> HIDE DEF Body
    <3>3. QED
      BY <1>7, <3>2
  <2>2. ASSUME NEW n \in 1 .. N PROVE file[n] = Step(file[n - 1], n)
    <3>1. n \in 0 .. N /\ n # 0
      BY <1>1
    <3>2. Body(file)[n] = Step(file[n - 1], n)
      BY <3>1
    <3> HIDE DEF Body, Step
    <3>3. QED
      BY <1>7, <3>2
  <2>3. file = [n \in 0 .. N |-> file[n]]
    <3>1. Body(file) = [n \in 0 .. N |-> Body(file)[n]]
      BY Zenon
    <3> HIDE DEF Body
    <3>2. QED
      BY <1>7, <3>1
  <2> DEFINE P == {n \in 0 .. N : file[n] \in S}
  <2>4. 0 .. N \subseteq P
    <3>1. 0 \in P
      <4> HIDE DEF S, N, first
      <4>1. QED
        BY <1>1, <1>4, <2>1
    <3>2. ASSUME NEW n \in 1 .. N, n - 1 \in P PROVE n \in P
      <4>1. n \in 0 .. N /\ file[n - 1] \in S
        BY <1>1, <3>2
      <4> HIDE DEF S, N, Step
      <4>2. QED
        BY <1>2, <2>2, <4>1
    <3> HIDE DEF P
    <3>3. QED
      BY <1>1, <3>1, <3>2, Upwards
  <2>5. QED
    <3>1. \A n \in 0 .. N : file[n] \in S
      BY <2>4
    <3> HIDE DEF S, P, s
    <3>2. file \in [0 .. N -> S]
      BY <2>3, <3>1
    <3>3. QED
      BY <2>1, <2>2, <3>2 DEF PatchedBy
<1> HIDE DEF file
<1>10. QED
  BY <1>8, <1>9

-----------------------------------------------------------------------------
(* From the bottom to the top.                                             *)

\* What comes of the lines from the n-th one on.
From(lines, last, n) == last[Len(lines) + 1 - n]

LEMMA FromIs ==
    ASSUME NEW lines, IsSeq(lines), NEW fs, AreFindings(fs),
           NEW last \in [0 .. Len(lines) -> Seq(AnyLine(lines, fs))], IntendedBy(lines, fs, last)
    PROVE  /\ From(lines, last, Len(lines) + 1) = << >>
           /\ \A n \in 1 .. Len(lines) + 1 : From(lines, last, n) \in Seq(AnyLine(lines, fs))
           /\ \A n \in 1 .. Len(lines) :
                  From(lines, last, n) = Instead(lines, fs, n) \o From(lines, last, n + 1)
<1> DEFINE N == Len(lines)
           S == Seq(AnyLine(lines, fs))
<1>1. N \in Nat
  BY LenProperties DEF IsSeq
<1>2. From(lines, last, N + 1) = << >>
  <2>1. N + 1 - (N + 1) = 0
    BY <1>1
  <2>2. QED
    BY <2>1 DEF From, IntendedBy
<1>3. ASSUME NEW n \in 1 .. N + 1 PROVE From(lines, last, n) \in S
  <2>1. N + 1 - n \in 0 .. N
    BY <1>1
  <2> HIDE DEF S
  <2>2. QED
    BY <2>1 DEF From
<1>4. ASSUME NEW n \in 1 .. N
      PROVE  From(lines, last, n) = Instead(lines, fs, n) \o From(lines, last, n + 1)
  <2>1. /\ N + 1 - n \in 1 .. N /\ N + 1 - (N + 1 - n) = n
        /\ (N + 1 - n) - 1 = N + 1 - (n + 1)
    BY <1>1
  <2>2. last[N + 1 - n] =
            Instead(lines, fs, N + 1 - (N + 1 - n)) \o last[(N + 1 - n) - 1]
    BY <2>1 DEF IntendedBy
  <2>3. QED
    BY <2>1, <2>2 DEF From
<1>5. QED
  BY <1>2, <1>3, <1>4

\* Lines that no fix is for stay as they are, ...
LEMMA LinesStay ==
    ASSUME NEW lines, IsSeq(lines), NEW fs, AreFindings(fs),
           NEW last \in [0 .. Len(lines) -> Seq(AnyLine(lines, fs))], IntendedBy(lines, fs, last),
           NEW b \in 1 .. Len(lines) + 1, NEW c \in b .. Len(lines) + 1,
           \A i \in Undisputed(lines, fs) : c <= fs[i].line \/ End(fs[i]) < b
    PROVE  From(lines, last, b) = SubSeq(lines, b, c - 1) \o From(lines, last, c)
<1> DEFINE N == Len(lines)
           T == AnyLine(lines, fs)
           Stay(n) == From(lines, last, n) = SubSeq(lines, n, c - 1) \o From(lines, last, c)
           P == {m \in 0 .. c - b : Stay(c - m)}
<1>1. N \in Nat /\ lines \in Seq(T) /\ b \in Nat /\ c \in Nat /\ b <= c /\ c <= N + 1 /\ 1 <= b
  BY LenProperties, LineTypes DEF IsSeq
<1>2. 0 \in P
  <2>1. SubSeq(lines, c, c - 1) = << >>
    BY <1>1, SubSeqEmpty
  <2>2. From(lines, last, c) \in Seq(T)
    BY FromIs
  <2>3. << >> \o From(lines, last, c) = From(lines, last, c)
    <3> HIDE DEF T
    <3>1. QED
      BY <2>2, ConcatEmptySeq
  <2>4. c - 0 = c /\ 0 \in 0 .. c - b
    BY <1>1
  <2>5. QED
    BY <2>1, <2>3, <2>4
<1>3. ASSUME NEW m \in 1 .. c - b, m - 1 \in P PROVE m \in P
  <2> DEFINE n == c - m
             rest == SubSeq(lines, n + 1, c - 1)
  <2>1. n \in b .. c - 1 /\ n \in 1 .. N /\ c - (m - 1) = n + 1 /\ n + 1 \in 1 .. N + 1
        /\ c - 1 \in n .. N /\ m \in 0 .. c - b
    BY <1>1
  <2>2. From(lines, last, n + 1) = rest \o From(lines, last, c)
    BY <1>3, <2>1
  <2>3. From(lines, last, n) = Instead(lines, fs, n) \o From(lines, last, n + 1)
    BY <2>1, FromIs
  <2>4. Instead(lines, fs, n) = <<lines[n]>>
    <3>1. ASSUME NEW i \in Undisputed(lines, fs) PROVE n < fs[i].line \/ End(fs[i]) < n
      <4>1. fs[i].line \in Nat /\ End(fs[i]) \in Nat
        BY UndisputedIs
      <4>2. c <= fs[i].line \/ End(fs[i]) < b
        OBVIOUS
      <4>3. n \in Int /\ b <= n /\ n < c
        BY <1>1, <2>1
      <4> DEFINE l == fs[i].line
                 e == End(fs[i])
      <4>4. l \in Int /\ e \in Int /\ (c <= l \/ e < b)
        BY <4>1, <4>2
      <4> HIDE DEF n, l, e
      <4>5. n < l \/ e < n
        BY <1>1, <4>3, <4>4
      <4>6. QED
        BY <4>5 DEF l, e
    <3> HIDE DEF n
    <3>2. QED
      BY <2>1, <3>1, InsteadIs
  <2>5. SubSeq(lines, n, c - 1) = <<lines[n]>> \o rest
    <3> HIDE DEF n, T
    <3>1. QED
      BY <1>1, <2>1, SubSeqRecursiveFirst DEF rest
  <2>6. <<lines[n]>> \in Seq(T) /\ rest \in Seq(T) /\ From(lines, last, c) \in Seq(T)
    <3> HIDE DEF n, T
    <3>1. lines[n] \in T
      BY <1>1, <2>1, ElementOfSeq
    <3>2. \A i \in n + 1 .. c - 1 : lines[i] \in T
      BY <1>1, <2>1, ElementOfSeq
    <3>3. rest \in Seq(T)
      <4>1. n + 1 \in Int /\ c - 1 \in Int
        BY <1>1, <2>1
      <4>2. QED
        BY <3>2, <4>1, SubSeqProperties DEF rest
    <3>4. From(lines, last, c) \in Seq(T)
      BY FromIs DEF T
    <3>5. QED
      BY <3>1, <3>3, <3>4
  <2>7. (<<lines[n]>> \o rest) \o From(lines, last, c)
            = <<lines[n]>> \o (rest \o From(lines, last, c))
    <3> HIDE DEF n, T, rest
    <3>1. QED
      BY <2>6, ConcatAssociative
  <2>8. Stay(n)
    <3> HIDE DEF n, rest
    <3>1. QED
      BY <2>2, <2>3, <2>4, <2>5, <2>7
  <2>9. QED
    BY <2>1, <2>8
<1>4. 0 .. c - b \subseteq P
  <2> HIDE DEF P
  <2>1. c - b \in Nat
    BY <1>1
  <2>2. QED
    BY <1>2, <1>3, <2>1, Upwards
<1>5. c - b \in 0 .. c - b /\ c - (c - b) = b
  BY <1>1
<1>6. QED
  BY <1>4, <1>5

\* ... and those one is for give way to it.
LEMMA LinesGiveWay ==
    ASSUME NEW lines, IsSeq(lines), NEW fs, AreFindings(fs),
           NEW last \in [0 .. Len(lines) -> Seq(AnyLine(lines, fs))], IntendedBy(lines, fs, last),
           NEW i \in Undisputed(lines, fs)
    PROVE  From(lines, last, fs[i].line) = fs[i].fix \o From(lines, last, End(fs[i]) + 1)
<1> DEFINE N == Len(lines)
           T == AnyLine(lines, fs)
           l == fs[i].line
           e == End(fs[i])
           P == {m \in 0 .. e - l : From(lines, last, e + 1 - m) = From(lines, last, e + 1)}
<1>1. /\ N \in Nat /\ l \in Nat /\ e \in Nat /\ 1 <= l /\ l <= e /\ e <= N
  BY LenProperties, UndisputedIs DEF IsSeq
<1> HIDE DEF l, e
<1>2. 0 \in P
  BY <1>1
<1>3. ASSUME NEW m \in 1 .. e - l, m - 1 \in P PROVE m \in P
  <2> DEFINE n == e + 1 - m
  <2>1. n \in 1 .. N /\ l < n /\ n <= e /\ e + 1 - (m - 1) = n + 1 /\ m \in 0 .. e - l
        /\ n + 1 \in 1 .. N + 1 /\ n # l
    BY <1>1
  <2>2. From(lines, last, n + 1) = From(lines, last, e + 1)
    BY <1>3, <2>1
  <2>3. Instead(lines, fs, n) = << >>
    <3>1. fs[i].line <= n /\ n <= End(fs[i]) /\ fs[i].line # n
      BY <1>1, <2>1 DEF l, e
    <3> HIDE DEF n
    <3>2. QED
      BY <2>1, <3>1, InsteadIs
  <2>4. From(lines, last, n) = Instead(lines, fs, n) \o From(lines, last, n + 1)
    BY <2>1, FromIs
  <2>5. << >> \o From(lines, last, n + 1) = From(lines, last, n + 1)
    <3> HIDE DEF n
    <3>1. From(lines, last, n + 1) \in Seq(T)
      BY <2>1, FromIs
    <3> HIDE DEF T
    <3>2. QED
      BY <3>1, ConcatEmptySeq
  <2>6. From(lines, last, n) = From(lines, last, e + 1)
    <3> HIDE DEF n
    <3>1. QED
      BY <2>2, <2>3, <2>4, <2>5
  <2>7. QED
    BY <2>1, <2>6
<1>4. 0 .. e - l \subseteq P
  <2> HIDE DEF P
  <2>1. e - l \in Nat
    BY <1>1
  <2>2. QED
    BY <1>2, <1>3, <2>1, Upwards
<1>5. From(lines, last, l + 1) = From(lines, last, e + 1)
  <2>1. e - l \in 0 .. e - l /\ e + 1 - (e - l) = l + 1
    BY <1>1
  <2>2. QED
    BY <1>4, <2>1
<1>6. From(lines, last, l) = Instead(lines, fs, l) \o From(lines, last, l + 1)
  <2>1. l \in 1 .. N
    BY <1>1
  <2>2. QED
    BY <2>1, FromIs
<1>7. Instead(lines, fs, l) = fs[i].fix
  <2>1. l \in 1 .. N /\ l <= e
    BY <1>1
  <2>2. QED
    BY <2>1, InsteadIs DEF l, e
<1>8. QED
  BY <1>5, <1>6, <1>7 DEF l, e

\* What at says of the order s of the findings fs: where each of them comes from.
Sorts(at, fs, s) ==
    /\ at \in [1 .. Len(s) -> Fixable(fs)]
    /\ \A k \in 1 .. Len(s) : s[k] = fs[at[k]]
    /\ \A i \in Fixable(fs) : \E k \in 1 .. Len(s) : at[k] = i
    /\ \A j, k \in 1 .. Len(s) : at[j] = at[k] => j = k

LEMMA OrderedSorts ==
    ASSUME NEW fs, AreFindings(fs)
    PROVE  /\ Spans(Ordered(fs)) /\ Sorted(Ordered(fs))
           /\ \E at : Sorts(at, fs, Ordered(fs))
<1> DEFINE s == Ordered(fs)
           N == Len(s)
<1>1. N \in Nat /\ DOMAIN s = 1 .. N
  BY OrderedIs
<1>2. PICK at \in [1 .. N -> Fixable(fs)] :
          /\ \A k \in 1 .. N : s[k] = fs[at[k]]
          /\ \A i \in Fixable(fs) : \E k \in 1 .. N : at[k] = i
          /\ \A j, k \in 1 .. N : j < k => Earlier(fs, at[j], at[k])
  <2> HIDE DEF s
  <2>1. QED
    BY OrderedIs DEF s
<1> HIDE DEF s, N
<1>3. \A i \in Fixable(fs) : fs[i].line \in Nat /\ fs[i].end \in Nat /\ End(fs[i]) \in Nat /\ i \in Nat
  <2>1. fs \in Seq({fs[i] : i \in DOMAIN fs})
    BY DEF AreFindings, IsSeq
  <2>2. DOMAIN fs = 1 .. Len(fs) /\ Len(fs) \in Nat
    BY <2>1, LenProperties
  <2>3. QED
    BY <2>2, EndOf DEF AreFindings, Fixable
<1>4. Spans(s)
  <2>1. \A k \in 1 .. N : s[k].line \in Nat /\ s[k].end \in Nat
    BY <1>2, <1>3
  <2>2. QED
    BY <1>1, <2>1 DEF Spans, N
<1>5. ASSUME NEW j \in 1 .. N, NEW k \in 1 .. N, j < k
      PROVE  s[j].line <= s[k].line /\ at[j] # at[k]
  <2> DEFINE a == fs[at[j]]
             b == fs[at[k]]
             i == at[j]
             h == at[k]
  <2>1. Earlier(fs, at[j], at[k]) /\ s[j] = a /\ s[k] = b
    BY <1>2, <1>5
  <2>2. /\ a.line \in Nat /\ End(a) \in Nat /\ i \in Nat
        /\ b.line \in Nat /\ End(b) \in Nat /\ h \in Nat
    BY <1>2, <1>3
  <2>3. \/ a.line < b.line
        \/ a.line = b.line /\ End(a) < End(b)
        \/ a.line = b.line /\ End(a) = End(b) /\ i < h
    BY <2>1 DEF Earlier
  <2>4. a.line <= b.line
    <3> HIDE DEF a, b
    <3>1. QED
      BY <2>2, <2>3
  <2>5. i # h
    <3> SUFFICES ASSUME i = h PROVE FALSE
      OBVIOUS
    <3>1. a = b
      OBVIOUS
    <3> HIDE DEF a, b, i, h
    <3>2. QED
      BY <2>2, <2>3, <3>1
  <2> HIDE DEF a, b
  <2>6. QED
    BY <2>1, <2>4, <2>5
<1>6. Sorted(s)
  BY <1>1, <1>5 DEF Sorted
<1>7. Sorts(at, fs, s)
  <2>1. \A j, k \in 1 .. N : at[j] = at[k] => j = k
    <3> SUFFICES ASSUME NEW j \in 1 .. N, NEW k \in 1 .. N, at[j] = at[k], j # k PROVE FALSE
      OBVIOUS
    <3>1. j < k \/ k < j
      BY <1>1
    <3>2. QED
      BY <1>5, <3>1
  <2>2. QED
    BY <1>2, <2>1 DEF Sorts, N
<1>8. QED
  BY <1>4, <1>6, <1>7 DEF s

\* A finding is undisputed exactly if it is alone in its group and in the file.
LEMMA UndisputedSingle ==
    ASSUME NEW lines, NEW fs, NEW s, Spans(s), Sorted(s), NEW at, Sorts(at, fs, s),
           NEW k \in 1 .. Len(s)
    PROVE  at[k] \in Undisputed(lines, fs) <=>
               Single(s, k) /\ 0 < s[k].line /\ End(s[k]) <= Len(lines)
<1>1. DOMAIN s = 1 .. Len(s) /\ at[k] \in Fixable(fs) /\ s[k] = fs[at[k]]
  BY DEF Spans, Sorts
<1>2. Single(s, k) <=> \A j \in 1 .. Len(s) : j # k => ~Overlap(s[k], s[j])
  BY <1>1, SingleMeans
<1>3. ASSUME \A j \in 1 .. Len(s) : j # k => ~Overlap(s[k], s[j]),
             NEW i \in Fixable(fs) \ {at[k]}
      PROVE  ~Overlap(fs[at[k]], fs[i])
  <2>1. PICK j \in 1 .. Len(s) : at[j] = i
    BY DEF Sorts
  <2>2. j # k /\ s[j] = fs[i]
    BY <1>3, <2>1 DEF Sorts
  <2>3. QED
    BY <1>1, <1>3, <2>2
<1>4. ASSUME \A i \in Fixable(fs) \ {at[k]} : ~Overlap(fs[at[k]], fs[i]),
             NEW j \in 1 .. Len(s), j # k
      PROVE  ~Overlap(s[k], s[j])
  <2>1. at[j] \in Fixable(fs) \ {at[k]} /\ s[j] = fs[at[j]]
    BY <1>4 DEF Sorts
  <2>2. QED
    BY <1>1, <1>4, <2>1
<1>5. QED
  BY <1>1, <1>2, <1>3, <1>4 DEF Undisputed

\* A list that begins like lines and then has something else: what is before a
\* range at the end of that beginning, and what comes after it.
LEMMA AroundRange ==
    ASSUME NEW T, NEW lines \in Seq(T), NEW rest \in Seq(T),
           NEW l \in 1 .. Len(lines), NEW e \in l .. Len(lines),
           NEW x, x = SubSeq(lines, 1, e) \o rest
    PROVE  /\ Len(x) \in Nat /\ e <= Len(x)
           /\ SubSeq(x, 1, l - 1) = SubSeq(lines, 1, l - 1)
           /\ SubSeq(x, e + 1, Len(x)) = rest
<1> DEFINE u == SubSeq(lines, 1, e)
<1>1. Len(lines) \in Nat /\ Len(rest) \in Nat /\ l \in Nat /\ e \in Nat /\ 1 <= l /\ l <= e
      /\ e <= Len(lines)
  BY LenProperties
<1>2. u \in Seq(T) /\ Len(u) = e
  <2>1. \A i \in 1 .. e : lines[i] \in T
    BY <1>1, ElementOfSeq
  <2>2. QED
    BY <1>1, <2>1, SubSeqProperties
<1>3. Len(x) = e + Len(rest)
  <2> HIDE DEF u
  <2>1. Len(u \o rest) = Len(u) + Len(rest)
    BY <1>2, ConcatProperties
  <2>2. QED
    BY <1>2, <2>1 DEF u
<1>4. SubSeq(x, 1, l - 1) = SubSeq(lines, 1, l - 1)
  <2>1. CASE l = 1
    <3>1. SubSeq(x, 1, l - 1) = << >> /\ SubSeq(lines, 1, l - 1) = << >>
      BY <2>1, SubSeqEmpty
    <3>2. QED
      BY <3>1
  <2>2. CASE l # 1
    <3>1. 1 \in 1 .. e /\ l - 1 \in 1 .. e /\ 1 \in 1 .. Len(lines) /\ e \in 1 .. Len(lines)
          /\ e - 1 + 1 = e /\ 1 + 1 - 1 = 1 /\ 1 + (l - 1) - 1 = l - 1
      BY <1>1, <2>2
    <3>2. SubSeq(u \o rest, 1, l - 1) = SubSeq(u, 1, l - 1)
      <4> HIDE DEF u
      <4>1. QED
        BY <1>2, <3>1, SubSeqOfConcat1
    <3>3. SubSeq(u, 1, l - 1) = SubSeq(lines, 1, l - 1)
      <4>1. SubSeq(SubSeq(lines, 1, e), 1, l - 1) = SubSeq(lines, 1 + 1 - 1, 1 + (l - 1) - 1)
        BY <3>1, SubSeqOfSubSeq
      <4>2. QED
        BY <3>1, <4>1
    <3>4. QED
      BY <3>2, <3>3
  <2>3. QED
    BY <2>1, <2>2
<1>5. SubSeq(x, e + 1, Len(x)) = rest
  <2>1. CASE Len(rest) = 0
    <3>1. rest = << >>
      BY <2>1, EmptySeq
    <3>2. Len(x) < e + 1 /\ e + 1 \in Int /\ Len(x) \in Int
      BY <1>1, <1>3, <2>1
    <3>3. SubSeq(x, e + 1, Len(x)) = << >>
      BY <3>2, SubSeqEmpty
    <3>4. QED
      BY <3>1, <3>3
  <2>2. CASE Len(rest) # 0
    <3>1. /\ e + 1 \in Len(u) + 1 .. Len(u) + Len(rest)
          /\ Len(x) \in Len(u) + 1 .. Len(u) + Len(rest)
          /\ e + 1 - Len(u) = 1 /\ Len(x) - Len(u) = Len(rest)
      <4> HIDE DEF u
      <4>1. QED
        BY <1>1, <1>2, <1>3, <2>2
    <3>2. SubSeq(u \o rest, e + 1, Len(x)) = SubSeq(rest, e + 1 - Len(u), Len(x) - Len(u))
      <4> HIDE DEF u
      <4>1. QED
        BY <1>2, <3>1, SubSeqOfConcat2
    <3>3. SubSeq(rest, 1, Len(rest)) = rest
      BY SubSeqFull
    <3>4. QED
      BY <3>1, <3>2, <3>3
  <2>3. QED
    BY <2>1, <2>2
<1>6. QED
  BY <1>1, <1>3, <1>4, <1>5

\* Line b is between the fixes of the first k findings of s and those of the
\* others.
Between(lines, fs, s, at, b, k) ==
    \A j \in 1 .. Len(s) : at[j] \in Undisputed(lines, fs) =>
        IF j > k THEN b <= s[j].line ELSE End(s[j]) < b

\* What there is once all findings behind the k-th have been gone through: the
\* lines as they were, and from any such line on what is meant to come of them.
DoneBehind(lines, fs, s, at, last, k, now) ==
    \A b \in 1 .. Len(lines) + 1 : Between(lines, fs, s, at, b, k) =>
        now.lines = SubSeq(lines, 1, b - 1) \o From(lines, last, b)

\* A finding that is disputed, or not in the file, changes nothing.
LEMMA NothingDone ==
    ASSUME NEW lines, IsSeq(lines), NEW fs, AreFindings(fs),
           NEW last \in [0 .. Len(lines) -> Seq(AnyLine(lines, fs))], IntendedBy(lines, fs, last),
           NEW s, Spans(s), Sorted(s), NEW at, Sorts(at, fs, s),
           NEW k \in 1 .. Len(s), NEW was, DoneBehind(lines, fs, s, at, last, k, was),
           at[k] \notin Undisputed(lines, fs), Single(s, k)
    PROVE  Replace(s[k], was) = was
<1> DEFINE N == Len(lines)
           U == Undisputed(lines, fs)
           T == AnyLine(lines, fs)
           e == End(s[k])
           l == s[k].line
<1>1. N \in Nat /\ lines \in Seq(T) /\ l \in Nat /\ e \in Nat /\ l <= e
  BY LenProperties, LineTypes, EndOf DEF IsSeq, Spans
<1>2. l = 0 \/ N < e
  <2>1. ~ (0 < l /\ e <= N)
    BY UndisputedSingle
  <2> HIDE DEF l, e, N
  <2>2. QED
    BY <1>1, <2>1
<1>3. CASE l = 0
  BY <1>3 DEF Replace
<1>4. CASE N < e
  <2>1. Between(lines, fs, s, at, N + 1, k)
    <3> SUFFICES ASSUME NEW j \in 1 .. Len(s), at[j] \in U
                 PROVE  IF j > k THEN N + 1 <= s[j].line ELSE End(s[j]) < N + 1
      BY DEF Between
    <3>1. s[j] = fs[at[j]] /\ End(s[j]) \in Nat /\ s[j].line \in Nat /\ s[j].line <= End(s[j])
          /\ End(s[j]) <= N /\ j # k /\ j \in DOMAIN s /\ k \in DOMAIN s
      <4>1. s[j] = fs[at[j]] /\ j # k /\ j \in DOMAIN s /\ k \in DOMAIN s
        BY DEF Sorts, Spans
      <4>2. QED
        BY <4>1, UndisputedIs
    <3>2. ~ (j > k)
      <4> SUFFICES ASSUME j > k PROVE FALSE
        OBVIOUS
      <4>1. l <= s[j].line
        <5>1. k < j
          BY <3>1 DEF Spans
        <5>2. QED
          BY <3>1, <5>1 DEF Sorted
      <4>2. ~Overlap(s[k], s[j])
        BY <3>1, SingleMeans
      <4> DEFINE a == s[j].line
                 c == End(s[j])
      <4>3. a \in Nat /\ c \in Nat /\ a <= c /\ c <= N /\ l <= a /\ ~ (l <= c /\ a <= e)
        BY <3>1, <4>1, <4>2 DEF Overlap
      <4> HIDE DEF a, c, l, e, N
      <4>4. QED
        BY <1>1, <1>4, <4>3
    <3>3. End(s[j]) < N + 1
      <4> DEFINE c == End(s[j])
      <4>1. c \in Nat /\ c <= N
        BY <3>1
      <4> HIDE DEF c, N
      <4>2. c < N + 1
        BY <1>1, <4>1
      <4>3. QED
        BY <4>2 DEF c
    <3>4. QED
      BY <3>2, <3>3
  <2>2. was.lines = SubSeq(lines, 1, N) \o << >>
    <3>1. N + 1 \in 1 .. N + 1 /\ (N + 1) - 1 = N
      BY <1>1
    <3>2. was.lines = SubSeq(lines, 1, (N + 1) - 1) \o From(lines, last, N + 1)
      BY <2>1, <3>1 DEF DoneBehind
    <3>3. From(lines, last, N + 1) = << >>
      BY FromIs
    <3>4. QED
      BY <3>1, <3>2, <3>3, Zenon
  <2>3. was.lines = lines
    <3> HIDE DEF T
    <3>1. SubSeq(lines, 1, N) = lines
      BY <1>1, SubSeqFull
    <3>2. lines \o << >> = lines
      BY <1>1, ConcatEmptySeq
    <3>3. QED
      BY <2>2, <3>1, <3>2
  <2>4. ~ (e <= N)
    <3> HIDE DEF e, N
    <3>1. QED
      BY <1>1, <1>4
  <2>5. QED
    BY <2>3, <2>4 DEF Replace
<1>5. QED
  BY <1>2, <1>3, <1>4

\* An undisputed one is replaced, and the lines above it are what they were.
LEMMA OneDone ==
    ASSUME NEW lines, IsSeq(lines), NEW fs, AreFindings(fs),
           NEW last \in [0 .. Len(lines) -> Seq(AnyLine(lines, fs))], IntendedBy(lines, fs, last),
           NEW s, Spans(s), Sorted(s), NEW at, Sorts(at, fs, s),
           NEW k \in 1 .. Len(s), NEW was, DoneBehind(lines, fs, s, at, last, k, was),
           at[k] \in Undisputed(lines, fs)
    PROVE  DoneBehind(lines, fs, s, at, last, k - 1, Replace(s[k], was))
<1> DEFINE N == Len(lines)
           U == Undisputed(lines, fs)
           T == AnyLine(lines, fs)
           e == End(s[k])
           l == s[k].line
           fix == s[k].fix
           rest == From(lines, last, e + 1)
           now == Replace(s[k], was)
<1>1. /\ N \in Nat /\ lines \in Seq(T) /\ l \in Nat /\ e \in Nat /\ 1 <= l /\ l <= e /\ e <= N
      /\ s[k] = fs[at[k]] /\ fix \in Seq(T) /\ k \in DOMAIN s /\ Len(s) \in Nat
  <2>1. s[k] = fs[at[k]] /\ k \in DOMAIN s /\ Len(s) \in Nat
    BY DEF Sorts, Spans
  <2>2. at[k] \in Fixable(fs)
    BY UndisputedIs
  <2>3. /\ fs[at[k]].line \in Nat \ {0} /\ End(fs[at[k]]) \in Nat
        /\ fs[at[k]].line <= End(fs[at[k]]) /\ End(fs[at[k]]) <= Len(lines)
    BY UndisputedIs
  <2>4. l \in Nat /\ 1 <= l
    <3>1. l \in Nat \ {0}
      BY <2>1, <2>3
    <3> HIDE DEF l
    <3>2. QED
      BY <3>1
  <2>5. QED
    BY <2>1, <2>2, <2>3, <2>4, LenProperties, LineTypes DEF IsSeq
<1> HIDE DEF N, T, e, l, fix
<1>2. ASSUME NEW j \in 1 .. Len(s), at[j] \in U, j # k
      PROVE  /\ s[j].line \in Nat /\ End(s[j]) \in Nat /\ s[j].line <= End(s[j])
             /\ IF j > k THEN e < s[j].line ELSE End(s[j]) < l
  <2> DEFINE a == s[j].line
             c == End(s[j])
  <2>1. j \in DOMAIN s /\ a \in Nat /\ c \in Nat /\ a <= c
    BY EndOf DEF Spans
  <2>2. ~Overlap(s[k], s[j])
    <3>1. Single(s, k)
      BY UndisputedSingle
    <3>2. QED
      BY <1>1, <1>2, <2>1, <3>1, SingleMeans
  <2>3. ~ (l <= c /\ a <= e)
    BY <2>2 DEF Overlap, l, e
  <2>4. (j > k => l <= a) /\ (~ (j > k) => a <= l)
    <3>1. (j > k => k < j) /\ (~ (j > k) => j < k)
      BY <1>2
    <3>2. QED
      BY <1>1, <2>1, <3>1 DEF Sorted, l
  <2> HIDE DEF a, c
  <2>5. IF j > k THEN e < a ELSE c < l
    BY <1>1, <2>1, <2>3, <2>4
  <2>6. QED
    BY <2>1, <2>5 DEF a, c
<1>3. was.lines = SubSeq(lines, 1, e) \o rest
  <2>1. Between(lines, fs, s, at, e + 1, k)
    <3> SUFFICES ASSUME NEW j \in 1 .. Len(s), at[j] \in U
                 PROVE  IF j > k THEN e + 1 <= s[j].line ELSE End(s[j]) < e + 1
      BY DEF Between
    <3>1. CASE j = k
      <4>1. ~ (j > k) /\ End(s[j]) = e /\ e < e + 1
        BY <1>1, <3>1 DEF e
      <4>2. QED
        BY <4>1
    <3>2. CASE j # k
      <4> DEFINE a == s[j].line
                 c == End(s[j])
      <4>1. a \in Nat /\ c \in Nat /\ IF j > k THEN e < a ELSE c < l
        BY <1>2, <3>2
      <4> HIDE DEF a, c
      <4>2. IF j > k THEN e + 1 <= a ELSE c < e + 1
        BY <1>1, <4>1
      <4>3. QED
        BY <4>2 DEF a, c
    <3>3. QED
      BY <3>1, <3>2
  <2>2. e + 1 \in 1 .. N + 1 /\ (e + 1) - 1 = e
    BY <1>1
  <2>3. was.lines = SubSeq(lines, 1, (e + 1) - 1) \o rest
    BY <2>1, <2>2 DEF DoneBehind, N
  <2>4. QED
    BY <2>2, <2>3
<1>4. rest \in Seq(T)
  <2>1. e + 1 \in 1 .. N + 1
    BY <1>1
  <2>2. QED
    BY <2>1, FromIs DEF N, T
<1> HIDE DEF rest
<1>5. /\ Len(was.lines) \in Nat /\ e <= Len(was.lines)
      /\ SubSeq(was.lines, 1, l - 1) = SubSeq(lines, 1, l - 1)
      /\ SubSeq(was.lines, e + 1, Len(was.lines)) = rest
  <2>1. l \in 1 .. Len(lines) /\ e \in l .. Len(lines)
    BY <1>1 DEF N
  <2>2. QED
    BY <1>1, <1>3, <1>4, <2>1, AroundRange
<1>6. now.lines = SubSeq(lines, 1, l - 1) \o fix \o rest
  <2>1. 0 < l /\ l <= Len(was.lines) /\ e <= Len(was.lines)
    BY <1>1, <1>5
  <2>2. now = [lines   |-> SubSeq(was.lines, 1, l - 1) \o fix
                               \o SubSeq(was.lines, e + 1, Len(was.lines)),
               applied |-> Append(was.applied, s[k])]
    BY <2>1 DEF Replace, l, e, fix
  <2> HIDE DEF now
  <2>3. now.lines = SubSeq(was.lines, 1, l - 1) \o fix
                               \o SubSeq(was.lines, e + 1, Len(was.lines))
    BY <2>2
  <2>4. QED
    BY <1>5, <2>3
<1>7. From(lines, last, l) = fix \o rest
  BY <1>1, LinesGiveWay DEF l, e, fix, rest
<1>8. SubSeq(lines, 1, l - 1) \in Seq(T)
  <2>1. \A i \in 1 .. l - 1 : lines[i] \in T
    BY <1>1, ElementOfSeq DEF N
  <2>2. QED
    BY <1>1, <2>1, SubSeqProperties
<1>9. now.lines = SubSeq(lines, 1, l - 1) \o From(lines, last, l)
  <2> DEFINE above == SubSeq(lines, 1, l - 1)
  <2>1. above \in Seq(T) /\ fix \in Seq(T) /\ rest \in Seq(T)
    BY <1>1, <1>4, <1>8
  <2> HIDE DEF above
  <2>2. (above \o fix) \o rest = above \o (fix \o rest)
    BY <2>1, ConcatAssociative
  <2>3. QED
    BY <1>6, <1>7, <2>2 DEF above
<1> HIDE DEF now
<1>10. ASSUME NEW b \in 1 .. N + 1, Between(lines, fs, s, at, b, k - 1)
       PROVE  now.lines = SubSeq(lines, 1, b - 1) \o From(lines, last, b)
  <2>1. b <= l
    <3>1. k > k - 1
      OBVIOUS
    <3>2. QED
      BY <1>10, <3>1 DEF Between, l
  <2>2. ASSUME NEW i \in U PROVE l <= fs[i].line \/ End(fs[i]) < b
    <3>1. PICK j \in 1 .. Len(s) : at[j] = i /\ s[j] = fs[i]
      BY UndisputedIs DEF Sorts
    <3>2. CASE j = k
      <4>1. l = fs[i].line
        BY <3>1, <3>2 DEF l
      <4>2. QED
        BY <1>1, <4>1
    <3>3. CASE j > k
      <4> DEFINE a == s[j].line
      <4>1. a \in Nat /\ e < a
        BY <1>2, <3>1, <3>3
      <4> HIDE DEF a
      <4>2. l <= a
        BY <1>1, <4>1
      <4>3. QED
        BY <3>1, <4>2 DEF a
    <3>4. CASE j < k
      <4>1. ~ (j > k - 1)
        BY <3>4
      <4>2. End(s[j]) < b
        BY <1>10, <3>1, <4>1 DEF Between
      <4>3. QED
        BY <3>1, <4>2
    <3>5. QED
      BY <3>2, <3>3, <3>4
  <2>3. From(lines, last, b) = SubSeq(lines, b, l - 1) \o From(lines, last, l)
    <3>1. b \in 1 .. Len(lines) + 1 /\ l \in b .. Len(lines) + 1
      BY <1>1, <2>1 DEF N
    <3>2. QED
      BY <2>2, <3>1, LinesStay
  <2>4. SubSeq(lines, 1, b - 1) \o SubSeq(lines, b, l - 1) = SubSeq(lines, 1, l - 1)
    <3>1. /\ 1 \in 1 .. Len(lines) + 1 /\ b - 1 \in 1 - 1 .. Len(lines)
          /\ l - 1 \in b - 1 .. Len(lines) /\ (b - 1) + 1 = b
      BY <1>1, <2>1 DEF N
    <3>2. SubSeq(lines, 1, b - 1) \o SubSeq(lines, (b - 1) + 1, l - 1) = SubSeq(lines, 1, l - 1)
      BY <1>1, <3>1, ConcatAdjacentSubSeq
    <3>3. QED
      BY <3>1, <3>2
  <2>5. /\ SubSeq(lines, 1, b - 1) \in Seq(T) /\ SubSeq(lines, b, l - 1) \in Seq(T)
        /\ From(lines, last, l) \in Seq(T)
    <3>1. /\ \A i \in 1 .. b - 1 : lines[i] \in T
          /\ \A i \in b .. l - 1 : lines[i] \in T
      BY <1>1, <2>1, ElementOfSeq DEF N
    <3>2. b - 1 \in Int /\ b \in Int /\ l - 1 \in Int /\ 1 \in Int
      BY <1>1
    <3>3. l \in 1 .. Len(lines) + 1
      BY <1>1 DEF N
    <3>4. From(lines, last, l) \in Seq(T)
      BY <3>3, FromIs DEF T
    <3>5. QED
      BY <3>1, <3>2, <3>4, SubSeqProperties
  <2>6. (SubSeq(lines, 1, b - 1) \o SubSeq(lines, b, l - 1)) \o From(lines, last, l)
            = SubSeq(lines, 1, b - 1) \o (SubSeq(lines, b, l - 1) \o From(lines, last, l))
    <3> DEFINE above == SubSeq(lines, 1, b - 1)
               middle == SubSeq(lines, b, l - 1)
               below == From(lines, last, l)
    <3>1. above \in Seq(T)
      BY <2>5
    <3>2. middle \in Seq(T)
      BY <2>5
    <3>3. below \in Seq(T)
      BY <2>5
    <3> HIDE DEF above, middle, below
    <3>4. (above \o middle) \o below = above \o (middle \o below)
      BY ONLY <3>1, <3>2, <3>3, ConcatAssociative, SMTT(30)
    <3>5. QED
      BY <3>4 DEF above, middle, below
  <2>7. QED
    BY <1>9, <2>3, <2>4, <2>6, Zenon
<1>11. QED
  BY <1>10 DEF DoneBehind, N, now

\* What the algorithm returns: lines of the file or of fixes, and findings.
LEMMA PatchMade ==
    ASSUME NEW lines, IsSeq(lines), NEW fs, AreFindings(fs)
    PROVE  Patch(lines, fs) \in Outcomes(lines, fs)
<1>1. PICK file \in [0 .. Len(Ordered(fs)) -> Outcomes(lines, fs)] :
          Patch(lines, fs) = file[Len(Ordered(fs))]
  BY PatchIs
<1>2. Len(Ordered(fs)) \in Nat
  BY OrderedSorts DEF Spans
<1>3. QED
  BY <1>1, <1>2

\* apply_fixes_to_file() does what it is for: each line gives way to the one
\* undisputed fix whose range it is in, or stays, whatever the findings are.
THEOREM PatchIsIntended ==
    ASSUME NEW lines, IsSeq(lines), NEW fs, AreFindings(fs)
    PROVE  Patch(lines, fs).lines = Intended(lines, fs)
<1> DEFINE s == Ordered(fs)
           N == Len(lines)
           M == Len(s)
           U == Undisputed(lines, fs)
           T == AnyLine(lines, fs)
<1>1. PICK last \in [0 .. N -> Seq(T)] :
          IntendedBy(lines, fs, last) /\ Intended(lines, fs) = last[N]
  BY IntendedIs
<1>2. PICK file \in [0 .. M -> Outcomes(lines, fs)] :
          PatchedBy(lines, s, file) /\ Patch(lines, fs) = file[M]
  BY PatchIs
<1>3. PICK at : Spans(s) /\ Sorted(s) /\ Sorts(at, fs, s)
  BY OrderedSorts
<1> HIDE DEF s
<1>4. N \in Nat /\ M \in Nat /\ lines \in Seq(T)
  BY <1>3, LenProperties, LineTypes DEF IsSeq, Spans
<1> DEFINE Done(n) == DoneBehind(lines, fs, s, at, last, M - n, file[n])
           P == {n \in 0 .. M : Done(n)}
<1>5. 0 \in P
  <2>1. file[0].lines = lines /\ M - 0 = M
    BY <1>2, <1>4 DEF PatchedBy
  <2>2. ASSUME NEW b \in 1 .. N + 1, Between(lines, fs, s, at, b, M)
        PROVE  lines = SubSeq(lines, 1, b - 1) \o From(lines, last, b)
    <3>1. ASSUME NEW i \in U PROVE N + 1 <= fs[i].line \/ End(fs[i]) < b
      <4>1. PICK j \in 1 .. M : at[j] = i /\ s[j] = fs[i]
        BY <1>3, UndisputedIs DEF Sorts
      <4>2. ~ (j > M)
        BY <1>4
      <4>3. QED
        BY <2>2, <4>1, <4>2 DEF Between
    <3>2. From(lines, last, b) = SubSeq(lines, b, (N + 1) - 1) \o From(lines, last, N + 1)
      <4>1. N + 1 \in b .. N + 1
        BY <1>4
      <4>2. QED
        BY <1>1, <3>1, <4>1, LinesStay
    <3>3. From(lines, last, b) = SubSeq(lines, b, N)
      <4>1. From(lines, last, N + 1) = << >> /\ (N + 1) - 1 = N
        BY <1>1, <1>4, FromIs
      <4>2. SubSeq(lines, b, N) \in Seq(T)
        <5>1. \A i \in b .. N : lines[i] \in T
          BY <1>4, ElementOfSeq
        <5> HIDE DEF T
        <5>2. QED
          BY <1>4, <5>1, SubSeqProperties
      <4>3. SubSeq(lines, b, N) \o << >> = SubSeq(lines, b, N)
        <5> HIDE DEF T, N
        <5>1. QED
          BY <4>2, ConcatEmptySeq
      <4>4. QED
        BY <3>2, <4>1, <4>3, Zenon
    <3>4. SubSeq(lines, 1, b - 1) \o SubSeq(lines, b, N) = lines
      <4>1. 1 \in 1 .. N + 1 /\ b - 1 \in 1 - 1 .. N /\ N \in b - 1 .. N /\ (b - 1) + 1 = b
        BY <1>4
      <4>2. SubSeq(lines, 1, b - 1) \o SubSeq(lines, (b - 1) + 1, N) = SubSeq(lines, 1, N)
        <5> HIDE DEF T
        <5>1. QED
          BY <1>4, <4>1, ConcatAdjacentSubSeq
      <4>3. SubSeq(lines, 1, N) = lines
        <5> HIDE DEF T
        <5>1. QED
          BY <1>4, SubSeqFull
      <4> DEFINE c == (b - 1) + 1
      <4>4. c = b
        BY <4>1
      <4>5. SubSeq(lines, 1, b - 1) \o SubSeq(lines, c, N) = lines
        BY <4>2, <4>3, Zenon
      <4> HIDE DEF c
      <4>6. QED
        BY <4>4, <4>5, Zenon
    <3>5. QED
      BY <3>3, <3>4
  <2>3. DoneBehind(lines, fs, s, at, last, M, file[0])
    BY <2>1, <2>2 DEF DoneBehind
  <2>4. QED
    BY <1>4, <2>1, <2>3
<1>6. ASSUME NEW n \in 1 .. M, n - 1 \in P PROVE n \in P
  <2> DEFINE k == M + 1 - n
             was == file[n - 1]
  <2>1. k \in 1 .. M /\ M - (n - 1) = k /\ M - n = k - 1 /\ n \in 0 .. M
    BY <1>4
  <2>2. file[n] = IF Single(s, k) THEN Replace(s[k], was) ELSE was
    BY <1>2 DEF PatchedBy
  <2>3. DoneBehind(lines, fs, s, at, last, k, was)
    BY <1>6, <2>1
  <2> HIDE DEF k, was
  <2>4. CASE at[k] \in U
    <3>1. Single(s, k)
      BY <1>3, <2>1, <2>4, UndisputedSingle
    <3>2. DoneBehind(lines, fs, s, at, last, k - 1, Replace(s[k], was))
      BY <1>1, <1>3, <2>1, <2>3, <2>4, OneDone
    <3>3. QED
      BY <2>1, <2>2, <3>1, <3>2
  <2>5. CASE at[k] \notin U
    <3>1. file[n] = was
      <4>1. CASE Single(s, k)
        <5>1. Replace(s[k], was) = was
          BY <1>1, <1>3, <2>1, <2>3, <2>5, <4>1, NothingDone
        <5>2. QED
          BY <2>2, <5>1
      <4>2. CASE ~Single(s, k)
        BY <2>2, <4>2
      <4>3. QED
        BY <4>1, <4>2
    <3>2. ASSUME NEW b \in 1 .. N + 1, Between(lines, fs, s, at, b, k - 1)
          PROVE  Between(lines, fs, s, at, b, k)
      <4> SUFFICES ASSUME NEW j \in 1 .. M, at[j] \in U
                   PROVE  IF j > k THEN b <= s[j].line ELSE End(s[j]) < b
        BY DEF Between
      <4>1. j # k
        BY <2>5
      <4>2. j > k - 1 <=> j > k
        BY <2>1, <4>1
      <4>3. QED
        BY <3>2, <4>2 DEF Between
    <3>3. DoneBehind(lines, fs, s, at, last, k - 1, was)
      BY <2>3, <3>2 DEF DoneBehind
    <3>4. QED
      BY <2>1, <3>1, <3>3
  <2>6. QED
    BY <2>4, <2>5
<1>7. Done(M)
  <2>1. 0 .. M \subseteq P
    <3> HIDE DEF P, M
    <3>1. QED
      BY <1>4, <1>5, <1>6, Upwards
  <2>2. M \in 0 .. M
    BY <1>4
  <2> HIDE DEF Done
  <2>3. QED
    BY <2>1, <2>2
<1>8. file[M].lines = SubSeq(lines, 1, 1 - 1) \o From(lines, last, 1)
  <2>1. Between(lines, fs, s, at, 1, M - M)
    <3> SUFFICES ASSUME NEW j \in 1 .. M, at[j] \in U
                 PROVE  IF j > M - M THEN 1 <= s[j].line ELSE End(s[j]) < 1
      BY DEF Between
    <3>1. s[j] = fs[at[j]] /\ fs[at[j]].line \in Nat \ {0}
      BY <1>3, UndisputedIs DEF Sorts
    <3>2. j > M - M
      BY <1>4
    <3> DEFINE a == s[j].line
    <3>3. a \in Nat \ {0}
      BY <3>1
    <3> HIDE DEF a
    <3>4. 1 <= a
      BY <3>3
    <3>5. QED
      BY <3>2, <3>4 DEF a
  <2>2. 1 \in 1 .. N + 1
    BY <1>4
  <2>3. QED
    BY <1>7, <2>1, <2>2 DEF DoneBehind
<1>9. SubSeq(lines, 1, 1 - 1) = << >> /\ From(lines, last, 1) \in Seq(T)
      /\ From(lines, last, 1) = last[N]
  <2>1. 1 \in 1 .. N + 1 /\ N + 1 - 1 = N
    BY <1>4
  <2>2. From(lines, last, 1) \in Seq(T)
    BY <1>1, <2>1, FromIs
  <2>3. SubSeq(lines, 1, 1 - 1) = << >>
    BY SubSeqEmpty
  <2>4. QED
    BY <2>1, <2>2, <2>3 DEF From
<1>10. << >> \o From(lines, last, 1) = From(lines, last, 1)
  <2> HIDE DEF T
  <2>1. QED
    BY <1>9, ConcatEmptySeq
<1>11. QED
  BY <1>1, <1>2, <1>8, <1>9, <1>10, Zenon

=============================================================================
