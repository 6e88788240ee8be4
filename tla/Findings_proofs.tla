--------------------------- MODULE Findings_proofs ---------------------------
(***************************************************************************)
(* That the agent that is heard first prevails, and that what a model      *)
(* quotes faithfully is reported, for any number of agents, with or        *)
(* without common categories, and whatever their models answer.            *)
(***************************************************************************)
EXTENDS Findings, SequenceTheorems, FiniteSetTheorems, WellFoundedInduction, TLAPS

\* What one more element makes of a sequence.
LEMMA OneMore ==
    ASSUME NEW s, IsSeq(s), NEW r, NEW t, t = Append(s, r)
    PROVE  /\ IsSeq(t)
           /\ Len(s) \in Nat /\ DOMAIN s = 1 .. Len(s)
           /\ Len(t) = Len(s) + 1 /\ DOMAIN t = 1 .. Len(s) + 1
           /\ \A i \in 1 .. Len(s) : t[i] = s[i]
           /\ t[Len(s) + 1] = r
<1> DEFINE S == {s[i] : i \in DOMAIN s} \cup {r}
<1>1. s \in Seq(S)
  <2>1. s \in Seq({s[i] : i \in DOMAIN s}) /\ \A i \in DOMAIN s : s[i] \in S
    BY DEF IsSeq
  <2> HIDE DEF S
  <2>2. QED
    BY <2>1
<1>2. r \in S
  OBVIOUS
<1> HIDE DEF S
<1>3. /\ t \in Seq(S)
      /\ Len(t) = Len(s) + 1
      /\ \A i \in 1 .. Len(s) : t[i] = s[i]
      /\ t[Len(s) + 1] = r
  BY <1>1, <1>2, AppendProperties
<1>4. IsSeq(t)
  BY <1>3 DEF IsSeq
<1>5. DOMAIN t = 1 .. Len(s) + 1 /\ Len(s) \in Nat /\ DOMAIN s = 1 .. Len(s)
  BY <1>1, <1>3
<1>6. QED
  BY <1>3, <1>4, <1>5

\* What is made of an answer is what the agent may report.
LEMMA ToFindingsTypes ==
    ASSUME NEW answer, NEW i \in 1 .. Agents, NEW k \in DOMAIN ToFindings(answer, i)
    PROVE  WellFormed(ToFindings(answer, i)[k], i)
<1> DEFINE f == answer.findings[k]
           s == IF f.severity \in Severities THEN f.severity ELSE "warning"
<1>1. Valid(f, i) /\ ToFindings(answer, i)[k] = ToFinding(f, i)
  BY DEF ToFindings
<1>2. s \in Severities /\ Caps[i] \in Severities
  BY CapsAssumption DEF Severities
<1>3. ToFinding(f, i).severity = Capped(s, i)
  BY DEF ToFinding
<1> HIDE DEF s
<1>4. \A c \in Severities : Rank[c] \in Nat
  BY DEF Severities, Rank
<1>5. Capped(s, i) \in Severities /\ Rank[Capped(s, i)] <= Rank[Caps[i]]
  BY <1>2, <1>4 DEF Capped
<1>6. QED
  BY <1>1, <1>3, <1>5 DEF Valid, ToFinding, WellFormed

\* The invariant holds before any agent is heard.
LEMMA IInvInit == Init => IInv
<1> SUFFICES ASSUME Init PROVE IInv
  OBVIOUS
<1>1. heard = << >> /\ raw = << >> /\ result = None
  BY DEF Init
<1>2. Len(heard) = 0 /\ DOMAIN heard = {} /\ Len(raw) = 0 /\ DOMAIN raw = {}
  BY <1>1
<1>3. TypeOK
  BY <1>1, <1>2, AgentsAssumption DEF TypeOK, Init
<1>4. Merged /\ InTurn /\ Recorded
  BY <1>1, <1>2 DEF Merged, InTurn, Recorded, IsSeq
<1>5. QED
  BY <1>3, <1>4 DEF IInv

\* Hearing an agent whose findings have its categories keeps it.
LEMMA HearKeepsIInv ==
    ASSUME IInv, result = None, NextAgent \in Asked,
           NEW answer, NEW findings, NEW succeeded, Hear(answer, findings, succeeded),
           \A k \in DOMAIN findings : WellFormed(findings[k], NextAgent),
           \/ answer = None /\ findings = << >>
           \/ /\ answer \in Answers(SanitizeForPrompt(code))
              /\ findings = ToFindings(answer, NextAgent)
    PROVE  IInv'
<1> DEFINE r == [findings |-> findings, succeeded |-> succeeded]
<1>1. /\ heard' = Append(heard, r) /\ raw' = Append(raw, answer)
      /\ UNCHANGED <<code, multi, result>>
  BY DEF Hear
<1> HIDE DEF r
<1>2. /\ IsSeq(heard')
      /\ Len(heard) \in Nat /\ DOMAIN heard = 1 .. Len(heard)
      /\ Len(heard') = Len(heard) + 1 /\ DOMAIN heard' = 1 .. Len(heard) + 1
      /\ \A i \in 1 .. Len(heard) : heard'[i] = heard[i]
      /\ heard'[Len(heard) + 1] = r
  <2>1. IsSeq(heard)
    BY DEF IInv, InTurn
  <2>2. IsSeq(heard') /\ Len(heard) \in Nat /\ DOMAIN heard = 1 .. Len(heard)
    BY <1>1, <2>1, OneMore
  <2>3. Len(heard') = Len(heard) + 1 /\ DOMAIN heard' = 1 .. Len(heard) + 1
    BY <1>1, <2>1, OneMore
  <2>4. \A i \in 1 .. Len(heard) : heard'[i] = heard[i]
    BY <1>1, <2>1, OneMore
  <2>5. heard'[Len(heard) + 1] = r
    BY <1>1, <2>1, OneMore
  <2>6. QED
    BY <2>2, <2>3, <2>4, <2>5
<1>3. Len(heard') <= Agents
  BY <1>2, AgentsAssumption DEF NextAgent, Asked
<1>4. \A i \in DOMAIN heard' : \A k \in DOMAIN heard'[i].findings :
          WellFormed(heard'[i].findings[k], i)
  <2> SUFFICES ASSUME NEW i \in DOMAIN heard'
               PROVE  \A k \in DOMAIN heard'[i].findings : WellFormed(heard'[i].findings[k], i)
    OBVIOUS
  <2>1. CASE i = Len(heard) + 1
    <3>1. heard'[i].findings = findings /\ i = NextAgent
      BY <1>2, <2>1 DEF r, NextAgent
    <3>2. QED
      BY <3>1
  <2>2. CASE i \in 1 .. Len(heard)
    BY <1>2, <2>2 DEF IInv, TypeOK
  <2>3. QED
    BY <1>2, <2>1, <2>2
<1>5. TypeOK'
  BY <1>1, <1>3, <1>4 DEF IInv, TypeOK
<1>6. Merged' /\ InTurn'
  BY <1>1, <1>2 DEF Merged, InTurn, IsSeq
<1>7. Recorded'
  <2>1. IsSeq(raw) /\ Len(raw) = Len(heard)
    BY DEF IInv, Recorded
  <2>2. /\ IsSeq(raw')
        /\ DOMAIN raw = 1 .. Len(heard)
        /\ Len(raw') = Len(heard) + 1 /\ DOMAIN raw' = 1 .. Len(heard) + 1
        /\ \A i \in 1 .. Len(heard) : raw'[i] = raw[i]
        /\ raw'[Len(heard) + 1] = answer
    <3>1. IsSeq(raw') /\ DOMAIN raw = 1 .. Len(heard)
      BY <1>1, <2>1, OneMore
    <3>2. Len(raw') = Len(heard) + 1 /\ DOMAIN raw' = 1 .. Len(heard) + 1
      BY <1>1, <2>1, OneMore
    <3>3. \A i \in 1 .. Len(heard) : raw'[i] = raw[i]
      BY <1>1, <2>1, OneMore
    <3>4. raw'[Len(heard) + 1] = answer
      BY <1>1, <2>1, OneMore
    <3>5. QED
      BY <3>1, <3>2, <3>3, <3>4
  <2>3. SanitizeForPrompt(code)' = SanitizeForPrompt(code)
    BY <1>1
  <2>4. ASSUME NEW i \in DOMAIN raw'
        PROVE  \/ raw'[i] = None /\ heard'[i].findings = << >>
               \/ /\ raw'[i] \in Answers(SanitizeForPrompt(code))
                  /\ heard'[i].findings = ToFindings(raw'[i], i)
    <3>1. CASE i = Len(heard) + 1
      <4>1. heard'[i].findings = findings /\ i = NextAgent /\ raw'[i] = answer
        BY <1>2, <2>2, <3>1 DEF r, NextAgent
      <4>2. QED
        BY <2>4, <4>1
    <3>2. CASE i \in 1 .. Len(heard)
      <4>1. i \in DOMAIN raw /\ raw'[i] = raw[i] /\ heard'[i] = heard[i]
        BY <1>2, <2>2, <3>2
      <4>2. QED
        BY <2>4, <4>1 DEF IInv, Recorded
    <3>3. QED
      BY <1>2, <2>2, <3>1, <3>2
  <2>5. QED
    BY <1>1, <1>2, <2>2, <2>3, <2>4 DEF Recorded, IsSeq
<1>8. QED
  BY <1>5, <1>6, <1>7 DEF IInv

\* Every step keeps it.
LEMMA IInvStep == IInv /\ [Next]_vars => IInv'
<1> SUFFICES ASSUME IInv, [Next]_vars PROVE IInv'
  OBVIOUS
<1>1. ASSUME NEW succeeded, Hear(None, << >>, succeeded), result = None, NextAgent \in Asked
      PROVE  IInv'
  BY <1>1, HearKeepsIInv
<1>2. CASE SkipBlank
  BY <1>1, <1>2 DEF SkipBlank
<1>3. CASE CallFails
  BY <1>1, <1>3 DEF CallFails
<1>4. CASE Answer
  <2>1. PICK answer \in Answers(SanitizeForPrompt(code)) :
            Hear(answer, ToFindings(answer, NextAgent), ParsedOk(answer))
    BY <1>4 DEF Answer
  <2>2. \A k \in DOMAIN ToFindings(answer, NextAgent) :
            WellFormed(ToFindings(answer, NextAgent)[k], NextAgent)
    <3>1. NextAgent \in 1 .. Agents
      BY <1>4, AgentsAssumption DEF Answer, Asked
    <3>2. QED
      BY <3>1, ToFindingsTypes
  <2>3. QED
    BY <1>4, <2>1, <2>2, HearKeepsIInv DEF Answer
<1>5. CASE Report
  <2> DEFINE found == Trusted(heard, code)
  <2>1. UNCHANGED <<code, multi, heard>>
        /\ raw' = raw
        /\ result'.findings = IF multi THEN Dedupe(heard, found) ELSE found
    BY <1>5 DEF Report
  <2>2. Trusted(heard, code)' = found
    BY <2>1 DEF Trusted, At
  <2>3. Dedupe(heard, found) \subseteq found /\ Dedupe(heard', found) = Dedupe(heard, found)
    BY <2>1 DEF Dedupe
  <2> HIDE DEF found
  <2>4. TypeOK'
    BY <2>1, <2>2, <2>3 DEF IInv, TypeOK
  <2>5. Merged' /\ InTurn'
    BY <2>1, <2>2, <2>3 DEF IInv, Merged, InTurn, IsSeq
  <2>6. Recorded'
    BY <2>1 DEF IInv, Recorded, IsSeq
  <2>7. QED
    BY <2>4, <2>5, <2>6 DEF IInv
<1>6. CASE UNCHANGED vars
  BY <1>6 DEF vars, IInv, TypeOK, Merged, InTurn, Recorded, IsSeq, Trusted, Dedupe, At
<1>7. QED
  BY <1>2, <1>3, <1>4, <1>5, <1>6 DEF Next

\* The agents are heard in turn, each with findings of its own categories.
THEOREM TypeCorrect == Spec => []TypeOK
<1>1. IInv => TypeOK
  BY DEF IInv
<1>2. QED
  BY IInvInit, IInvStep, <1>1, PTL DEF Spec

-----------------------------------------------------------------------------

\* There is an entry of raw for each entry of heard.
LEMMA SameDomains ==
    ASSUME IInv
    PROVE  DOMAIN raw = DOMAIN heard /\ DOMAIN heard \subseteq Nat
<1>1. \A s : IsSeq(s) => Len(s) \in Nat /\ DOMAIN s = 1 .. Len(s)
  BY DEF IsSeq
<1>2. IsSeq(heard) /\ IsSeq(raw) /\ Len(raw) = Len(heard)
  BY DEF IInv, InTurn, Recorded
<1>3. QED
  BY <1>1, <1>2

\* A finding is where its agent and its place in the answer say.
LEMMA PlacesAreNumbers ==
    ASSUME IInv, NEW p \in Trusted(heard, code)
    PROVE  /\ p = <<p[1], p[2]>>
           /\ p[1] \in DOMAIN heard /\ p[2] \in DOMAIN heard[p[1]].findings
           /\ p[1] \in Nat /\ p[2] \in Nat
<1>1. p = <<p[1], p[2]>> /\ p[1] \in DOMAIN heard /\ p[2] \in DOMAIN heard[p[1]].findings
  BY DEF Trusted
<1>2. ASSUME NEW i \in DOMAIN heard
      PROVE  i \in Nat /\ DOMAIN heard[i].findings \subseteq Nat
  <2>1. i \in Nat /\ i \in DOMAIN raw
    BY SameDomains
  <2>2. CASE heard[i].findings = << >>
    BY <2>1, <2>2
  <2>3. CASE raw[i] \in Answers(SanitizeForPrompt(code)) /\ heard[i].findings = ToFindings(raw[i], i)
    <3>1. IsSeq(raw[i].findings)
      BY <2>3, AnswersAssumption DEF IInv, TypeOK
    <3>2. DOMAIN raw[i].findings \subseteq Nat
      BY <3>1 DEF IsSeq
    <3>3. QED
      BY <2>1, <2>3, <3>2 DEF ToFindings
  <2>4. QED
    BY <2>1, <2>2, <2>3 DEF IInv, Recorded
<1>3. QED
  BY <1>1, <1>2

\* Of two findings with one key at most one is kept.
LEMMA OnePerKey ==
    ASSUME IInv, NEW p \in Dedupe(heard, Trusted(heard, code)),
           NEW q \in Dedupe(heard, Trusted(heard, code)),
           Key(At(heard, p)) = Key(At(heard, q))
    PROVE  p = q
<1> DEFINE found == Trusted(heard, code)
<1>1. p \in found /\ q \in found /\ ~Before(p, q) /\ ~Before(q, p)
  BY DEF Dedupe
<1>2. /\ p = <<p[1], p[2]>> /\ p[1] \in Nat /\ p[2] \in Nat
      /\ q = <<q[1], q[2]>> /\ q[1] \in Nat /\ q[2] \in Nat
  BY <1>1, PlacesAreNumbers
<1>3. p[1] = q[1] /\ p[2] = q[2]
  BY <1>1, <1>2 DEF Before
<1>4. QED
  BY <1>2, <1>3

\* What some of the agents report in a category does not depend on others that
\* come later or have nothing to say in it.
LEMMA MergeOfSome ==
    ASSUME IInv, NEW some \in SUBSET (DOMAIN heard), NEW c,
           \A i \in some, j \in DOMAIN heard \ some : j < i => c \notin Categories[j]
    PROVE  LET theirs == {p \in Trusted(heard, code) : p[1] \in some}
           IN  OfCategory(Dedupe(heard, theirs), c) =
                   {p \in OfCategory(Dedupe(heard, Trusted(heard, code)), c) : p[1] \in some}
<1> DEFINE found == Trusted(heard, code)
           theirs == {p \in found : p[1] \in some}
<1>1. ASSUME NEW p \in theirs, At(heard, p).category = c,
             NEW q \in found, Before(q, p), Key(At(heard, q)) = Key(At(heard, p))
      PROVE  q \in theirs
  <2>1. At(heard, q).category = c
    BY <1>1 DEF Key
  <2>2. q[1] \in DOMAIN heard /\ q[2] \in DOMAIN heard[q[1]].findings
    BY <1>1, PlacesAreNumbers
  <2>3. c \in Categories[q[1]]
    BY <2>1, <2>2 DEF IInv, TypeOK, WellFormed, At
  <2>4. q[1] < p[1] \/ q[1] = p[1]
    BY <1>1 DEF Before
  <2>5. QED
    BY <1>1, <2>2, <2>3, <2>4
<1> HIDE DEF found
<1>2. ASSUME NEW p \in theirs, At(heard, p).category = c
      PROVE  p \in Dedupe(heard, theirs) <=> p \in Dedupe(heard, found)
  BY <1>1, <1>2 DEF Dedupe
<1>3. OfCategory(Dedupe(heard, theirs), c) = {p \in OfCategory(Dedupe(heard, found), c) : p[1] \in some}
  BY <1>2 DEF Dedupe, OfCategory
<1>4. QED
  BY <1>3 DEF found

\* For any number of agents, categories and answers: a line is reported once in a
\* category, and whoever is heard first in a category is reported as if nobody
\* else had been asked.
THEOREM FirstIsKept == Spec => []FirstHeardPrevails
<1>1. IInv => FirstHeardPrevails
  <2> SUFFICES ASSUME IInv, result # None, multi PROVE FirstHeardPrevails
    BY DEF FirstHeardPrevails
  <2>1. result.findings = Dedupe(heard, Trusted(heard, code))
    BY DEF IInv, Merged
  <2>2. QED
    BY <2>1, OnePerKey, MergeOfSome DEF FirstHeardPrevails
<1>2. QED
  BY IInvInit, IInvStep, <1>1, PTL DEF Spec

-----------------------------------------------------------------------------

\* A set of numbers has a least one: the finite sets 1 .. n are well-founded.
LEMMA LeastNumber ==
    ASSUME NEW T, T \subseteq Nat, T # {}
    PROVE  \E m \in T : \A n \in T : m <= n
<1> DEFINE R == StrictSubsetOrdering(Nat)
           W == {1 .. n : n \in T}
<1>1. W \subseteq FiniteSubsetsOf(Nat) /\ W # {}
  <2>1. \A n \in T : 1 .. n \subseteq Nat /\ IsFiniteSet(1 .. n)
    BY FS_Interval
  <2>2. QED
    BY <2>1 DEF FiniteSubsetsOf
<1>2. ASSUME NEW x \in T, NEW y \in T, y < x
      PROVE  <<1 .. y, 1 .. x>> \in R
  <2>1. 1 .. y \subseteq 1 .. x /\ x \in 1 .. x /\ x \notin 1 .. y
    BY <1>2
  <2>2. QED
    BY <2>1 DEF StrictSubsetOrdering
<1>3. PICK x \in W : \A y \in W : ~ (<<y, x>> \in R)
  <2>1. IsWellFoundedOn(R, FiniteSubsetsOf(Nat))
    BY ONLY FS_StrictSubsetOrderingWellFounded
  <2> HIDE DEF R, W
  <2>2. QED
    BY <1>1, <2>1, WFMin
<1>4. PICK m \in T : x = 1 .. m
  BY <1>3
<1>5. \A n \in T : ~ (n < m)
  BY <1>2, <1>3, <1>4
<1>6. QED
  BY <1>5

\* A line of the prompt that no rewritten line reads like is the line of the file.
LEMMA QuoteOfFile ==
    ASSUME code \in Files, NEW n \in DOMAIN SanitizeForPrompt(code),
           NEW words, words = SanitizeForPrompt(code)[n],
           \A m \in DOMAIN code : Rewritten(code[m]) => words # SanitizeLine(code[m])
    PROVE  n \in DOMAIN code /\ Within(words, code[n])
<1> DEFINE line == code[n]
<1>1. n \in DOMAIN code /\ line \in Seq(Words) /\ words = SanitizeLine(line)
  BY FilesAssumption DEF SanitizeForPrompt
<1>2. words = line
  BY <1>1 DEF Rewritten
<1> HIDE DEF line
<1>3. Len(line) \in Nat /\ SubSeq(line, 1, Len(line)) = line
  BY <1>1, SubSeqFull
<1>4. Within(line, line)
  <2>1. 0 \in 0 .. Len(line) - Len(line) /\ SubSeq(line, 0 + 1, 0 + Len(line)) = line
    BY <1>3
  <2>2. QED
    BY <2>1 DEF Within
<1>5. QED
  BY <1>1, <1>2, <1>4 DEF line

\* What an honest model finds can be trusted.
LEMMA HonestIsTrusted ==
    ASSUME IInv, NEW i \in DOMAIN raw, raw[i] # None, NEW k \in DOMAIN raw[i].findings,
           Honest(raw[i].findings[k], i, SanitizeForPrompt(code))
    PROVE  /\ <<i, k>> \in Trusted(heard, code)
           /\ Key(At(heard, <<i, k>>)) = Key(raw[i].findings[k])
<1> DEFINE f == raw[i].findings[k]
           g == heard[i].findings[k]
<1>1. raw[i] \in Answers(SanitizeForPrompt(code)) /\ heard[i].findings = ToFindings(raw[i], i)
  BY DEF IInv, Recorded
<1>2. Valid(f, i) /\ f.fix # "broken"
  BY DEF Honest, Valid
<1>3. k \in DOMAIN heard[i].findings /\ g = ToFinding(f, i)
  BY <1>1, <1>2 DEF ToFindings
<1>4. i \in DOMAIN heard
  BY SameDomains
<1>5. f.line \in Nat /\ code \in Files
  BY <1>1, AnswersAssumption DEF IInv, TypeOK
<1>6. PICK n \in DOMAIN SanitizeForPrompt(code) :
          n - 2 <= f.line /\ f.line <= n + 2 /\ f.bad_code = SanitizeForPrompt(code)[n]
  BY DEF Honest
<1>7. \A m \in DOMAIN code : Rewritten(code[m]) => f.bad_code # SanitizeLine(code[m])
  BY DEF Honest
<1>8. n \in DOMAIN code /\ Within(f.bad_code, code[n])
  BY <1>5, <1>6, <1>7, QuoteOfFile
<1>9. n \in Nat
  BY <1>5, <1>8, FilesAssumption
<1>10. g.line = f.line /\ g.category = f.category /\ g.bad_code = f.bad_code /\ g.fix = f.fix
  BY <1>3 DEF ToFinding
<1> HIDE DEF f, g
<1>11. g.line - Window <= n /\ n <= g.line + Window
  BY <1>5, <1>6, <1>9, <1>10 DEF Window
<1>12. IsTrustworthy(g, code)
  BY <1>2, <1>8, <1>10, <1>11 DEF IsTrustworthy, IsGrounded
<1>13. At(heard, <<i, k>>) = g
  BY DEF At, g
<1>14. QED
  BY <1>3, <1>4, <1>10, <1>12, <1>13 DEF Trusted, Key, f

\* Of the findings with one key the first is kept, and there is a first one.
LEMMA OneIsKept ==
    ASSUME IInv, NEW p \in Trusted(heard, code)
    PROVE  \E q \in Dedupe(heard, Trusted(heard, code)) :
               (q = p \/ Before(q, p)) /\ Key(At(heard, q)) = Key(At(heard, p))
<1> DEFINE found == Trusted(heard, code)
           same == {q \in found : Key(At(heard, q)) = Key(At(heard, p))}
           agents == {q[1] : q \in same}
<1>1. \A q \in found : q = <<q[1], q[2]>> /\ q[1] \in Nat /\ q[2] \in Nat
  BY PlacesAreNumbers
<1>3. p \in same /\ same \subseteq found
  OBVIOUS
<1>4. agents \subseteq Nat /\ agents # {}
  BY <1>1, <1>3
<1>5. PICK i \in agents : \A j \in agents : i <= j
  <2> HIDE DEF agents
  <2>1. QED
    BY <1>4, LeastNumber
<1> DEFINE places == {q[2] : q \in {r \in same : r[1] = i}}
<1>6. places \subseteq Nat /\ places # {}
  BY <1>1
<1>7. PICK k \in places : \A m \in places : k <= m
  <2> HIDE DEF places
  <2>1. QED
    BY <1>6, LeastNumber
<1>8. PICK q \in same : q[1] = i /\ q[2] = k
  OBVIOUS
<1>9. ASSUME NEW r \in found, Before(r, q) PROVE Key(At(heard, r)) # Key(At(heard, q))
  <2>1. SUFFICES ASSUME r \in same PROVE FALSE
    BY <1>8
  <2>2. i <= r[1] /\ (r[1] = i => k <= r[2])
    BY <1>5, <1>7, <2>1
  <2>3. r[1] \in Nat /\ r[2] \in Nat /\ i \in Nat /\ k \in Nat
    BY <1>1, <1>4, <1>6, <1>9
  <2>4. QED
    BY <1>8, <1>9, <2>2, <2>3 DEF Before
<1>10. q = p \/ Before(q, p)
  <2>1. q[1] <= p[1] /\ (p[1] = q[1] => q[2] <= p[2])
    BY <1>3, <1>5, <1>7, <1>8
  <2>2. /\ p = <<p[1], p[2]>> /\ p[1] \in Nat /\ p[2] \in Nat
        /\ q = <<q[1], q[2]>> /\ q[1] \in Nat /\ q[2] \in Nat
    BY <1>1, <1>3
  <2>3. CASE p[1] = q[1] /\ p[2] = q[2]
    BY <2>2, <2>3
  <2>4. CASE ~(p[1] = q[1] /\ p[2] = q[2])
    BY <2>1, <2>2, <2>4 DEF Before
  <2>5. QED
    BY <2>3, <2>4
<1>11. QED
  BY <1>8, <1>9, <1>10 DEF Dedupe

\* Whatever the models answer: a line or category that was asked for, a fix that
\* parses if there is one, and a quote of the prompt's line within two of the
\* finding's that no rewritten line reads like - such a finding is reported
\* itself, or one that comes before it for the same line and category is.
THEOREM HonestyPays == Spec => []HonestIsReported
<1>1. IInv => HonestIsReported
  <2> SUFFICES ASSUME IInv, result # None,
                      NEW i \in DOMAIN raw, raw[i] # None, NEW k \in DOMAIN raw[i].findings,
                      Honest(raw[i].findings[k], i, SanitizeForPrompt(code))
               PROVE  \/ <<i, k>> \in result.findings
                      \/ multi /\ \E q \in result.findings :
                             /\ Before(q, <<i, k>>)
                             /\ Key(At(heard, q)) = Key(raw[i].findings[k])
    BY DEF HonestIsReported
  <2>1. /\ <<i, k>> \in Trusted(heard, code)
        /\ Key(At(heard, <<i, k>>)) = Key(raw[i].findings[k])
    BY HonestIsTrusted
  <2>2. CASE ~multi
    BY <2>1, <2>2 DEF IInv, Merged
  <2>3. CASE multi
    <3>1. result.findings = Dedupe(heard, Trusted(heard, code))
      BY <2>3 DEF IInv, Merged
    <3>2. PICK q \in result.findings :
              /\ q = <<i, k>> \/ Before(q, <<i, k>>)
              /\ Key(At(heard, q)) = Key(At(heard, <<i, k>>))
      BY <2>1, <3>1, OneIsKept
    <3>3. QED
      BY <2>1, <2>3, <3>2
  <2>4. QED
    BY <2>2, <2>3
<1>2. QED
  BY IInvInit, IInvStep, <1>1, PTL DEF Spec

=============================================================================
