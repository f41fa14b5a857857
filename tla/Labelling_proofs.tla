---------------------------- MODULE Labelling_proofs ----------------------------
(***************************************************************************)
(* The speaker tracker, for every stream of segments, every limit on the   *)
(* voices and every alphabet of labels.  The proofs rest on two folds      *)
(* (Folding): Taught merges pairs one after another, and Resolve follows   *)
(* merges one after another.  The first needs the order pairs are merged   *)
(* in to be one, hence that no two labels are spelled alike and that       *)
(* strings are totally ordered; the second ends outside the merged labels  *)
(* because every merge leads to a label that sorts before.                 *)
(***************************************************************************)
EXTENDS Labelling, FiniteSetTheorems, SequenceTheorems, TLAPS

(* The labels minted, where each of them leads, and what is true of the    *)
(* tracker at all times; `gone` are the labels whose cluster was evicted.  *)
Numbers(tr) == 0 .. (tr.next - 1)

Stretch == [start : Nat, end : Nat]

SpansOf(L) == [start : Nat, end : Nat, label : L]

Labelled(span, l) == [start |-> span.start, end |-> span.end, label |-> l]

Leads(tr, end) ==
  /\ end \in [Numbers(tr) -> Numbers(tr) \ Absorbed(tr)]
  /\ \A l \in Numbers(tr) :
       IF l \in Absorbed(tr) THEN end[l] = end[tr.merged[l]] ELSE end[l] = l

Typed(tr) ==
  /\ tr = [clusters |-> tr.clusters, resolved |-> tr.resolved,
           next |-> tr.next, merged |-> tr.merged]
  /\ tr.next \in Nat
  /\ tr.clusters \in [Live(tr) -> Nat]
  /\ tr.merged \in [Absorbed(tr) -> Numbers(tr)]
  /\ tr.resolved \in Seq(SpansOf(Numbers(tr)))

Fine(tr, gone) ==
  /\ Typed(tr)
  /\ Live(tr) \cup gone \cup Absorbed(tr) = Numbers(tr)
  /\ Live(tr) \cap gone = {}
  /\ (Live(tr) \cup gone) \cap Absorbed(tr) = {}
  /\ Cardinality(Live(tr)) <= MaxSpeakers
  /\ \A l \in Absorbed(tr) : SortsBefore(tr.merged[l], l)
  /\ \E end : Leads(tr, end)

(* Taught, from the tracker p.tr whose labels lead to p.end.               *)
Merge(p, x, tr) == Merged(tr, x[1], x[2])

MergeKeeps(p, x, tr) ==
  /\ Fine(tr, p.gone)
  /\ tr.next = p.tr.next
  /\ tr.resolved = p.tr.resolved
  /\ \E end : /\ Leads(tr, end)
              /\ \A i, j \in Numbers(tr) : p.end[i] = p.end[j] => end[i] = end[j]

(* Resolve, from the label p.from of the tracker p.tr: once the merges in  *)
(* s have been tried, it has come to the end of its chain, or this much    *)
(* closer to the voice that sorts first.                                   *)
Some(s) == CHOOSE m \in s : TRUE

Behind(tr, l) == {m \in Absorbed(tr) : m = l \/ SortsBefore(m, l)}

Walk(p, m, l) == Follow(p.tr, l)

Walked(p, s, l) ==
  /\ l \in Numbers(p.tr)
  /\ p.end[l] = p.end[p.from]
  /\ l \in Absorbed(p.tr) =>
       Cardinality(Behind(p.tr, l)) + Cardinality(s) <= Cardinality(Absorbed(p.tr))

Walking == INSTANCE Folding WITH Op <- Walk, Pick <- Some, Keeps <- Walked

Merging == INSTANCE Folding WITH Op <- Merge, Pick <- LastPair, Keeps <- MergeKeeps

-----------------------------------------------------------------------------
(* How labels are spelled.                                                 *)

Letter == 0 .. (Letters - 1)

Before(n) == n \div Letters - 1

SpelledTo(n, f) ==
  f = [m \in 0 .. n |-> IF m < Letters THEN <<m>> ELSE Append(f[Before(m)], m % Letters)]

(* A label is a shorter label with a letter after it.                      *)
LEMMA Division ==
  ASSUME NEW n \in Nat
  PROVE  /\ n % Letters \in Letter
         /\ n >= Letters => Before(n) \in 0 .. (n - 1)
         /\ n < Letters => n \in Letter
  BY TrackerAssumption, Z3 DEF Before, Letter

LEMMA SameDivision ==
  ASSUME NEW m \in Nat, NEW n \in Nat, Before(m) = Before(n), m % Letters = n % Letters
  PROVE  m = n
<1>1. m \div Letters = n \div Letters
  BY TrackerAssumption, Z3 DEF Before
<1> QED
  BY <1>1, TrackerAssumption, Z3
LEMMA SpelledFurther ==
  ASSUME NEW n \in Nat, NEW f, SpelledTo(n, f)
  PROVE  \E g : SpelledTo(n + 1, g)
<1> DEFINE Val(h, m) == IF m < Letters THEN <<m>> ELSE Append(h[Before(m)], m % Letters)
           g == [m \in 0 .. (n + 1) |-> Val(f, m)]
<1>1. \A m \in 0 .. n : f[m] = Val(f, m)
  BY DEF SpelledTo
<1>2. ASSUME NEW m \in 0 .. n PROVE g[m] = f[m]
  <2>1. m \in 0 .. (n + 1)
    OBVIOUS
  <2>2. g[m] = Val(f, m)
    BY <2>1
  <2> QED
    BY <1>1, <2>2
<1>3. ASSUME NEW m \in 0 .. (n + 1) PROVE g[m] = Val(g, m)
  <2>1. CASE m < Letters
    BY <2>1
  <2>2. CASE ~ (m < Letters)
    <3>1. Before(m) \in 0 .. n
      BY <2>2, Division, TrackerAssumption
    <3>2. g[Before(m)] = f[Before(m)]
      BY <1>2, <3>1
    <3>3. g[m] = Append(f[Before(m)], m % Letters)
      BY <2>2
    <3> HIDE DEF g
    <3> QED
      BY <2>2, <3>2, <3>3
  <2> QED
    BY <2>1, <2>2
<1>4. g = [m \in 0 .. (n + 1) |-> g[m]]
  OBVIOUS
<1> HIDE DEF g
<1>5. SpelledTo(n + 1, g)
  BY <1>3, <1>4 DEF SpelledTo
<1> QED
  BY <1>5

LEMMA SpelledAlike ==
  ASSUME NEW n \in Nat, NEW k \in 0 .. n, NEW f, SpelledTo(n, f), NEW g, SpelledTo(k, g)
  PROVE  \A m \in 0 .. k : f[m] = g[m]
<1> DEFINE Bad == {m \in 0 .. k : f[m] # g[m]}
<1> SUFFICES ASSUME Bad # {} PROVE FALSE
  OBVIOUS
<1>1. Bad \subseteq Nat /\ \A m \in Bad : m \in 0 .. k /\ f[m] # g[m]
  OBVIOUS
<1>2. PICK m \in Bad : \A i \in Bad : m <= i
  <2> HIDE DEF Bad
  <2> QED
    BY <1>1, Merging!Least
<1>3. /\ f[m] = IF m < Letters THEN <<m>> ELSE Append(f[Before(m)], m % Letters)
      /\ g[m] = IF m < Letters THEN <<m>> ELSE Append(g[Before(m)], m % Letters)
  <2>1. m \in 0 .. n /\ m \in 0 .. k
    BY <1>1
  <2> QED
    BY <2>1 DEF SpelledTo
<1>4. ~ (m < Letters) /\ Before(m) \in 0 .. (m - 1)
  BY <1>1, <1>3, Division, TrackerAssumption
<1>5. Before(m) \in 0 .. k /\ Before(m) \notin Bad
  BY <1>1, <1>2, <1>4
<1> QED
  BY <1>1, <1>3, <1>4, <1>5

(* So Spelling is what its definition says it is.                          *)
LEMMA SpellingLaw ==
  ASSUME NEW n \in Nat
  PROVE  Spelling[n] = IF n < Letters THEN <<n>> ELSE Append(Spelling[Before(n)], n % Letters)
<1>1. ASSUME NEW k \in Nat PROVE \E f : SpelledTo(k, f)
  <2> DEFINE Good == {m \in 0 .. k : \E f : SpelledTo(m, f)}
  <2>1. 0 \in Good
    <3>1. 0 < Letters /\ 0 .. 0 = {0}
      BY TrackerAssumption
    <3>2. SpelledTo(0, [m \in {0} |-> <<0>>])
      BY <3>1 DEF SpelledTo
    <3> QED
      BY <3>2
  <2>2. \A m \in 0 .. (k - 1) : m \in Good => m + 1 \in Good
    BY SpelledFurther
  <2>3. k \in Good
    <3> HIDE DEF Good
    <3> QED
      BY <2>1, <2>2, Merging!Upto
  <2> QED
    BY <2>3
<1> DEFINE F == [m \in Nat |-> (CHOOSE f : SpelledTo(m, f))[m]]
           Laws(S) == S = [m \in Nat |-> IF m < Letters THEN <<m>>
                                         ELSE Append(S[Before(m)], m % Letters)]
<1>2. ASSUME NEW k \in Nat, NEW f, SpelledTo(k, f), NEW m \in 0 .. k
      PROVE  F[m] = f[m]
  <2> DEFINE g == CHOOSE h : SpelledTo(m, h)
  <2>1. m \in Nat /\ m \in 0 .. m
    BY <1>2
  <2>2. SpelledTo(m, g) /\ F[m] = g[m]
    BY <1>1, <2>1
  <2> HIDE DEF g, F
  <2> QED
    BY <1>2, <2>1, <2>2, SpelledAlike
<1>3. ASSUME NEW m \in Nat
      PROVE  F[m] = IF m < Letters THEN <<m>> ELSE Append(F[Before(m)], m % Letters)
  <2>1. PICK f : SpelledTo(m, f)
    BY <1>1
  <2>2. F[m] = f[m]
    BY <1>2, <2>1
  <2>3. f[m] = IF m < Letters THEN <<m>> ELSE Append(f[Before(m)], m % Letters)
    <3>1. m \in 0 .. m
      OBVIOUS
    <3> QED
      BY <2>1, <3>1 DEF SpelledTo
  <2>4. CASE m < Letters
    BY <2>2, <2>3, <2>4
  <2>5. CASE ~ (m < Letters)
    <3>1. Before(m) \in 0 .. m
      BY <2>5, Division, TrackerAssumption
    <3>2. F[Before(m)] = f[Before(m)]
      BY <1>2, <2>1, <3>1
    <3> QED
      BY <2>2, <2>3, <2>5, <3>2
  <2> QED
    BY <2>4, <2>5
<1>4. F = [m \in Nat |-> F[m]]
  OBVIOUS
<1>5. Laws(F)
  <2> HIDE DEF F
  <2> QED
    BY <1>3, <1>4
<1>6. Spelling = CHOOSE S : Laws(S)
  BY DEF Spelling, Before
<1>7. Laws(Spelling)
  BY <1>5, <1>6
<1> QED
  BY <1>7
LEMMA SpellingType ==
  ASSUME NEW n \in Nat
  PROVE  Spelling[n] \in Seq(Nat) /\ Len(Spelling[n]) >= 1
<1> DEFINE Spelt(m) == Spelling[m] \in Seq(Nat) /\ Len(Spelling[m]) >= 1
           Bad == {m \in Nat : ~ Spelt(m)}
<1> SUFFICES ASSUME Bad # {} PROVE FALSE
  OBVIOUS
<1>1. Bad \subseteq Nat /\ \A m \in Nat : m \notin Bad <=> Spelt(m)
  OBVIOUS
<1> HIDE DEF Bad
<1>2. PICK m \in Bad : \A i \in Bad : m <= i
  BY <1>1, Merging!Least
<1>3. CASE m < Letters
  <2>1. Spelling[m] = <<m>>
    BY <1>1, <1>3, SpellingLaw
  <2>2. m \in Nat /\ <<m>> \in Seq(Nat) /\ Len(<<m>>) = 1
    BY <1>1
  <2>3. Spelt(m)
    BY <2>1, <2>2
  <2> QED
    BY <1>1, <2>3
<1>4. CASE ~ (m < Letters)
  <2>1. Before(m) \in Nat /\ Before(m) < m /\ m % Letters \in Nat
    BY <1>1, <1>4, Division, TrackerAssumption DEF Letter
  <2>2. Spelt(Before(m))
    BY <1>1, <1>2, <2>1
  <2>3. Spelling[m] = Append(Spelling[Before(m)], m % Letters)
    BY <1>1, <1>4, SpellingLaw
  <2>4. Spelt(m)
    BY <2>1, <2>2, <2>3
  <2> QED
    BY <1>1, <2>4
<1> QED
  BY <1>3, <1>4

LEMMA LetterByLetter ==
  ASSUME NEW m \in Nat, NEW n \in Nat, n <= m, Spelling[m] = Spelling[n],
         \A i, j \in Nat : i < n /\ Spelling[i] = Spelling[j] => i = j
  PROVE  m = n
<1>1. CASE m < Letters
  <2>1. n < Letters
    BY <1>1, TrackerAssumption
  <2>2. Spelling[m] = <<m>>
    BY <1>1, SpellingLaw
  <2>3. Spelling[n] = <<n>>
    BY <2>1, SpellingLaw
  <2>4. Spelling[m][1] = m
    BY ONLY <2>2
  <2>5. Spelling[n][1] = n
    BY ONLY <2>3
  <2> QED
    BY <2>4, <2>5
<1>2. CASE ~ (m < Letters)
  <2>1. Before(m) \in Nat /\ m % Letters \in Nat
    BY <1>2, Division, TrackerAssumption DEF Letter
  <2>2. Spelling[m] = Append(Spelling[Before(m)], m % Letters)
    BY <1>2, SpellingLaw
  <2>3. Spelling[Before(m)] \in Seq(Nat) /\ Len(Spelling[Before(m)]) >= 1
    BY <2>1, SpellingType
  <2>4. ~ (n < Letters)
    <3> SUFFICES ASSUME n < Letters PROVE FALSE
      OBVIOUS
    <3>1. Spelling[n] = <<n>>
      BY SpellingLaw
    <3>2. Len(Spelling[n]) = 1
      BY <3>1
    <3>3. Len(Spelling[m]) = Len(Spelling[Before(m)]) + 1
      BY <2>1, <2>2, <2>3, AppendProperties
    <3>4. Len(Spelling[Before(m)]) \in Nat
      BY <2>3
    <3>5. Len(Spelling[m]) >= 2
      BY <2>3, <3>3, <3>4
    <3>6. Len(Spelling[m]) = Len(Spelling[n])
      OBVIOUS
    <3> QED
      BY ONLY <3>2, <3>5, <3>6
  <2>5. Before(n) \in Nat /\ Before(n) < n /\ n % Letters \in Nat
    BY <2>4, Division, TrackerAssumption DEF Letter
  <2>6. Spelling[n] = Append(Spelling[Before(n)], n % Letters) /\ Spelling[Before(n)] \in Seq(Nat)
    BY <2>4, <2>5, SpellingLaw, SpellingType
  <2>7. Spelling[Before(m)] = Spelling[Before(n)] /\ m % Letters = n % Letters
    <3> DEFINE s == Spelling[Before(m)]
               t == Spelling[Before(n)]
    <3>1. Append(s, m % Letters) = Append(t, n % Letters)
      BY <2>2, <2>6
    <3> HIDE DEF s, t
    <3>2. s \in Seq(Nat) /\ t \in Seq(Nat)
      BY <2>3, <2>6 DEF s, t
    <3>3. s = t /\ m % Letters = n % Letters
      BY ONLY <2>1, <2>5, <3>1, <3>2, AppendInjective, SMTT(30)
    <3> QED
      BY <3>3 DEF s, t
  <2>8. Before(m) = Before(n)
    BY <2>1, <2>5, <2>7
  <2> QED
    BY <2>7, <2>8, SameDivision
<1> QED
  BY <1>1, <1>2

LEMMA SpellingDistinct ==
  ASSUME NEW a \in Nat, NEW b \in Nat, Spelling[a] = Spelling[b]
  PROVE  a = b
<1> DEFINE Alike(i, j) == j # i /\ Spelling[i] = Spelling[j]
           Bad == {n \in Nat : \E m \in Nat : Alike(n, m)}
<1> SUFFICES ASSUME a # b PROVE FALSE
  OBVIOUS
<1>1. Bad \subseteq Nat /\ Bad # {} /\ \A n \in Nat : n \in Bad <=> \E m \in Nat : Alike(n, m)
  OBVIOUS
<1> HIDE DEF Bad
<1>2. PICK n \in Bad : \A i \in Bad : n <= i
  BY <1>1, Merging!Least
<1>3. n \in Nat
  BY <1>1
<1>4. PICK m \in Nat : Alike(n, m)
  BY <1>1, <1>3
<1>5. m \in Bad
  BY <1>1, <1>3, <1>4
<1>6. \A i, j \in Nat : i < n /\ Spelling[i] = Spelling[j] => i = j
  BY <1>1, <1>2, <1>3
<1> QED
  BY <1>2, <1>3, <1>4, <1>5, <1>6, LetterByLetter

-----------------------------------------------------------------------------
(* The string order.                                                       *)
Sooner(s, t) ==
  \E k \in 0 .. Len(s) :
    /\ k <= Len(t)
    /\ \A i \in 1 .. k : s[i] = t[i]
    /\ \/ k = Len(s) /\ k < Len(t)
       \/ k < Len(s) /\ k < Len(t) /\ s[k + 1] < t[k + 1]

LEMMA SortsIsSooner ==
  ASSUME NEW a \in Nat, NEW b \in Nat
  PROVE  SortsBefore(a, b) <=> Sooner(Spelling[a], Spelling[b])
<1> DEFINE s == Spelling[a]
           t == Spelling[b]
<1>1. s \in Seq(Nat) /\ t \in Seq(Nat)
  BY SpellingType
<1> HIDE DEF s, t
<1>2. ASSUME NEW k \in 0 .. Len(s), k <= Len(t)
      PROVE  SubSeq(s, 1, k) = SubSeq(t, 1, k) <=> \A i \in 1 .. k : s[i] = t[i]
  <2>1. SubSeq(s, 1, k) = [i \in 1 .. k |-> s[i]] /\ SubSeq(t, 1, k) = [i \in 1 .. k |-> t[i]]
    BY <1>1, <1>2
  <2>2. ASSUME SubSeq(s, 1, k) = SubSeq(t, 1, k), NEW i \in 1 .. k
        PROVE  s[i] = t[i]
    BY ONLY <2>1, <2>2
  <2> QED
    BY ONLY <2>1, <2>2
<1>3. Sooner(s, t) <=>
        \E k \in 0 .. Len(s) :
          /\ k <= Len(t)
          /\ SubSeq(s, 1, k) = SubSeq(t, 1, k)
          /\ \/ k = Len(s) /\ k < Len(t)
             \/ k < Len(s) /\ k < Len(t) /\ s[k + 1] < t[k + 1]
  BY <1>2 DEF Sooner
<1> QED
  BY <1>3 DEF SortsBefore, s, t

LEMMA SoonerTotal ==
  ASSUME NEW s \in Seq(Nat), NEW t \in Seq(Nat), s # t
  PROVE  Sooner(s, t) \/ Sooner(t, s)
<1> DEFINE Differ == {i \in Nat \ {0} : i > Len(s) \/ i > Len(t) \/ s[i] # t[i]}
<1>1. Differ \subseteq Nat /\ Len(s) + 1 \in Differ
  OBVIOUS
<1>2. PICK i \in Differ : \A j \in Differ : i <= j
  <2> HIDE DEF Differ
  <2> QED
    BY <1>1, Merging!Least
<1>3. /\ i - 1 \in 0 .. Len(s) /\ i - 1 \in 0 .. Len(t)
      /\ \A j \in 1 .. (i - 1) : s[j] = t[j]
  <2>1. \A j \in 1 .. (i - 1) : j <= Len(s) /\ j <= Len(t) /\ s[j] = t[j]
    BY <1>2
  <2> QED
    BY <2>1
<1>4. CASE i > Len(s) /\ i > Len(t)
  <2>1. Len(s) = Len(t) /\ \A j \in 1 .. Len(s) : s[j] = t[j]
    BY <1>3, <1>4
  <2> QED
    BY <2>1, SeqEqual
<1>5. CASE i > Len(s) /\ ~ (i > Len(t))
  <2>1. i - 1 = Len(s) /\ i - 1 < Len(t)
    BY <1>3, <1>5
  <2> QED
    BY <1>3, <2>1, SMTT(30) DEF Sooner
<1>6. CASE ~ (i > Len(s)) /\ i > Len(t)
  <2>1. i - 1 = Len(t) /\ i - 1 < Len(s)
    BY <1>3, <1>6
  <2> QED
    BY <1>3, <2>1, SMTT(30) DEF Sooner
<1>7. CASE ~ (i > Len(s)) /\ ~ (i > Len(t))
  <2>1. i \in 1 .. Len(s) /\ i \in 1 .. Len(t) /\ s[i] # t[i]
    BY <1>2, <1>7
  <2>2. PICK k \in Nat : k = i - 1 /\ k + 1 = i
    BY <2>1
  <2>3. s[k + 1] < t[k + 1] \/ t[k + 1] < s[k + 1]
    <3>1. s[i] \in Nat /\ t[i] \in Nat
      BY <2>1, ElementOfSeq
    <3> QED
      BY <2>1, <2>2, <3>1
  <2>4. /\ k \in 0 .. Len(s) /\ k <= Len(t) /\ k < Len(s) /\ k < Len(t)
        /\ k \in 0 .. Len(t) /\ k <= Len(s) /\ \A j \in 1 .. k : s[j] = t[j] /\ t[j] = s[j]
    BY <1>3, <2>1, <2>2, SMTT(30)
  <2>5. CASE s[k + 1] < t[k + 1]
    BY ONLY <2>4, <2>5 DEF Sooner
  <2>6. CASE t[k + 1] < s[k + 1]
    BY ONLY <2>4, <2>6 DEF Sooner
  <2> QED
    BY <2>3, <2>5, <2>6
<1> QED
  BY <1>4, <1>5, <1>6, <1>7

LEMMA SoonerTransitive ==
  ASSUME NEW s \in Seq(Nat), NEW t \in Seq(Nat), NEW u \in Seq(Nat), Sooner(s, t), Sooner(t, u)
  PROVE  Sooner(s, u)
<1>1. PICK k \in 0 .. Len(s) :
        /\ k <= Len(t)
        /\ \A i \in 1 .. k : s[i] = t[i]
        /\ \/ k = Len(s) /\ k < Len(t)
           \/ k < Len(s) /\ k < Len(t) /\ s[k + 1] < t[k + 1]
  BY DEF Sooner
<1>2. PICK j \in 0 .. Len(t) :
        /\ j <= Len(u)
        /\ \A i \in 1 .. j : t[i] = u[i]
        /\ \/ j = Len(t) /\ j < Len(u)
           \/ j < Len(t) /\ j < Len(u) /\ t[j + 1] < u[j + 1]
  BY DEF Sooner
<1>3. CASE k < j
  <2>1. k <= Len(u) /\ k < Len(u) /\ t[k + 1] = u[k + 1] /\ \A i \in 1 .. k : s[i] = u[i]
    BY <1>1, <1>2, <1>3
  <2> QED
    BY <1>1, <2>1 DEF Sooner
<1>4. CASE j < k
  <2>1. j \in 0 .. Len(s) /\ j < Len(s) /\ s[j + 1] = t[j + 1] /\ \A i \in 1 .. j : s[i] = u[i]
    BY <1>1, <1>2, <1>4, SMTT(30)
  <2>2. j < Len(t) /\ j < Len(u) /\ j <= Len(u) /\ t[j + 1] < u[j + 1]
    BY <1>1, <1>2, <1>4
  <2> QED
    BY <2>1, <2>2 DEF Sooner
<1>5. CASE j = k
  <2>1. k < Len(u) /\ k <= Len(u) /\ \A i \in 1 .. k : s[i] = u[i]
    BY <1>1, <1>2, <1>5
  <2>2. CASE k = Len(s)
    BY <2>1, <2>2 DEF Sooner
  <2>3. CASE k < Len(s)
    <3>1. s[k + 1] < t[k + 1] /\ t[k + 1] < u[k + 1]
      BY <1>1, <1>2, <1>5, <2>3
    <3>2. s[k + 1] \in Nat /\ t[k + 1] \in Nat /\ u[k + 1] \in Nat
      <4>1. k + 1 \in 1 .. Len(s) /\ k + 1 \in 1 .. Len(t) /\ k + 1 \in 1 .. Len(u)
        BY <1>1, <2>1, <2>3, SMTT(30)
      <4> QED
        BY <4>1, ElementOfSeq
    <3>3. s[k + 1] < u[k + 1]
      BY <3>1, <3>2, SMTT(30)
    <3> QED
      BY <2>1, <2>3, <3>3 DEF Sooner
  <2> QED
    BY <1>1, <2>2, <2>3
<1> QED
  BY <1>3, <1>4, <1>5
LEMMA SortsTotal ==
  ASSUME NEW a \in Nat, NEW b \in Nat
  PROVE  a = b \/ SortsBefore(a, b) \/ SortsBefore(b, a)
<1>1. Spelling[a] \in Seq(Nat) /\ Spelling[b] \in Seq(Nat)
  BY SpellingType
<1>2. Spelling[a] # Spelling[b] => SortsBefore(a, b) \/ SortsBefore(b, a)
  BY <1>1, SoonerTotal, SortsIsSooner
<1> QED
  BY <1>2, SpellingDistinct

LEMMA SortsTransitive ==
  ASSUME NEW a \in Nat, NEW b \in Nat, NEW c \in Nat, SortsBefore(a, b), SortsBefore(b, c)
  PROVE  SortsBefore(a, c)
<1>1. Spelling[a] \in Seq(Nat) /\ Spelling[b] \in Seq(Nat) /\ Spelling[c] \in Seq(Nat)
  BY SpellingType
<1> QED
  BY <1>1, SoonerTransitive, SortsIsSooner

LEMMA SortsStrict ==
  ASSUME NEW a \in Nat
  PROVE  ~ SortsBefore(a, a)
<1>1. Spelling[a] \in Seq(Nat)
  BY SpellingType
<1>2. ASSUME NEW s \in Seq(Nat) PROVE ~ Sooner(s, s)
  <2> SUFFICES ASSUME NEW k \in 0 .. Len(s), k < Len(s), s[k + 1] < s[k + 1] PROVE FALSE
    BY DEF Sooner
  <2>1. s[k + 1] \in Nat
    BY ElementOfSeq
  <2> QED
    BY <2>1
<1> QED
  BY <1>1, <1>2, SortsIsSooner

(* Folding speaks of finite sets in its own name.                          *)
LEMMA StillFinite ==
  ASSUME NEW S
  PROVE  /\ Merging!IsFiniteSet(S) <=> IsFiniteSet(S)
         /\ Walking!IsFiniteSet(S) <=> IsFiniteSet(S)
  BY DEF IsFiniteSet, Merging!IsFiniteSet, Walking!IsFiniteSet

(* So a set of pairs has a last one, and they are merged one by one.       *)
LEMMA PairsInOrder ==
  ASSUME NEW pairs \in SUBSET (Nat \X Nat), IsFiniteSet(pairs)
  PROVE  Merging!Picks(pairs)
<1> SUFFICES ASSUME NEW s \in SUBSET pairs, s # {}
             PROVE  LastPair(s) \in s
  <2>1. (\A s \in SUBSET pairs : s # {} => LastPair(s) \in s) => Merging!Picks(pairs)
    BY StillFinite DEF Merging!Picks
  <2> QED
    BY <2>1
<1> DEFINE R == {z \in (Nat \X Nat) \X (Nat \X Nat) : PairOrder(z[1], z[2])}
<1>1. IsFiniteSet(s)
  BY FS_Subset
<1>2. \A p, q \in s : <<p, q>> \in R <=> PairOrder(p, q)
  OBVIOUS
<1>3. \A p, q \in s : p = q \/ <<p, q>> \in R \/ <<q, p>> \in R
  <2> SUFFICES ASSUME NEW p \in s, NEW q \in s, p # q
               PROVE  PairOrder(p, q) \/ PairOrder(q, p)
    BY <1>2
  <2>1. /\ p[1] \in Nat /\ p[2] \in Nat /\ q[1] \in Nat /\ q[2] \in Nat
        /\ p[1] # q[1] \/ p[2] # q[2]
    OBVIOUS
  <2>2. CASE p[1] # q[1]
    BY <2>1, <2>2, SortsTotal DEF PairOrder
  <2>3. CASE p[1] = q[1] /\ p[2] # q[2]
    BY <2>1, <2>3, SortsTotal DEF PairOrder
  <2> QED
    BY <2>1, <2>2, <2>3
<1>4. \A p, q, r \in s : <<p, q>> \in R /\ <<q, r>> \in R => <<p, r>> \in R
  <2> SUFFICES ASSUME NEW p \in s, NEW q \in s, NEW r \in s, PairOrder(p, q), PairOrder(q, r)
               PROVE  PairOrder(p, r)
    BY <1>2
  <2>1. /\ p[1] \in Nat /\ p[2] \in Nat /\ q[1] \in Nat /\ q[2] \in Nat
        /\ r[1] \in Nat /\ r[2] \in Nat
    OBVIOUS
  <2>2. CASE SortsBefore(p[1], q[1]) /\ SortsBefore(q[1], r[1])
    BY <2>1, <2>2, SortsTransitive DEF PairOrder
  <2>3. CASE p[1] = q[1] \/ q[1] = r[1]
    BY <2>1, <2>3, SortsTransitive DEF PairOrder
  <2> QED
    BY <2>2, <2>3 DEF PairOrder
<1>5. \E p \in s : \A q \in s : q = p \/ <<q, p>> \in R
  <2> HIDE DEF R
  <2>1. s # {}
    OBVIOUS
  <2> QED
    BY ONLY <1>1, <1>3, <1>4, <2>1, StillFinite, Merging!LastMember, SMTT(30)
<1> QED
  BY <1>2, <1>5 DEF LastPair
-----------------------------------------------------------------------------
(* One merge.                                                              *)
LEMMA FinitelyMany ==
  ASSUME NEW tr, NEW gone, Fine(tr, gone), NEW S \in SUBSET Numbers(tr)
  PROVE  IsFiniteSet(S) /\ Cardinality(S) \in Nat
<1>1. IsFiniteSet(Numbers(tr))
  <2>1. tr.next - 1 \in Int
    BY DEF Fine, Typed
  <2> QED
    BY <2>1, FS_Interval DEF Numbers
<1> QED
  BY <1>1, FS_Subset, FS_CardinalityType

LEMMA MergedIs ==
  ASSUME NEW tr, Typed(tr), NEW x \in Live(tr), NEW y \in Live(tr),
         NEW t, t = Merged(tr, x, y)
  PROVE  /\ t = [clusters |-> t.clusters, resolved |-> t.resolved,
                 next |-> t.next, merged |-> t.merged]
         /\ t.next = tr.next
         /\ t.resolved = tr.resolved
         /\ t.clusters \in [Live(t) -> Nat]
         /\ Live(t) = Live(tr) \ {y}
         /\ Absorbed(t) = Absorbed(tr) \cup {y}
         /\ t.merged = [l \in Absorbed(tr) \cup {y} |-> IF l = y THEN x ELSE tr.merged[l]]
<1> DEFINE heard_  == {tr.clusters[x], tr.clusters[y]}
           last    == CHOOSE m \in heard_ : \A u \in heard_ : u <= m
           cs      == [l \in Live(tr) \ {y} |-> IF l = x THEN last ELSE tr.clusters[l]]
           ms      == [l \in Absorbed(tr) \cup {y} |-> IF l = y THEN x ELSE tr.merged[l]]
<1>1. tr.clusters[x] \in Nat /\ tr.clusters[y] \in Nat
  BY DEF Typed
<1>2. last \in Nat
  <2>1. \E m \in heard_ : \A u \in heard_ : u <= m
    BY <1>1
  <2> QED
    BY <1>1, <2>1
<1>3. t = [tr EXCEPT !.clusters = cs, !.merged = ms]
  BY DEF Merged
<1> HIDE DEF last, heard_
<1>4. cs \in [Live(tr) \ {y} -> Nat]
  BY <1>2 DEF Typed
<1> HIDE DEF cs
<1>5. DOMAIN ms = Absorbed(tr) \cup {y}
  OBVIOUS
<1> HIDE DEF ms
<1>6. t = [clusters |-> cs, resolved |-> tr.resolved, next |-> tr.next, merged |-> ms]
  BY <1>3 DEF Typed
<1> QED
  BY <1>4, <1>5, <1>6 DEF Live, Absorbed, ms

LEMMA MergedKeeps ==
  ASSUME NEW tr, NEW gone, Fine(tr, gone), NEW x \in Live(tr), NEW y \in Live(tr),
         SortsBefore(x, y), NEW end, Leads(tr, end), NEW t, t = Merged(tr, x, y)
  PROVE  /\ Fine(t, gone)
         /\ t.next = tr.next
         /\ t.resolved = tr.resolved
         /\ \E to : /\ Leads(t, to)
                    /\ \A i, j \in Numbers(t) : end[i] = end[j] => to[i] = to[j]
<1> DEFINE to == [l \in Numbers(tr) |-> IF end[l] = y THEN x ELSE end[l]]
<1>1. Typed(tr)
  BY DEF Fine
<1>2. /\ t = [clusters |-> t.clusters, resolved |-> t.resolved,
              next |-> t.next, merged |-> t.merged]
      /\ t.next = tr.next
      /\ t.resolved = tr.resolved
      /\ t.clusters \in [Live(t) -> Nat]
      /\ Live(t) = Live(tr) \ {y}
      /\ Absorbed(t) = Absorbed(tr) \cup {y}
      /\ t.merged = [l \in Absorbed(tr) \cup {y} |-> IF l = y THEN x ELSE tr.merged[l]]
  BY <1>1, MergedIs
<1>3. Numbers(t) = Numbers(tr) /\ Numbers(tr) \subseteq Nat
  BY <1>1, <1>2 DEF Numbers, Typed
<1>4. /\ x \in Numbers(tr) /\ y \in Numbers(tr) /\ x \notin Absorbed(tr)
      /\ y \notin Absorbed(tr) /\ Absorbed(tr) \subseteq Numbers(tr)
  BY DEF Fine
<1>5. x # y
  BY <1>3, <1>4, SortsStrict
<1>6. tr.merged \in [Absorbed(tr) -> Numbers(tr)]
  BY <1>1 DEF Typed
<1>7. Typed(t)
  <2>1. t.merged \in [Absorbed(t) -> Numbers(t)]
    BY <1>2, <1>3, <1>4, <1>6
  <2> QED
    BY <1>1, <1>2, <1>3, <2>1 DEF Typed
<1>8. /\ Live(t) \cup gone \cup Absorbed(t) = Numbers(t)
      /\ Live(t) \cap gone = {}
      /\ (Live(t) \cup gone) \cap Absorbed(t) = {}
  BY <1>2, <1>3, <1>4 DEF Fine
<1>9. Cardinality(Live(t)) <= MaxSpeakers
  <2>1. IsFiniteSet(Live(tr))
    BY FinitelyMany DEF Fine
  <2>2. Cardinality(Live(t)) <= Cardinality(Live(tr))
    BY <1>2, <2>1, FS_Subset
  <2>3. Cardinality(Live(t)) \in Nat /\ Cardinality(Live(tr)) \in Nat
    BY <1>2, <2>1, FS_Subset, FS_CardinalityType
  <2> QED
    BY <2>2, <2>3, TrackerAssumption DEF Fine
<1>10. \A l \in Absorbed(t) : SortsBefore(t.merged[l], l)
  BY <1>2, <1>4 DEF Fine
<1>11. Leads(t, to)
  <2>1. \A l \in Numbers(tr) : end[l] \in Numbers(tr) /\ end[l] \notin Absorbed(tr)
    BY DEF Leads
  <2>2. to \in [Numbers(t) -> Numbers(t) \ Absorbed(t)]
    BY <1>2, <1>3, <1>4, <1>5, <2>1
  <2>3. ASSUME NEW l \in Numbers(t)
        PROVE  IF l \in Absorbed(t) THEN to[l] = to[t.merged[l]] ELSE to[l] = l
    <3>1. CASE l \in Absorbed(tr)
      <4>1. end[l] = end[tr.merged[l]] /\ t.merged[l] = tr.merged[l] /\ tr.merged[l] \in Numbers(tr)
        BY <1>2, <1>3, <1>4, <1>6, <3>1 DEF Leads
      <4> QED
        BY <1>2, <1>3, <3>1, <4>1
    <3>2. CASE l = y
      <4>1. end[y] = y /\ end[x] = x /\ t.merged[y] = x
        BY <1>2, <1>4 DEF Leads
      <4> QED
        BY <1>2, <1>4, <1>5, <3>2, <4>1
    <3>3. CASE l \notin Absorbed(tr) /\ l # y
      <4>1. end[l] = l
        BY <1>3, <3>3 DEF Leads
      <4> QED
        BY <1>2, <1>3, <3>3, <4>1
    <3> QED
      BY <3>1, <3>2, <3>3
  <2> HIDE DEF to
  <2> QED
    BY <2>2, <2>3 DEF Leads
<1>12. \A i, j \in Numbers(t) : end[i] = end[j] => to[i] = to[j]
  BY <1>3
<1> HIDE DEF to
<1>13. Fine(t, gone)
  BY <1>7, <1>8, <1>9, <1>10, <1>11 DEF Fine
<1> QED
  BY <1>2, <1>11, <1>12, <1>13

(* All the merges of one segment.                                          *)
LEMMA PairsAreFinite ==
  ASSUME NEW tr, NEW gone, Fine(tr, gone), NEW voice, NEW pairs \in SUBSET MergePairs(tr, voice)
  PROVE  /\ pairs \in SUBSET (Nat \X Nat)
         /\ IsFiniteSet(pairs)
         /\ \A x \in pairs : SortsBefore(x[1], x[2])
<1>1. Live(tr) \subseteq Numbers(tr) /\ Numbers(tr) \subseteq Nat
  BY DEF Fine, Typed, Numbers
<1>2. IsFiniteSet(Live(tr) \X Live(tr))
  BY <1>1, FinitelyMany, FS_Product
<1>3. pairs \in SUBSET (Live(tr) \X Live(tr)) /\ \A x \in pairs : SortsBefore(x[1], x[2])
  BY DEF MergePairs
<1> QED
  BY <1>1, <1>2, <1>3, FS_Subset

LEMMA TaughtIsAFold ==
  ASSUME NEW tr, NEW span, NEW voice, NEW pairs, NEW p
  PROVE  Taught(tr, span, voice, pairs) = Merging!Fold(p, Assigned(tr, span, voice), pairs)
  BY DEF Taught, MapThenFoldSet, Merging!Fold, Merging!Folds, Merge

LEMMA TaughtKeeps ==
  ASSUME NEW tr, NEW span, NEW voice, NEW gone, NEW base, base = Assigned(tr, span, voice),
         Fine(base, gone), NEW end, Leads(base, end),
         NEW pairs \in SUBSET MergePairs(base, voice), NEW t, t = Taught(tr, span, voice, pairs)
  PROVE  /\ Fine(t, gone)
         /\ t.next = base.next
         /\ t.resolved = base.resolved
         /\ \E to : /\ Leads(t, to)
                    /\ \A i, j \in Numbers(t) : end[i] = end[j] => to[i] = to[j]
<1> DEFINE p == [tr |-> base, gone |-> gone, end |-> end]
<1>0. /\ pairs \in SUBSET (Nat \X Nat)
      /\ IsFiniteSet(pairs)
      /\ \A q \in pairs : SortsBefore(q[1], q[2])
  BY PairsAreFinite
<1>1. Merging!Picks(pairs)
  BY <1>0, PairsInOrder
<1>2. MergeKeeps(p, {}, base)
  BY DEF MergeKeeps
<1>3. ASSUME NEW acc, NEW s \in SUBSET pairs, s # {}, MergeKeeps(p, s \ {LastPair(s)}, acc)
      PROVE  MergeKeeps(p, s, Merge(p, LastPair(s), acc))
  <2> DEFINE x == LastPair(s)
             u == Merged(acc, x[1], x[2])
  <2>1. x \in pairs
    BY <1>1, <1>3 DEF Merging!Picks
  <2> HIDE DEF x
  <2>2. SortsBefore(x[1], x[2])
    BY <1>0, <2>1
  <2>3. /\ Fine(acc, gone) /\ acc.next = base.next /\ acc.resolved = base.resolved
        /\ \E on : /\ Leads(acc, on)
                   /\ \A i, j \in Numbers(acc) : end[i] = end[j] => on[i] = on[j]
    BY <1>3 DEF MergeKeeps
  <2>4. PICK on : /\ Leads(acc, on)
                  /\ \A i, j \in Numbers(acc) : end[i] = end[j] => on[i] = on[j]
    BY <2>3
  <2>5. CASE x[1] \in Live(acc) /\ x[2] \in Live(acc)
    <3>1. /\ Fine(u, gone) /\ u.next = acc.next /\ u.resolved = acc.resolved
          /\ \E to : /\ Leads(u, to)
                     /\ \A i, j \in Numbers(u) : on[i] = on[j] => to[i] = to[j]
      BY <2>2, <2>3, <2>4, <2>5, MergedKeeps
    <3>2. Numbers(u) = Numbers(acc)
      BY <3>1 DEF Numbers
    <3> HIDE DEF u
    <3>3. \E to : /\ Leads(u, to)
                  /\ \A i, j \in Numbers(u) : end[i] = end[j] => to[i] = to[j]
      BY <2>4, <3>1, <3>2
    <3> QED
      BY <2>3, <3>1, <3>3 DEF MergeKeeps, Merge, u, x
  <2>6. CASE ~ (x[1] \in Live(acc) /\ x[2] \in Live(acc))
    <3>1. u = acc
      BY <2>6 DEF Merged
    <3>2. Merge(p, LastPair(s), acc) = acc
      BY <3>1 DEF Merge, x
    <3> QED
      BY <2>3, <3>2 DEF MergeKeeps
  <2> QED
    BY <2>5, <2>6
<1> HIDE DEF p
<1>4. MergeKeeps(p, pairs, Merging!Fold(p, base, pairs))
  <2>1. /\ Merging!Picks(pairs) /\ MergeKeeps(p, {}, base)
        /\ \A acc : \A s \in SUBSET pairs :
             s # {} /\ MergeKeeps(p, s \ {LastPair(s)}, acc)
               => MergeKeeps(p, s, Merge(p, LastPair(s), acc))
    BY <1>1, <1>2, <1>3
  <2> QED
    BY ONLY <2>1, Merging!FoldKeeps
<1>5. MergeKeeps(p, pairs, t)
  BY <1>4, TaughtIsAFold
<1> QED
  BY <1>5 DEF MergeKeeps, p

-----------------------------------------------------------------------------
(* One segment assigned: remembered, and a voice minted for a stranger.    *)
LEMMA LabelledType ==
  ASSUME NEW L, NEW span \in Stretch, NEW l \in L
  PROVE  /\ Labelled(span, l) \in SpansOf(L)
         /\ Labelled(span, l).end = span.end /\ span.end \in Nat
  BY DEF Labelled, SpansOf, Stretch

LEMMA SpansType ==
  ASSUME NEW L, NEW M, L \subseteq M
  PROVE  /\ SpansOf(L) \subseteq SpansOf(M)
         /\ \A s \in Seq(SpansOf(L)) : s \in Seq(SpansOf(M))
         /\ \A s \in SpansOf(L) : s.start \in Nat /\ s.end \in Nat /\ s.label \in L
<1>1. SpansOf(L) \subseteq SpansOf(M)
  BY DEF SpansOf
<1>2. \A s \in SpansOf(L) : s.start \in Nat /\ s.end \in Nat /\ s.label \in L
  BY DEF SpansOf
<1>3. \A s \in Seq(SpansOf(L)) : s \in Seq(SpansOf(M))
  BY <1>1
<1> QED
  BY <1>1, <1>2, <1>3

EndOf(r, all, horizon) ==
  \E k \in 1 .. Len(all) :
    /\ r = SubSeq(all, k, Len(all))
    /\ \A i \in 1 .. (k - 1) : all[i].end < horizon

LEMMA RememberedIs ==
  ASSUME NEW tr, NEW L, tr.resolved \in Seq(SpansOf(L)),
         NEW span \in Stretch, NEW label \in L
  PROVE  /\ Remembered(tr, span, label) \in Seq(SpansOf(L))
         /\ EndOf(Remembered(tr, span, label), Append(tr.resolved, Labelled(span, label)),
                  span.end - SegmentMemory)
<1> DEFINE all  == Append(tr.resolved, Labelled(span, label))
           Span == SpansOf(L)
           new  == Labelled(span, label)
           Fresh == {i \in 1 .. Len(all) : ~ (all[i].end < span.end - SegmentMemory)}
<1>1. new \in Span /\ new.end = span.end /\ span.end \in Nat
  BY LabelledType
<1>2. tr.resolved \in Seq(Span) /\ all = Append(tr.resolved, new)
  OBVIOUS
<1> HIDE DEF Span, new
<1>3. /\ all \in Seq(Span) /\ Len(all) = Len(tr.resolved) + 1 /\ Len(all) \in Nat
      /\ all[Len(all)] = new
  BY <1>1, <1>2, AppendProperties
<1>4. Len(all) >= 1 /\ all[Len(all)].end = span.end
  BY <1>1, <1>2, <1>3
<1>5. Len(all) \in Fresh /\ Fresh \subseteq Nat
  BY <1>1, <1>3, <1>4, TrackerAssumption
<1>6. \A i \in Nat : i \in Fresh <=> i \in 1 .. Len(all) /\ ~ (all[i].end < span.end - SegmentMemory)
  OBVIOUS
<1> HIDE DEF Fresh, all
<1>7. PICK f \in Fresh : \A j \in Fresh : f <= j
  BY <1>5, Merging!Least
<1>8. /\ f \in 1 .. Len(all) /\ ~ (all[f].end < span.end - SegmentMemory)
      /\ \A j \in 1 .. (f - 1) : all[j].end < span.end - SegmentMemory
  <2>1. f \in Nat /\ f \in 1 .. Len(all)
    BY <1>5, <1>6, <1>7
  <2>2. ASSUME NEW j \in 1 .. (f - 1) PROVE all[j].end < span.end - SegmentMemory
    <3>1. j \in Nat /\ j \in 1 .. Len(all) /\ ~ (f <= j)
      BY <1>3, <2>1
    <3> QED
      BY <1>6, <1>7, <3>1
  <2> QED
    BY <1>6, <1>7, <2>1, <2>2
<1> DEFINE stale(i) == all[i].end < span.end - SegmentMemory
           kept == CHOOSE i \in 1 .. Len(all) : ~ stale(i) /\ \A j \in 1 .. (i - 1) : stale(j)
<1>9. Remembered(tr, span, label) = SubSeq(all, kept, Len(all))
  BY DEF Remembered, Labelled, all
<1>10. kept \in 1 .. Len(all) /\ \A j \in 1 .. (kept - 1) : all[j].end < span.end - SegmentMemory
  BY <1>8
<1> HIDE DEF kept
<1>11. SubSeq(all, kept, Len(all)) \in Seq(Span)
  BY <1>3, <1>10, SubSeqProperties
<1> QED
  BY <1>3, <1>4, <1>9, <1>10, <1>11 DEF Span, EndOf, all

LEMMA LeastRecentIsLive ==
  ASSUME NEW tr, NEW gone, Fine(tr, gone), Live(tr) # {}
  PROVE  LeastRecent(tr) \in Live(tr)
<1> DEFINE c == tr.clusters
           V == Live(tr)
           Older(v, u) == c[v] < c[u] \/ (c[v] = c[u] /\ v <= u)
           R == {z \in V \X V : Older(z[2], z[1])}
<1>1. V \subseteq Nat /\ V \subseteq Numbers(tr) /\ c \in [V -> Nat]
  BY DEF Fine, Typed, Numbers
<1>2. IsFiniteSet(V)
  BY <1>1, FinitelyMany
<1> HIDE DEF c, V
<1>3. \A v, u \in V : <<v, u>> \in R <=> Older(u, v)
  OBVIOUS
<1>0. \A v \in V : v \in Nat /\ c[v] \in Nat
  BY <1>1
<1>4. \A v, u \in V : Older(u, v) \/ Older(v, u)
  BY ONLY <1>0
<1>5. \A v, u, w \in V : Older(u, v) /\ Older(w, u) => Older(w, v)
  BY ONLY <1>0
<1>6. \A v, u \in V : v = u \/ <<v, u>> \in R \/ <<u, v>> \in R
  BY <1>3, <1>4
<1>7. \A v, u, w \in V : <<v, u>> \in R /\ <<u, w>> \in R => <<v, w>> \in R
  <2> SUFFICES ASSUME NEW v \in V, NEW u \in V, NEW w \in V, <<v, u>> \in R, <<u, w>> \in R
               PROVE  <<v, w>> \in R
    OBVIOUS
  <2> HIDE DEF R, Older
  <2> QED
    BY <1>3, <1>5
<1>8. V # {}
  BY DEF V
<1>9. \E v \in V : \A u \in V : u = v \/ <<u, v>> \in R
  <2> HIDE DEF R
  <2> QED
    BY ONLY <1>2, <1>6, <1>7, <1>8, StillFinite, Merging!LastMember, SMTT(30)
<1>10. \E v \in V : \A u \in V : Older(v, u)
  <2>1. PICK v \in V : \A u \in V : u = v \/ <<u, v>> \in R
    BY <1>9
  <2>2. ASSUME NEW u \in V PROVE Older(v, u)
    <3>1. CASE u = v
      BY <1>4, <3>1
    <3>2. CASE <<u, v>> \in R
      <4> HIDE DEF R, Older
      <4> QED
        BY <1>3, <3>2
    <3> QED
      BY <2>1, <3>1, <3>2
  <2> QED
    BY <2>2
<1> QED
  BY <1>10 DEF LeastRecent, V, c

LEMMA NewClusterKeeps ==
  ASSUME NEW tr, NEW gone, Fine(tr, gone), NEW span \in Stretch,
         NEW end, Leads(tr, end), NEW t, t = WithNewCluster(tr, span)
  PROVE  /\ Fine(t, gone \cup (Live(tr) \ Live(t)))
         /\ t.next = tr.next + 1
         /\ t.resolved = Remembered(tr, span, tr.next)
         /\ t.merged = tr.merged
         /\ \E to : /\ Leads(t, to)
                    /\ \A i, j \in Numbers(tr) : end[i] = end[j] => to[i] = to[j]
<1> DEFINE n  == tr.next
           st == StayingLive(tr)
           cs == [l \in st \cup {n} |-> IF l = n THEN span.end ELSE tr.clusters[l]]
           rs == Remembered(tr, span, n)
           to == [l \in 0 .. n |-> IF l = n THEN n ELSE end[l]]
<1>1. /\ n \in Nat /\ Numbers(tr) = 0 .. (n - 1)
      /\ tr = [clusters |-> tr.clusters, resolved |-> tr.resolved,
               next |-> tr.next, merged |-> tr.merged]
      /\ tr.clusters \in [Live(tr) -> Nat]
      /\ tr.merged \in [Absorbed(tr) -> Numbers(tr)]
      /\ tr.resolved \in Seq(SpansOf(Numbers(tr)))
      /\ span.end \in Nat
  BY DEF Fine, Typed, Numbers, Stretch
<1>2. /\ Live(tr) \subseteq Numbers(tr) /\ Absorbed(tr) \subseteq Numbers(tr)
      /\ n \notin Numbers(tr) /\ Numbers(tr) \subseteq 0 .. n /\ n \in 0 .. n
      /\ 0 .. n = Numbers(tr) \cup {n}
  BY <1>1 DEF Fine
<1>3. /\ st \subseteq Live(tr)
      /\ IsFiniteSet(st) /\ Cardinality(st) \in Nat /\ Cardinality(st) + 1 <= MaxSpeakers
  <2>1. IsFiniteSet(Live(tr)) /\ Cardinality(Live(tr)) \in Nat
    BY <1>2, FinitelyMany
  <2>2. CASE Cardinality(Live(tr)) >= MaxSpeakers
    <3>1. Live(tr) # {}
      BY <2>1, <2>2, FS_EmptySet, TrackerAssumption
    <3>2. LeastRecent(tr) \in Live(tr) /\ st = Live(tr) \ {LeastRecent(tr)}
      BY <2>2, <3>1, LeastRecentIsLive DEF StayingLive
    <3>3. IsFiniteSet(st) /\ Cardinality(st) = Cardinality(Live(tr)) - 1
      BY <2>1, <3>2, FS_RemoveElement
    <3>4. Cardinality(st) \in Nat
      BY <3>3, FS_CardinalityType
    <3> HIDE DEF st
    <3> QED
      BY <2>1, <3>2, <3>3, <3>4, TrackerAssumption DEF Fine
  <2>3. CASE ~ (Cardinality(Live(tr)) >= MaxSpeakers)
    <3>1. st = Live(tr)
      BY <2>3 DEF StayingLive
    <3> QED
      BY <2>1, <2>3, <3>1, TrackerAssumption
  <2> QED
    BY <2>2, <2>3
<1>4. t = [clusters |-> cs, resolved |-> rs, next |-> n + 1, merged |-> tr.merged]
  <2>1. t = [tr EXCEPT !.clusters = cs, !.resolved = rs, !.next = n + 1]
    BY DEF WithNewCluster
  <2> HIDE DEF cs, rs, st
  <2> QED
    BY <1>1, <2>1
<1> HIDE DEF st
<1>5. cs \in [st \cup {n} -> Nat] /\ DOMAIN cs = st \cup {n}
  BY <1>1, <1>3
<1>6. rs \in Seq(SpansOf(0 .. n))
  <2>2. tr.resolved \in Seq(SpansOf(0 .. n))
    BY <1>1, <1>2, SpansType
  <2> DEFINE L == 0 .. n
  <2>4. /\ span \in Stretch /\ n \in L
        /\ tr.resolved \in Seq(SpansOf(L))
    BY <1>2, <2>2
  <2> HIDE DEF L
  <2>5. rs \in Seq(SpansOf(L))
    BY ONLY <2>4, RememberedIs
  <2> QED
    BY <2>5 DEF L
<1> HIDE DEF cs, rs
<1>7. /\ Numbers(t) = 0 .. n /\ Live(t) = st \cup {n} /\ Absorbed(t) = Absorbed(tr)
      /\ t.merged = tr.merged /\ t.next = n + 1 /\ t.clusters = cs /\ t.resolved = rs
  BY <1>1, <1>4, <1>5 DEF Numbers, Live, Absorbed
<1>8. Typed(t)
  <2>1. t.merged \in [Absorbed(t) -> Numbers(t)]
    BY <1>1, <1>2, <1>7
  <2>2. t.resolved \in Seq(SpansOf(Numbers(t)))
    BY <1>6, <1>7
  <2>3. t.clusters \in [Live(t) -> Nat] /\ t.next \in Nat
    BY <1>1, <1>5, <1>7
  <2>4. t = [clusters |-> t.clusters, resolved |-> t.resolved, next |-> t.next, merged |-> t.merged]
    BY <1>4, <1>7
  <2> QED
    BY ONLY <2>1, <2>2, <2>3, <2>4 DEF Typed
<1>9. Leads(t, to)
  <2>1. end \in [Numbers(tr) -> Numbers(tr) \ Absorbed(tr)]
    BY DEF Leads
  <2>2. to \in [0 .. n -> (0 .. n) \ Absorbed(tr)]
    BY <1>2, <2>1
  <2>3. ASSUME NEW l \in 0 .. n
        PROVE  IF l \in Absorbed(tr) THEN to[l] = to[tr.merged[l]] ELSE to[l] = l
    <3>1. CASE l = n
      BY <1>2, <3>1
    <3>2. CASE l \in Absorbed(tr)
      <4>1. tr.merged[l] \in Numbers(tr) /\ end[l] = end[tr.merged[l]]
        BY <1>1, <1>2, <3>2 DEF Leads
      <4> QED
        BY <1>2, <3>2, <4>1
    <3>3. CASE l \in Numbers(tr) \ Absorbed(tr)
      <4>1. end[l] = l
        BY <3>3 DEF Leads
      <4> QED
        BY <1>2, <3>3, <4>1
    <3> QED
      BY <1>2, <3>1, <3>2, <3>3
  <2> HIDE DEF to
  <2>4. /\ to \in [Numbers(t) -> Numbers(t) \ Absorbed(t)]
        /\ \A l \in Numbers(t) :
             IF l \in Absorbed(t) THEN to[l] = to[t.merged[l]] ELSE to[l] = l
    BY ONLY <1>7, <2>2, <2>3
  <2> QED
    BY ONLY <2>4 DEF Leads
<1>10. \A i, j \in Numbers(tr) : end[i] = end[j] => to[i] = to[j]
  BY <1>2
<1> HIDE DEF to
<1>11. Cardinality(Live(t)) <= MaxSpeakers
  <2>1. n \notin st
    BY <1>2, <1>3
  <2>2. Cardinality(st \cup {n}) = Cardinality(st) + 1
    BY <1>3, <2>1, FS_AddElement
  <2> QED
    BY <1>3, <1>7, <2>2, TrackerAssumption
<1>12. Fine(t, gone \cup (Live(tr) \ Live(t)))
  <2>1. /\ Live(tr) \cup gone \cup Absorbed(tr) = Numbers(tr)
        /\ Live(tr) \cap gone = {} /\ (Live(tr) \cup gone) \cap Absorbed(tr) = {}
        /\ \A l \in Absorbed(tr) : SortsBefore(tr.merged[l], l)
    BY DEF Fine
  <2> DEFINE left == gone \cup (Live(tr) \ Live(t))
  <2>2. /\ Live(t) \cup left \cup Absorbed(t) = Numbers(t)
        /\ Live(t) \cap left = {} /\ (Live(t) \cup left) \cap Absorbed(t) = {}
    BY <1>2, <1>3, <1>7, <2>1
  <2>3. \A l \in Absorbed(t) : SortsBefore(t.merged[l], l)
    BY <1>4, <1>7, <2>1
  <2> HIDE DEF left
  <2>4. Fine(t, left)
    BY <1>8, <1>9, <1>11, <2>2, <2>3 DEF Fine
  <2> QED
    BY <2>4 DEF left
<1> QED
  BY <1>4, <1>9, <1>10, <1>12 DEF rs

LEMMA HeardAgainKeeps ==
  ASSUME NEW tr, NEW gone, Fine(tr, gone), NEW span \in Stretch,
         NEW voice \in Live(tr), voice # None, voice # Stranger, NEW end, Leads(tr, end),
         NEW t, t = Assigned(tr, span, voice)
  PROVE  /\ Fine(t, gone)
         /\ t.next = tr.next /\ Live(t) = Live(tr) /\ t.merged = tr.merged
         /\ t.resolved = Remembered(tr, span, voice)
         /\ Leads(t, end)
<1> DEFINE cs == [tr.clusters EXCEPT ![voice] = span.end]
           rs == Remembered(tr, span, voice)
<1>1. /\ tr = [clusters |-> tr.clusters, resolved |-> tr.resolved,
               next |-> tr.next, merged |-> tr.merged]
      /\ tr.next \in Nat
      /\ tr.clusters \in [Live(tr) -> Nat]
      /\ tr.merged \in [Absorbed(tr) -> Numbers(tr)]
      /\ tr.resolved \in Seq(SpansOf(Numbers(tr)))
      /\ span.end \in Nat
      /\ Live(tr) \subseteq Numbers(tr)
  BY DEF Fine, Typed, Stretch
<1>2. cs \in [Live(tr) -> Nat] /\ DOMAIN cs = Live(tr)
  BY <1>1
<1>3. rs \in Seq(SpansOf(Numbers(tr)))
  <2>2. span \in Stretch /\ voice \in Numbers(tr)
    BY <1>1
  <2> QED
    BY ONLY <1>1, <2>2, RememberedIs
<1> HIDE DEF rs
<1>4. t = [clusters |-> cs, resolved |-> rs, next |-> tr.next, merged |-> tr.merged]
  <2>1. t = [tr EXCEPT !.clusters[voice] = span.end, !.resolved = rs]
    BY DEF rs, Assigned
  <2>2. t = [tr EXCEPT !.clusters = cs, !.resolved = rs]
    BY ONLY <1>1, <2>1
  <2> HIDE DEF cs
  <2> QED
    BY ONLY <1>1, <2>2
<1> HIDE DEF cs
<1>5. /\ Numbers(t) = Numbers(tr) /\ Live(t) = Live(tr) /\ Absorbed(t) = Absorbed(tr)
      /\ t.merged = tr.merged /\ t.next = tr.next /\ t.clusters = cs /\ t.resolved = rs
  BY <1>1, <1>2, <1>4 DEF Numbers, Live, Absorbed
<1>6. Typed(t)
  <2>1. /\ t.merged \in [Absorbed(t) -> Numbers(t)]
        /\ t.resolved \in Seq(SpansOf(Numbers(t)))
        /\ t.clusters \in [Live(t) -> Nat] /\ t.next \in Nat
    BY ONLY <1>1, <1>2, <1>3, <1>5
  <2>2. t = [clusters |-> t.clusters, resolved |-> t.resolved, next |-> t.next, merged |-> t.merged]
    BY <1>4, <1>5
  <2> QED
    BY ONLY <2>1, <2>2 DEF Typed
<1>7. Leads(t, end)
  BY <1>5 DEF Leads
<1>8. Fine(t, gone)
  <2>1. /\ Live(tr) \cup gone \cup Absorbed(tr) = Numbers(tr)
        /\ Live(tr) \cap gone = {} /\ (Live(tr) \cup gone) \cap Absorbed(tr) = {}
        /\ Cardinality(Live(tr)) <= MaxSpeakers
        /\ \A l \in Absorbed(tr) : SortsBefore(tr.merged[l], l)
    BY DEF Fine
  <2> QED
    BY ONLY <1>5, <1>6, <1>7, <2>1 DEF Fine
<1> QED
  BY <1>5, <1>7, <1>8 DEF rs

(* assign, whoever is heard: labels that lead to one voice go on doing so, *)
(* and the segment is remembered under a label the tracker has minted.     *)
LEMMA AssignedKeeps ==
  ASSUME NEW tr, NEW gone, Fine(tr, gone), NEW span \in Stretch,
         NEW voice \in Voices(tr), NEW end, Leads(tr, end),
         NEW t, t = Assigned(tr, span, voice)
  PROVE  /\ Fine(t, gone \cup (Live(tr) \ Live(t)))
         /\ t.next \in {tr.next, tr.next + 1}
         /\ t.merged = tr.merged
         /\ \E to : /\ Leads(t, to)
                    /\ \A i, j \in Numbers(tr) : end[i] = end[j] => to[i] = to[j]
         /\ \/ voice = None /\ t.resolved = tr.resolved
            \/ /\ voice # None
               /\ \E label \in Numbers(t) : t.resolved = Remembered(tr, span, label)
<1>1. /\ Numbers(tr) = 0 .. (tr.next - 1) /\ tr.next \in Nat
      /\ Live(tr) \subseteq Numbers(tr)
  BY DEF Fine, Typed, Numbers
<1>2. CASE voice = None
  <2>1. t = tr
    BY <1>2 DEF Assigned
  <2> QED
    BY <1>2, <2>1
<1>3. CASE voice = Stranger /\ voice # None
  <2>1. t = WithNewCluster(tr, span)
    BY <1>3 DEF Assigned
  <2>2. /\ Fine(t, gone \cup (Live(tr) \ Live(t)))
        /\ t.next = tr.next + 1 /\ t.merged = tr.merged
        /\ t.resolved = Remembered(tr, span, tr.next)
        /\ \E to : /\ Leads(t, to)
                   /\ \A i, j \in Numbers(tr) : end[i] = end[j] => to[i] = to[j]
    BY <2>1, NewClusterKeeps
  <2>3. tr.next \in Numbers(t)
    BY <1>1, <2>2 DEF Numbers
  <2> QED
    BY <1>3, <2>2, <2>3
<1>4. CASE voice \in Live(tr) /\ voice # None /\ voice # Stranger
  <2>2. /\ Fine(t, gone) /\ t.next = tr.next /\ Live(t) = Live(tr) /\ t.merged = tr.merged
        /\ t.resolved = Remembered(tr, span, voice)
        /\ Leads(t, end)
    BY <1>4, HeardAgainKeeps
  <2>3. gone \cup (Live(tr) \ Live(t)) = gone
    BY <2>2
  <2>4. voice \in Numbers(t)
    BY <1>1, <1>4, <2>2 DEF Numbers
  <2> QED
    BY <1>4, <2>2, <2>3, <2>4
<1> QED
  BY <1>2, <1>3, <1>4 DEF Voices

-----------------------------------------------------------------------------
(* Following the merges.                                                   *)
LEMMA ResolveIsAFold ==
  ASSUME NEW tr, NEW label, NEW p, p.tr = tr
  PROVE  Resolve(tr, label) = Walking!Fold(p, label, Absorbed(tr))
  BY DEF Resolve, FoldSet, MapThenFoldSet, Walking!Fold, Walking!Folds, Walk, Some

LEMMA OneStepCloser ==
  ASSUME NEW tr, NEW gone, Fine(tr, gone), NEW l \in Absorbed(tr), tr.merged[l] \in Absorbed(tr)
  PROVE  /\ Cardinality(Behind(tr, l)) \in Nat
         /\ Cardinality(Behind(tr, tr.merged[l])) \in Nat
         /\ Cardinality(Behind(tr, tr.merged[l])) < Cardinality(Behind(tr, l))
<1> DEFINE k == tr.merged[l]
<1>1. /\ Absorbed(tr) \subseteq Numbers(tr) /\ Numbers(tr) \subseteq Nat
      /\ SortsBefore(k, l) /\ k \in Absorbed(tr)
  BY DEF Fine, Typed, Numbers
<1> HIDE DEF k
<1>2. Behind(tr, k) \subseteq Behind(tr, l)
  BY <1>1, SortsTransitive DEF Behind
<1>3. l \in Behind(tr, l) /\ l \notin Behind(tr, k)
  <2>1. k # l /\ ~ SortsBefore(l, k)
    BY <1>1, SortsStrict, SortsTransitive
  <2> QED
    BY <2>1 DEF Behind
<1>4. Behind(tr, l) \subseteq Numbers(tr) /\ Behind(tr, k) \subseteq Numbers(tr)
  BY <1>1 DEF Behind
<1>5. /\ IsFiniteSet(Behind(tr, l)) /\ Cardinality(Behind(tr, l)) \in Nat
      /\ Cardinality(Behind(tr, k)) \in Nat
  BY <1>4, FinitelyMany
<1>6. Behind(tr, l) # Behind(tr, k)
  BY <1>3
<1>7. /\ Cardinality(Behind(tr, k)) <= Cardinality(Behind(tr, l))
      /\ Cardinality(Behind(tr, k)) # Cardinality(Behind(tr, l))
  BY ONLY <1>2, <1>5, <1>6, FS_Subset
<1>8. Cardinality(Behind(tr, k)) < Cardinality(Behind(tr, l))
  BY ONLY <1>5, <1>7
<1> QED
  BY <1>5, <1>8 DEF k

LEMMA WalkedOn ==
  ASSUME NEW tr, NEW gone, Fine(tr, gone), NEW end, Leads(tr, end), NEW from,
         NEW p, p = [tr |-> tr, end |-> end, from |-> from],
         NEW l, NEW s \in SUBSET Absorbed(tr), NEW x \in s, Walked(p, s \ {x}, l)
  PROVE  Walked(p, s, Follow(tr, l))
<1>1. Absorbed(tr) \subseteq Numbers(tr) /\ tr.merged \in [Absorbed(tr) -> Numbers(tr)]
  BY DEF Fine, Typed
<1>2. /\ l \in Numbers(tr) /\ end[l] = end[from]
      /\ l \in Absorbed(tr) =>
           Cardinality(Behind(tr, l)) + Cardinality(s \ {x}) <= Cardinality(Absorbed(tr))
  BY DEF Walked
<1>3. /\ IsFiniteSet(s) /\ Cardinality(s) \in Nat /\ Cardinality(Absorbed(tr)) \in Nat
  BY <1>1, FinitelyMany
<1>4. Cardinality(s \ {x}) = Cardinality(s) - 1
  BY <1>3, FS_RemoveElement
<1>5. CASE l \notin Absorbed(tr)
  BY <1>2, <1>5 DEF Walked, Follow
<1>6. CASE l \in Absorbed(tr)
  <2> DEFINE k == tr.merged[l]
  <2>1. Follow(tr, l) = k /\ k \in Numbers(tr) /\ end[k] = end[from]
    BY <1>1, <1>2, <1>6 DEF Follow, Leads
  <2>2. ASSUME k \in Absorbed(tr)
        PROVE  Cardinality(Behind(tr, k)) + Cardinality(s) <= Cardinality(Absorbed(tr))
    <3>1. /\ Cardinality(Behind(tr, l)) \in Nat /\ Cardinality(Behind(tr, k)) \in Nat
          /\ Cardinality(Behind(tr, k)) < Cardinality(Behind(tr, l))
      BY <1>6, <2>2, OneStepCloser
    <3>2. Cardinality(Behind(tr, l)) + (Cardinality(s) - 1) <= Cardinality(Absorbed(tr))
      BY <1>2, <1>4, <1>6
    <3> QED
      BY ONLY <1>3, <3>1, <3>2
  <2> HIDE DEF k
  <2> QED
    BY <2>1, <2>2 DEF Walked
<1> QED
  BY <1>5, <1>6

(* Resolve finds the one voice a label leads to.                           *)
LEMMA ResolveIsTheEnd ==
  ASSUME NEW tr, NEW gone, Fine(tr, gone), NEW end, Leads(tr, end), NEW l \in Numbers(tr)
  PROVE  /\ Resolve(tr, l) = end[l]
         /\ Resolve(tr, l) \in Numbers(tr)
         /\ Resolve(tr, l) \notin Absorbed(tr)
<1> DEFINE p == [tr |-> tr, end |-> end, from |-> l]
<1>0. p.tr = tr /\ p.end = end /\ p.from = l
  OBVIOUS
<1>1. /\ Absorbed(tr) \subseteq Numbers(tr) /\ IsFiniteSet(Absorbed(tr))
      /\ Cardinality(Absorbed(tr)) \in Nat
  <2>1. Absorbed(tr) \subseteq Numbers(tr)
    BY DEF Fine
  <2> QED
    BY <2>1, FinitelyMany
<1>2. Walking!Picks(Absorbed(tr))
  BY <1>1, StillFinite DEF Walking!Picks, Some
<1>3. Walked(p, {}, l)
  <2>1. Behind(tr, l) \subseteq Absorbed(tr)
    BY DEF Behind
  <2>2. Cardinality(Behind(tr, l)) <= Cardinality(Absorbed(tr)) /\ Cardinality(Behind(tr, l)) \in Nat
    BY <1>1, <2>1, FS_Subset, FS_CardinalityType
  <2>3. Cardinality(Behind(tr, l)) + Cardinality({}) <= Cardinality(Absorbed(tr))
    BY <1>1, <2>2, FS_EmptySet
  <2> QED
    BY <2>3 DEF Walked
<1>4. ASSUME NEW acc, NEW s \in SUBSET Absorbed(tr), s # {}, Walked(p, s \ {Some(s)}, acc)
      PROVE  Walked(p, s, Walk(p, Some(s), acc))
  <2>1. Some(s) \in s
    BY <1>4 DEF Some
  <2>2. Walked(p, s, Follow(tr, acc))
    BY <1>4, <2>1, WalkedOn
  <2> QED
    BY <2>2 DEF Walk
<1> HIDE DEF p
<1>5. Walked(p, Absorbed(tr), Walking!Fold(p, l, Absorbed(tr)))
  <2>1. /\ Walking!Picks(Absorbed(tr)) /\ Walked(p, {}, l)
        /\ \A acc : \A s \in SUBSET Absorbed(tr) :
             s # {} /\ Walked(p, s \ {Some(s)}, acc) => Walked(p, s, Walk(p, Some(s), acc))
    BY <1>2, <1>3, <1>4
  <2> QED
    BY ONLY <2>1, Walking!FoldKeeps
<1> DEFINE r == Resolve(tr, l)
<1>6. Walked(p, Absorbed(tr), r)
  BY <1>0, <1>5, ResolveIsAFold
<1> HIDE DEF r
<1>7. /\ r \in Numbers(tr) /\ end[r] = end[l]
      /\ r \in Absorbed(tr) =>
           Cardinality(Behind(tr, r)) + Cardinality(Absorbed(tr)) <= Cardinality(Absorbed(tr))
  BY <1>0, <1>6 DEF Walked
<1>8. r \notin Absorbed(tr)
  <2> SUFFICES ASSUME r \in Absorbed(tr) PROVE FALSE
    OBVIOUS
  <2>1. r \in Behind(tr, r) /\ Behind(tr, r) \subseteq Absorbed(tr)
    BY DEF Behind
  <2>2. IsFiniteSet(Behind(tr, r)) /\ Cardinality(Behind(tr, r)) \in Nat
    BY <1>1, <2>1, FS_Subset, FS_CardinalityType
  <2>3. Cardinality(Behind(tr, r)) # 0
    BY <2>1, <2>2, FS_EmptySet
  <2> QED
    BY <1>1, <1>7, <2>2, <2>3
<1>9. end[r] = r
  BY <1>7, <1>8 DEF Leads
<1> QED
  BY <1>7, <1>8, <1>9 DEF r

-----------------------------------------------------------------------------
(* The inductive invariant.  Beside the tracker's own part of it, it says  *)
(* that a word's answer is a label minted, and that what the tracker       *)
(* remembers is the end of everything ever remembered, the rest being too  *)
(* old by the clock of the last span.                                      *)
Remembers(resolved, all) ==
  \E k \in 0 .. Len(all) :
    /\ Len(resolved) = Len(all) - k
    /\ \A i \in 1 .. Len(resolved) : resolved[i] = all[i + k]
    /\ \A i \in 1 .. k : all[i].end < all[Len(all)].end - SegmentMemory

HistoryIsKept ==
  /\ spans \in Seq(SpansOf(Numbers(tracker)))
  /\ Remembers(tracker.resolved, spans)
  /\ spans # << >> => heard > 0 /\ spans[Len(spans)].end <= Segments[heard].end

IInv ==
  /\ heard \in 0 .. Len(Segments)
  /\ tracker.next <= heard
  /\ Fine(tracker, evicted)
  /\ DOMAIN answers \subseteq Spoken
  /\ \A word \in DOMAIN answers : answers[word] \in Numbers(tracker)
  /\ HistoryIsKept

LEMMA Suffix ==
  ASSUME NEW S, NEW s \in Seq(S), NEW k \in 1 .. Len(s)
  PROVE  /\ Len(s) \in Nat /\ k \in Nat
         /\ SubSeq(s, k, Len(s)) \in Seq(S)
         /\ Len(SubSeq(s, k, Len(s))) = Len(s) - k + 1
         /\ \A i \in 1 .. (Len(s) - k + 1) : SubSeq(s, k, Len(s))[i] = s[k + i - 1]
<1>1. Len(s) \in Nat /\ k \in Nat /\ 1 <= k /\ k <= Len(s)
  BY LenProperties
<1>2. \A i \in k .. Len(s) : s[i] \in S
  BY <1>1, ElementOfSeq
<1>3. /\ SubSeq(s, k, Len(s)) \in Seq(S)
      /\ Len(SubSeq(s, k, Len(s))) = IF k <= Len(s) THEN Len(s) - k + 1 ELSE 0
      /\ \A i \in 1 .. (Len(s) - k + 1) : SubSeq(s, k, Len(s))[i] = s[k + i - 1]
  BY <1>1, <1>2, SubSeqProperties
<1> QED
  BY <1>1, <1>3

LEMMA RemembersStill ==
  ASSUME NEW Span, \A s \in Span : s.end \in Nat,
         NEW resolved \in Seq(Span), NEW past \in Seq(Span), Remembers(resolved, past),
         NEW new \in Span, past = << >> \/ past[Len(past)].end <= new.end,
         NEW r, EndOf(r, Append(resolved, new), new.end - SegmentMemory)
  PROVE  /\ r[Len(r)] = new
         /\ Append(past, new) \in Seq(Span)
         /\ Append(past, new)[Len(Append(past, new))] = new
         /\ Remembers(r, Append(past, new))
<1> DEFINE all  == Append(resolved, new)
           then == Append(past, new)
<1> DEFINE L == Len(past)
           R == Len(resolved)
<1>0. PICK k \in 1 .. Len(all) :
        /\ r = SubSeq(all, k, Len(all))
        /\ \A i \in 1 .. (k - 1) : all[i].end < new.end - SegmentMemory
  BY DEF EndOf
<1>1. PICK j \in 0 .. L :
        /\ R = L - j
        /\ \A i \in 1 .. R : resolved[i] = past[i + j]
        /\ \A i \in 1 .. j : past[i].end < past[L].end - SegmentMemory
  BY DEF Remembers
<1>2. L \in Nat /\ R \in Nat
  BY LenProperties
<1>3. /\ all \in Seq(Span) /\ Len(all) = R + 1 /\ all[R + 1] = new
      /\ \A i \in 1 .. R : all[i] = resolved[i]
  BY AppendProperties
<1>4. /\ then \in Seq(Span) /\ Len(then) = L + 1 /\ then[L + 1] = new
      /\ \A i \in 1 .. L : then[i] = past[i]
  BY AppendProperties
<1> HIDE DEF all, then
<1>5. /\ k \in Nat /\ Len(r) = R + 1 - k + 1
      /\ \A i \in 1 .. (R + 1 - k + 1) : r[i] = all[k + i - 1]
  <2>1. /\ Len(all) \in Nat /\ k \in Nat
        /\ Len(SubSeq(all, k, Len(all))) = Len(all) - k + 1
        /\ \A i \in 1 .. (Len(all) - k + 1) : SubSeq(all, k, Len(all))[i] = all[k + i - 1]
    BY <1>3, Suffix
  <2> QED
    BY ONLY <1>0, <1>3, <2>1
<1>6. k >= 1 /\ k <= R + 1
  BY <1>2, <1>3
<1>7. ASSUME NEW i \in 1 .. L PROVE past[i].end \in Nat
  <2>1. past[i] \in Span
    BY ElementOfSeq
  <2> QED
    BY <2>1
<1>8. new.end \in Nat /\ (L > 0 => past[L].end <= new.end)
  <2>1. L > 0 => past # << >>
    BY EmptySeq
  <2> QED
    BY <2>1
<1> HIDE DEF L, R
<1>9. r[Len(r)] = new
  <2>1. Len(r) \in 1 .. (R + 1 - k + 1) /\ k + Len(r) - 1 = R + 1
    BY <1>2, <1>5, <1>6
  <2> QED
    BY <1>3, <1>5, <2>1
<1>10. PICK m \in Nat : m = j + k - 1 /\ m <= L + 1
  <2>1. j + k - 1 \in Nat /\ j + k - 1 <= L + 1
    BY <1>1, <1>2, <1>5, <1>6
  <2> QED
    BY <2>1
<1>11. Len(r) = L + 1 - m
  BY <1>1, <1>2, <1>5, <1>6, <1>10
<1>12. ASSUME NEW i \in 1 .. Len(r) PROVE r[i] = then[i + m]
  <2>1. i \in Nat /\ i \in 1 .. (R + 1 - k + 1) /\ r[i] = all[k + i - 1]
    BY ONLY <1>2, <1>5, <1>12
  <2>2. PICK a \in Nat : a = k + i - 1 /\ a >= 1 /\ a <= R + 1 /\ i + m = a + j
    BY <1>1, <1>2, <1>5, <1>6, <1>10, <2>1
  <2>3. CASE a = R + 1
    <3>1. i + m = L + 1
      BY <1>1, <1>2, <2>2, <2>3
    <3> QED
      BY <1>3, <1>4, <2>1, <2>2, <2>3, <3>1
  <2>4. CASE a <= R
    <3>1. a \in 1 .. R /\ a + j \in 1 .. L
      BY <1>1, <1>2, <2>2, <2>4
    <3>2. all[a] = past[a + j] /\ then[a + j] = past[a + j]
      BY <1>1, <1>3, <1>4, <3>1
    <3> QED
      BY <2>1, <2>2, <3>2
  <2>5. a = R + 1 \/ a <= R
    BY ONLY <1>2, <2>2
  <2> QED
    BY <2>3, <2>4, <2>5
<1>13. ASSUME NEW i \in 1 .. m PROVE then[i].end < new.end - SegmentMemory
  <2>1. CASE i <= j
    <3>1. i \in 1 .. L /\ L > 0 /\ i \in 1 .. j /\ L \in 1 .. L
      BY <1>1, <1>2, <2>1
    <3>2. past[i].end < past[L].end - SegmentMemory /\ then[i] = past[i]
      BY <1>1, <1>4, <3>1
    <3>3. past[L].end <= new.end /\ past[L].end \in Nat /\ past[i].end \in Nat /\ new.end \in Nat
      BY <1>7, <1>8, <3>1
    <3>4. past[i].end < new.end - SegmentMemory
      <4>1. \A a, b, c \in Nat : a < b - SegmentMemory /\ b <= c => a < c - SegmentMemory
        BY TrackerAssumption
      <4> QED
        BY ONLY <3>2, <3>3, <4>1
    <3> QED
      BY <3>2, <3>4
  <2>2. CASE i > j
    <3>1. PICK a \in Nat : a = i - j /\ a \in 1 .. (k - 1) /\ a \in 1 .. R /\ a + j = i /\ i \in 1 .. L
      BY <1>1, <1>2, <1>5, <1>6, <1>10, <2>2
    <3>2. all[a] = past[a + j] /\ all[a].end < new.end - SegmentMemory
      BY <1>0, <1>1, <1>3, <3>1
    <3> QED
      BY <1>4, <3>1, <3>2
  <2>3. i <= j \/ i > j
    BY ONLY <1>1, <1>2, <1>10, <1>13
  <2> QED
    BY <2>1, <2>2, <2>3
<1>14. Remembers(r, then)
  <2>1. m \in 0 .. Len(then) /\ Len(r) = Len(then) - m /\ then[Len(then)] = new
    BY <1>2, <1>4, <1>10, <1>11
  <2> QED
    BY <1>12, <1>13, <2>1 DEF Remembers
<1> QED
  BY <1>4, <1>9, <1>14 DEF then

(* What is remembered once `all` has grown by the last span of `resolved`. *)
Continues(L, end, resolved, all) ==
  LET then == Append(all, resolved[Len(resolved)])
  IN  /\ then \in Seq(SpansOf(L))
      /\ then[Len(then)].end = end
      /\ Remembers(resolved, then)

LEMMA RememberedStill ==
  ASSUME NEW tr, NEW L, L \subseteq Nat, tr.resolved \in Seq(SpansOf(L)),
         NEW span \in Stretch, NEW label \in L,
         NEW past \in Seq(SpansOf(L)), Remembers(tr.resolved, past),
         past = << >> \/ past[Len(past)].end <= span.end
  PROVE  Continues(L, span.end, Remembered(tr, span, label), past)
<1> DEFINE r == Remembered(tr, span, label)
<1>1. PICK new, Span, resolved :
        new = Labelled(span, label) /\ Span = SpansOf(L) /\ resolved = tr.resolved
  OBVIOUS
<1>2. new \in Span /\ new.end = span.end
  BY <1>1, LabelledType
<1>3. \A s \in Span : s.end \in Nat
  BY <1>1, SpansType
<1>4. EndOf(r, Append(resolved, new), new.end - SegmentMemory)
  <2>1. EndOf(Remembered(tr, span, label), Append(tr.resolved, Labelled(span, label)),
              span.end - SegmentMemory)
    BY RememberedIs
  <2> QED
    BY <1>1, <1>2, <2>1
<1>5. /\ resolved \in Seq(Span) /\ past \in Seq(Span) /\ Remembers(resolved, past)
      /\ past = << >> \/ past[Len(past)].end <= new.end
  BY <1>1, <1>2
<1> HIDE DEF r
<1>6. /\ r[Len(r)] = new
      /\ Append(past, new) \in Seq(Span)
      /\ Append(past, new)[Len(Append(past, new))] = new
      /\ Remembers(r, Append(past, new))
  BY ONLY <1>2, <1>3, <1>4, <1>5, RemembersStill
<1> QED
  BY <1>1, <1>2, <1>6 DEF r, Continues

LEMMA SegmentsInOrder ==
  ASSUME NEW i \in 0 .. Len(Segments), i < Len(Segments)
  PROVE  /\ i + 1 \in 1 .. Len(Segments)
         /\ Segments[i + 1] \in Stretch
         /\ i > 0 => Segments[i].end <= Segments[i + 1].end
<1>1. Segments \in Seq(Stretch) /\ Len(Segments) \in Nat
  BY LabellingAssumption DEF Stretch
<1>2. DOMAIN Segments = 1 .. Len(Segments) /\ i + 1 \in 1 .. Len(Segments)
  BY <1>1, LenProperties
<1>3. Segments[i + 1] \in Stretch
  BY <1>1, <1>2, ElementOfSeq
<1>4. ASSUME i > 0 PROVE Segments[i].end <= Segments[i + 1].end
  <2>1. i \in 1 .. Len(Segments)
    BY <1>1, <1>4
  <2>2. Segments[i] \in Stretch
    BY <1>1, <2>1, ElementOfSeq
  <2>3. /\ Segments[i].end <= Segments[i + 1].start
        /\ Segments[i + 1].start < Segments[i + 1].end
    <3>1. i \in DOMAIN Segments /\ i + 1 \in DOMAIN Segments /\ i < i + 1
      BY <1>2, <2>1
    <3> QED
      BY <3>1, LabellingAssumption
  <2>4. Segments[i].end \in Nat /\ Segments[i + 1].start \in Nat /\ Segments[i + 1].end \in Nat
    BY <1>3, <2>2 DEF Stretch
  <2> QED
    BY ONLY <2>3, <2>4
<1> QED
  BY <1>2, <1>3, <1>4

(* What one segment does to what is remembered.                            *)
LEMMA HistoryStep ==
  ASSUME IInv, heard < Len(Segments), NEW voice \in Voices(tracker),
         NEW span, span = Segments[heard + 1], NEW base, base = Assigned(tracker, span, voice),
         spans' = IF voice = None THEN spans
                  ELSE Append(spans, base.resolved[Len(base.resolved)]),
         heard' = heard + 1, tracker'.next = base.next, tracker'.resolved = base.resolved,
         tracker.next <= base.next, base.next \in Nat,
         \/ voice = None /\ base.resolved = tracker.resolved
         \/ /\ voice # None
            /\ \E label \in Numbers(base) : base.resolved = Remembered(tracker, span, label)
  PROVE  HistoryIsKept'
<1> DEFINE Span == SpansOf(Numbers(base))
<1>1. /\ Numbers(tracker') = Numbers(base)
      /\ Numbers(tracker) \subseteq Numbers(base) /\ Numbers(base) \subseteq Nat
  BY DEF Numbers, IInv, Fine, Typed
<1>2. tracker.resolved \in Seq(Span) /\ spans \in Seq(Span)
  <2> DEFINE Old == SpansOf(Numbers(tracker))
  <2>1. \A s \in Seq(Old) : s \in Seq(Span)
    BY <1>1, SpansType
  <2>2. tracker.resolved \in Seq(Old) /\ spans \in Seq(Old)
    BY DEF IInv, HistoryIsKept, Fine, Typed
  <2> QED
    BY <2>1, <2>2
<1>3. /\ span \in Stretch /\ span.end \in Nat
      /\ heard \in 0 .. Len(Segments)
      /\ heard > 0 => Segments[heard].end <= span.end
      /\ heard' > 0 /\ Segments[heard'] = span
  <2>1. heard \in 0 .. Len(Segments)
    BY DEF IInv
  <2>2. /\ span \in Stretch
        /\ heard > 0 => Segments[heard].end <= span.end
    BY <2>1, SegmentsInOrder
  <2>3. heard' > 0 /\ Segments[heard'] = span
    BY <2>1
  <2> QED
    BY <2>1, <2>2, <2>3 DEF Stretch
<1> HIDE DEF Span
<1>6. ASSUME spans # << >> PROVE spans[Len(spans)].end <= span.end
  <2>1. heard > 0 /\ spans[Len(spans)].end <= Segments[heard].end
    BY <1>6 DEF IInv, HistoryIsKept
  <2>2. Len(spans) \in 1 .. Len(spans)
    BY <1>2, <1>6, EmptySeq
  <2>3. spans[Len(spans)] \in Span
    BY <1>2, <2>2, ElementOfSeq
  <2>4. heard \in 1 .. Len(Segments)
    BY <1>3, <2>1
  <2>5. Segments[heard] \in Stretch
    BY <2>4, ElementOfSeq, LabellingAssumption DEF Stretch
  <2>6. /\ spans[Len(spans)].end \in Nat /\ Segments[heard].end \in Nat
        /\ Segments[heard].end <= span.end
    BY <1>3, <2>1, <2>3, <2>5, SpansType DEF Span, Stretch
  <2> QED
    BY ONLY <1>3, <2>1, <2>6
<1>4. CASE voice = None
  <2>1. spans' = spans /\ tracker'.resolved = tracker.resolved
    BY <1>4
  <2>2. spans # << >> => heard' > 0 /\ spans[Len(spans)].end <= Segments[heard'].end
    BY <1>3, <1>6
  <2>3. Remembers(tracker'.resolved, spans')
    BY <2>1 DEF IInv, HistoryIsKept
  <2> QED
    BY <1>1, <1>2, <2>1, <2>2, <2>3 DEF HistoryIsKept, Span
<1>5. CASE voice # None
  <2>1. PICK label \in Numbers(base) : base.resolved = Remembered(tracker, span, label)
    BY <1>5
  <2>2. PICK tr, L, past, then :
          tr = tracker /\ L = Numbers(base) /\ past = spans /\ then = spans'
    OBVIOUS
  <2>3. /\ L \subseteq Nat /\ tr.resolved \in Seq(SpansOf(L))
        /\ label \in L /\ past \in Seq(SpansOf(L))
        /\ Remembers(tr.resolved, past)
        /\ past # << >> => past[Len(past)].end <= span.end
    BY <1>1, <1>2, <1>6, <2>1, <2>2 DEF Span, IInv, HistoryIsKept
  <2>4. span \in Stretch /\ (past = << >> \/ past[Len(past)].end <= span.end)
    BY <1>3, <2>3
  <2>5. Continues(L, span.end, Remembered(tr, span, label), past)
    BY ONLY <2>3, <2>4, RememberedStill
  <2>6. PICK r : r = Remembered(tr, span, label) /\ r = base.resolved
    BY <2>1, <2>2
  <2>7. then = Append(past, r[Len(r)])
    BY <1>5, <2>2, <2>6
  <2>9. /\ then \in Seq(SpansOf(L))
        /\ then[Len(then)].end = span.end
        /\ Remembers(r, then)
    BY ONLY <2>5, <2>6, <2>7 DEF Continues
  <2>8. heard' > 0 /\ spans'[Len(spans')].end <= Segments[heard'].end
    BY <1>3, <2>2, <2>9
  <2> QED
    BY <1>1, <2>2, <2>6, <2>8, <2>9 DEF HistoryIsKept
<1> QED
  BY <1>4, <1>5

-----------------------------------------------------------------------------
(* The steps.                                                              *)
LEMMA InitIInv == Init => IInv
<1> SUFFICES ASSUME Init PROVE IInv
  OBVIOUS
<1>1. /\ heard = 0 /\ spans = << >> /\ evicted = {} /\ answers = << >>
      /\ tracker = [clusters |-> << >>, resolved |-> << >>, next |-> 0, merged |-> << >>]
  BY DEF Init, EmptyTracker
<1>2. /\ tracker.next = 0 /\ tracker.resolved = << >> /\ Numbers(tracker) = {}
      /\ Live(tracker) = {} /\ Absorbed(tracker) = {} /\ DOMAIN answers = {}
      /\ tracker.merged \in [{} -> {}] /\ tracker.clusters \in [{} -> Nat]
  BY <1>1 DEF Numbers, Live, Absorbed
<1>3. << >> \in Seq(SpansOf(Numbers(tracker))) /\ Len(<< >>) = 0
  BY EmptySeq
<1>4. Typed(tracker)
  BY <1>1, <1>2, <1>3 DEF Typed
<1>5. Leads(tracker, [l \in {} |-> l])
  BY <1>2 DEF Leads
<1>6. Cardinality(Live(tracker)) <= MaxSpeakers
  BY <1>2, FS_EmptySet, TrackerAssumption
<1>7. Fine(tracker, evicted)
  BY <1>1, <1>2, <1>4, <1>5, <1>6 DEF Fine
<1>8. Remembers(tracker.resolved, spans)
  BY <1>1, <1>2, <1>3 DEF Remembers
<1>9. HistoryIsKept
  BY <1>1, <1>3, <1>8 DEF HistoryIsKept
<1>10. heard \in 0 .. Len(Segments)
  BY <1>1, LabellingAssumption
<1> QED
  BY <1>1, <1>2, <1>7, <1>9, <1>10 DEF IInv

(* A segment keeps the invariant, and two labels that lead to one voice    *)
(* before it do so after it.                                               *)
LEMMA HearStep ==
  ASSUME IInv, NEW voice \in Voices(tracker), Hear(voice)
  PROVE  /\ IInv'
         /\ Numbers(tracker) \subseteq Numbers(tracker)'
         /\ \A a, b \in Numbers(tracker) :
              Resolve(tracker, a) = Resolve(tracker, b)
                => Resolve(tracker', a) = Resolve(tracker', b)
<1>1. PICK span, base :
        span = Segments[heard + 1] /\ base = Assigned(tracker, span, voice)
  OBVIOUS
<1>2. PICK pairs \in SUBSET MergePairs(base, voice) :
        /\ tracker' = Taught(tracker, span, voice, pairs)
        /\ spans' = IF voice = None THEN spans
                    ELSE Append(spans, base.resolved[Len(base.resolved)])
        /\ evicted' = evicted \cup (Live(tracker) \ Live(base))
  BY <1>1 DEF Hear
<1>3. heard < Len(Segments) /\ heard' = heard + 1 /\ answers' = answers
  BY DEF Hear
<1>4. /\ heard \in 0 .. Len(Segments) /\ tracker.next <= heard
      /\ Fine(tracker, evicted) /\ Typed(tracker)
  BY DEF IInv, Fine
<1>5. span \in Stretch /\ heard + 1 \in 0 .. Len(Segments)
  BY <1>1, <1>3, <1>4, SegmentsInOrder, LabellingAssumption
<1>6. PICK end : Leads(tracker, end)
  BY <1>4 DEF Fine
<1>7. /\ Fine(base, evicted')
      /\ base.next \in {tracker.next, tracker.next + 1}
      /\ \E to : /\ Leads(base, to)
                 /\ \A i, j \in Numbers(tracker) : end[i] = end[j] => to[i] = to[j]
      /\ \/ voice = None /\ base.resolved = tracker.resolved
         \/ /\ voice # None
            /\ \E label \in Numbers(base) : base.resolved = Remembered(tracker, span, label)
  <2>1. PICK tr, gone : tr = tracker /\ gone = evicted
    OBVIOUS
  <2>2. /\ Fine(tr, gone) /\ span \in Stretch /\ voice \in Voices(tr) /\ Leads(tr, end)
        /\ base = Assigned(tr, span, voice)
    BY <1>1, <1>4, <1>5, <1>6, <2>1
  <2>3. /\ Fine(base, gone \cup (Live(tr) \ Live(base)))
        /\ base.next \in {tr.next, tr.next + 1}
        /\ \E to : /\ Leads(base, to)
                   /\ \A i, j \in Numbers(tr) : end[i] = end[j] => to[i] = to[j]
        /\ \/ voice = None /\ base.resolved = tr.resolved
           \/ /\ voice # None
              /\ \E label \in Numbers(base) : base.resolved = Remembered(tr, span, label)
    BY ONLY <2>2, AssignedKeeps
  <2> QED
    BY <1>2, <2>1, <2>3
<1>8. PICK mid : /\ Leads(base, mid)
                 /\ \A i, j \in Numbers(tracker) : end[i] = end[j] => mid[i] = mid[j]
  BY <1>7
<1>9. /\ Fine(tracker', evicted')
      /\ tracker'.next = base.next
      /\ tracker'.resolved = base.resolved
      /\ \E to : /\ Leads(tracker', to)
                 /\ \A i, j \in Numbers(tracker') : mid[i] = mid[j] => to[i] = to[j]
  <2>1. PICK tr, t, gone : tr = tracker /\ t = tracker' /\ gone = evicted'
    OBVIOUS
  <2>2. /\ base = Assigned(tr, span, voice) /\ Fine(base, gone) /\ Leads(base, mid)
        /\ pairs \in SUBSET MergePairs(base, voice) /\ t = Taught(tr, span, voice, pairs)
    BY <1>1, <1>2, <1>7, <1>8, <2>1
  <2>3. /\ Fine(t, gone) /\ t.next = base.next /\ t.resolved = base.resolved
        /\ \E to : /\ Leads(t, to)
                   /\ \A i, j \in Numbers(t) : mid[i] = mid[j] => to[i] = to[j]
    BY ONLY <2>2, TaughtKeeps
  <2> QED
    BY <2>1, <2>3
<1>10. PICK to : /\ Leads(tracker', to)
                 /\ \A i, j \in Numbers(tracker') : mid[i] = mid[j] => to[i] = to[j]
  BY <1>9
<1>11. /\ tracker.next \in Nat /\ base.next \in Nat /\ tracker.next <= base.next
       /\ base.next <= heard + 1
       /\ Numbers(tracker) \subseteq Numbers(tracker')
  <2>1. tracker.next \in Nat
    BY <1>4 DEF Typed
  <2>2. base.next \in Nat /\ tracker.next <= base.next /\ base.next <= heard + 1
    BY <1>4, <1>7, <2>1
  <2> QED
    BY <1>9, <2>1, <2>2 DEF Numbers
<1>12. HistoryIsKept'
  BY <1>1, <1>2, <1>3, <1>7, <1>9, <1>11, HistoryStep
<1>13. IInv'
  <2>1. \A word \in DOMAIN answers : answers[word] \in Numbers(tracker')
    BY <1>11 DEF IInv
  <2>2. DOMAIN answers \subseteq Spoken
    BY DEF IInv
  <2> QED
    BY <1>3, <1>5, <1>9, <1>11, <1>12, <2>1, <2>2 DEF IInv
<1>14. ASSUME NEW a \in Numbers(tracker), NEW b \in Numbers(tracker),
              Resolve(tracker, a) = Resolve(tracker, b)
       PROVE  Resolve(tracker', a) = Resolve(tracker', b)
  <2>1. PICK tr, t, gone, left :
          tr = tracker /\ t = tracker' /\ gone = evicted /\ left = evicted'
    OBVIOUS
  <2>2. a \in Numbers(t) /\ b \in Numbers(t)
    BY <1>11, <1>14, <2>1
  <2>3. Resolve(tr, a) = end[a] /\ Resolve(tr, b) = end[b]
    BY <1>4, <1>6, <1>14, <2>1, ResolveIsTheEnd
  <2>4. Resolve(t, a) = to[a] /\ Resolve(t, b) = to[b]
    BY <1>9, <1>10, <2>1, <2>2, ResolveIsTheEnd
  <2>5. to[a] = to[b]
    BY <1>8, <1>10, <1>14, <2>1, <2>2, <2>3
  <2> QED
    BY <2>1, <2>4, <2>5
<1> QED
  BY <1>11, <1>13, <1>14

-----------------------------------------------------------------------------
(* What a word is told.                                                    *)
LEMMA OverlapType ==
  ASSUME NEW span, span.start \in Nat, span.end \in Nat, NEW start \in Nat, NEW end \in Nat
  PROVE  Overlap(span, start, end) \in Int
  BY DEF Overlap

LEMMA SpansTyped ==
  ASSUME NEW L, NEW s \in Seq(SpansOf(L))
  PROVE  /\ Len(s) \in Nat /\ DOMAIN s = 1 .. Len(s) /\ IsFiniteSet(DOMAIN s)
         /\ \A i \in DOMAIN s : s[i].start \in Nat /\ s[i].end \in Nat /\ s[i].label \in L
<1>1. Len(s) \in Nat /\ DOMAIN s = 1 .. Len(s)
  BY LenProperties
<1>2. IsFiniteSet(DOMAIN s)
  BY <1>1, FS_Interval
<1>3. \A i \in DOMAIN s : s[i] \in SpansOf(L)
  BY <1>1, ElementOfSeq
<1> QED
  BY <1>1, <1>2, <1>3, SpansType

LEMMA MostOverlappingOverlaps ==
  ASSUME NEW tr, NEW L, tr.resolved \in Seq(SpansOf(L)), NEW start \in Nat, NEW end \in Nat,
         Overlapping(tr, start, end) # {}
  PROVE  /\ MostOverlapping(tr, start, end) \in Overlapping(tr, start, end)
         /\ \A j \in Overlapping(tr, start, end) :
              LET i == MostOverlapping(tr, start, end)
              IN  \/ Overlap(tr.resolved[j], start, end) < Overlap(tr.resolved[i], start, end)
                  \/ /\ Overlap(tr.resolved[j], start, end) = Overlap(tr.resolved[i], start, end)
                     /\ i <= j
<1> DEFINE S == Overlapping(tr, start, end)
           o(i) == Overlap(tr.resolved[i], start, end)
           Best(i, j) == o(j) < o(i) \/ (o(j) = o(i) /\ i <= j)
           R == {z \in S \X S : Best(z[2], z[1])}
<1>1. /\ \A i \in S : i \in Nat /\ o(i) \in Int
      /\ IsFiniteSet(S) /\ S # {}
  <2>1. S \subseteq DOMAIN tr.resolved
    BY DEF Overlapping
  <2>2. IsFiniteSet(S)
    BY <2>1, SpansTyped, FS_Subset
  <2>3. ASSUME NEW i \in S PROVE i \in Nat /\ o(i) \in Int
    <3>1. i \in DOMAIN tr.resolved /\ DOMAIN tr.resolved = 1 .. Len(tr.resolved)
      BY <2>1, <2>3, SpansTyped
    <3>2. tr.resolved[i].start \in Nat /\ tr.resolved[i].end \in Nat
      BY <3>1, SpansTyped
    <3>3. PICK span : span = tr.resolved[i]
      OBVIOUS
    <3>4. Overlap(span, start, end) \in Int
      BY <3>2, <3>3, OverlapType
    <3> QED
      BY <3>1, <3>3, <3>4
  <2> QED
    BY <2>2, <2>3
<1>2. MostOverlapping(tr, start, end) = CHOOSE i \in S : \A j \in S : Best(i, j)
  BY DEF MostOverlapping
<1> HIDE DEF S, o
<1>3. \A i, j \in S : Best(i, j) \/ Best(j, i)
  BY ONLY <1>1
<1>4. \A i, j, k \in S : Best(j, i) /\ Best(k, j) => Best(k, i)
  BY ONLY <1>1
<1>5. \A i, j \in S : <<i, j>> \in R <=> Best(j, i)
  OBVIOUS
<1> HIDE DEF R, Best
<1>6. \A i, j \in S : i = j \/ <<i, j>> \in R \/ <<j, i>> \in R
  BY <1>3, <1>5
<1>7. \A i, j, k \in S : <<i, j>> \in R /\ <<j, k>> \in R => <<i, k>> \in R
  BY <1>4, <1>5
<1>8. PICK i \in S : \A j \in S : j = i \/ <<j, i>> \in R
  BY ONLY <1>1, <1>6, <1>7, StillFinite, Merging!LastMember
<1>9. ASSUME NEW j \in S PROVE Best(i, j)
  <2>1. CASE j = i
    BY <1>3, <2>1
  <2>2. CASE <<j, i>> \in R
    BY <1>5, <2>2
  <2> QED
    BY <1>8, <2>1, <2>2
<1>10. /\ MostOverlapping(tr, start, end) \in S
       /\ \A j \in S : Best(MostOverlapping(tr, start, end), j)
  BY <1>2, <1>9
<1> QED
  BY <1>10 DEF Best, S, o

LEMMA LabelForStands ==
  ASSUME NEW tr, NEW gone, Fine(tr, gone), NEW start \in Nat, NEW end \in Nat,
         LabelFor(tr, start, end) # None
  PROVE  /\ LabelFor(tr, start, end) \in Numbers(tr)
         /\ LabelFor(tr, start, end) \notin Absorbed(tr)
<1>1. tr.resolved \in Seq(SpansOf(Numbers(tr)))
  BY DEF Fine, Typed
<1>2. \A i \in DOMAIN tr.resolved : tr.resolved[i].label \in Numbers(tr)
  BY <1>1, SpansTyped
<1>3. \A l \in Numbers(tr) : Resolve(tr, l) \in Numbers(tr) /\ Resolve(tr, l) \notin Absorbed(tr)
  <2>1. PICK to : Leads(tr, to)
    BY DEF Fine
  <2> QED
    BY <2>1, ResolveIsTheEnd
<1>4. CASE Overlapping(tr, start, end) # {}
  <2>1. MostOverlapping(tr, start, end) \in DOMAIN tr.resolved
    BY <1>1, <1>4, MostOverlappingOverlaps DEF Overlapping
  <2>2. LabelFor(tr, start, end)
          = Resolve(tr, tr.resolved[MostOverlapping(tr, start, end)].label)
    BY <1>4 DEF LabelFor
  <2> QED
    BY <1>2, <1>3, <2>1, <2>2
<1>5. CASE Overlapping(tr, start, end) = {} /\ Cardinality(Neighbours(tr, start, end)) = 1
  <2>1. Neighbours(tr, start, end) # {}
    BY <1>5, FS_EmptySet
  <2>2. LabelFor(tr, start, end) \in Neighbours(tr, start, end)
    BY <1>5, <2>1 DEF LabelFor
  <2>3. \A l \in Neighbours(tr, start, end) :
          \E i \in DOMAIN tr.resolved : l = Resolve(tr, tr.resolved[i].label)
    BY DEF Neighbours
  <2> QED
    BY <1>2, <1>3, <2>2, <2>3
<1> QED
  BY <1>4, <1>5 DEF LabelFor

LEMMA AskStep ==
  ASSUME IInv, NEW word \in Spoken, Ask(word)
  PROVE  IInv' /\ tracker' = tracker
<1>1. /\ heard' = heard /\ tracker' = tracker /\ spans' = spans /\ evicted' = evicted
      /\ answers' = [w \in DOMAIN answers \cup {word} |->
                      IF w = word THEN LabelFor(tracker, word.start, word.end) ELSE answers[w]]
      /\ LabelFor(tracker, word.start, word.end) # None
  BY DEF Ask
<1>2. word.start \in Nat /\ word.end \in Nat
  BY LabellingAssumption
<1>3. LabelFor(tracker, word.start, word.end) \in Numbers(tracker)
  <2>1. PICK tr, gone : tr = tracker /\ gone = evicted
    OBVIOUS
  <2>2. Fine(tr, gone)
    BY <2>1 DEF IInv
  <2> QED
    BY <1>1, <1>2, <2>1, <2>2, LabelForStands
<1>4. /\ DOMAIN answers' = DOMAIN answers \cup {word}
      /\ \A w \in DOMAIN answers' : answers'[w] \in Numbers(tracker)
  BY <1>1, <1>3 DEF IInv
<1>5. DOMAIN answers' \subseteq Spoken
  BY <1>4 DEF IInv
<1> QED
  BY <1>1, <1>4, <1>5 DEF IInv, HistoryIsKept

LEMMA StutterStep == IInv /\ UNCHANGED vars => IInv'
  BY DEF IInv, HistoryIsKept, vars

LEMMA NextIInv == IInv /\ [Next]_vars => IInv'
  BY HearStep, AskStep, StutterStep DEF Next

LEMMA SpecIInv == Spec => []IInv
  BY InitIInv, NextIInv, PTL DEF Spec

(* Labels are minted one at a time, at most one for each segment, and each *)
(* of them is live, was evicted or was absorbed; only words of the stream  *)
(* are answered.                                                           *)
THEOREM LabellingTypeCorrect == Spec => []TypeOK
<1>1. IInv => TypeOK
  <2> SUFFICES ASSUME IInv PROVE TypeOK
    OBVIOUS
  <2>1. /\ tracker.next \in Nat /\ tracker.next <= heard /\ heard \in 0 .. Len(Segments)
        /\ tracker.clusters \in [Live(tracker) -> Nat]
    BY DEF IInv, Fine, Typed
  <2>2. tracker.next \in 0 .. heard
    BY <2>1
  <2> QED
    BY <2>1, <2>2 DEF TypeOK, IInv, Fine, Numbers
<1> QED
  BY <1>1, SpecIInv, PTL

(* However many strangers speak, there are never more clusters than        *)
(* max_speakers: one voice is evicted for each one minted beyond it.       *)
THEOREM MemoryStaysBounded == Spec => []MemoryIsBounded
<1>1. IInv => MemoryIsBounded
  BY DEF IInv, Fine, MemoryIsBounded
<1> QED
  BY <1>1, SpecIInv, PTL

(* No word is told a label that has been absorbed by another, and a label  *)
(* once told still leads, through every merge since, to one that has not.  *)
THEOREM LabelsStand == Spec => []NobodyIsAbsorbed
<1>1. IInv => NobodyIsAbsorbed
  <2> SUFFICES ASSUME IInv PROVE NobodyIsAbsorbed
    OBVIOUS
  <2>1. PICK tr, gone : tr = tracker /\ gone = evicted
    OBVIOUS
  <2>2. Fine(tr, gone)
    BY <2>1 DEF IInv
  <2>3. \A l \in Numbers(tracker) : l \notin Absorbed(tracker) => l \in Standing
    BY <2>1, <2>2 DEF Fine, Standing
  <2>4. ASSUME NEW word \in Spoken
        PROVE  LabelFor(tracker, word.start, word.end) \in Standing \cup {None}
    <3>1. word.start \in Nat /\ word.end \in Nat
      BY LabellingAssumption
    <3> QED
      BY <2>1, <2>2, <2>3, <3>1, LabelForStands
  <2>5. ASSUME NEW word \in DOMAIN answers
        PROVE  Resolve(tracker, answers[word]) \in Standing
    <3>1. answers[word] \in Numbers(tr)
      BY <2>1, <2>5 DEF IInv
    <3>2. PICK end : Leads(tr, end)
      BY <2>2 DEF Fine
    <3>3. Resolve(tr, answers[word]) \in Numbers(tr) /\ Resolve(tr, answers[word]) \notin Absorbed(tr)
      BY <2>2, <3>1, <3>2, ResolveIsTheEnd
    <3> QED
      BY <2>1, <2>3, <3>3
  <2> QED
    BY <2>4, <2>5 DEF NobodyIsAbsorbed
<1> QED
  BY <1>1, SpecIInv, PTL

(* Two labels found to be one person's are never told apart again: no      *)
(* merge and no eviction takes back an earlier merge.                      *)
THEOREM VoicesStayMerged == Spec => SameVoiceStaysSame
<1> DEFINE Kept == \A a, b \in Minted :
                     Resolve(tracker, a) = Resolve(tracker, b)
                       => Resolve(tracker', a) = Resolve(tracker', b)
<1>1. IInv /\ [Next]_vars => [Kept]_vars
  <2> SUFFICES ASSUME IInv, Next PROVE Kept
    BY DEF vars
  <2>1. Minted = Numbers(tracker)
    BY DEF Minted, Numbers
  <2> QED
    BY <2>1, HearStep, AskStep DEF Next
<1> QED
  BY <1>1, SpecIInv, PTL DEF Spec, SameVoiceStaysSame

-----------------------------------------------------------------------------
(* Forgetting.  `all` is `r` with k spans before it, all of them ended     *)
(* MaxGap or more before the word that is asked about starts.              *)
Longer(r, all, k, start) ==
  /\ k \in Nat /\ Len(r) \in Nat /\ Len(all) = Len(r) + k
  /\ DOMAIN r = 1 .. Len(r) /\ DOMAIN all = 1 .. Len(all)
  /\ \A i \in 1 .. Len(r) : i + k \in 1 .. Len(all) /\ r[i] = all[i + k]
  /\ \A i \in 1 .. Len(all) :
       i \in 1 .. k \/ (i \notin 1 .. k /\ i - k \in 1 .. Len(r) /\ all[i] = r[i - k] /\ i = (i - k) + k)
  /\ \A i \in 1 .. k : all[i].end + MaxGap < start
  /\ \A i \in 1 .. Len(all) : all[i].start \in Nat /\ all[i].end \in Nat

LEMMA LongerIs ==
  ASSUME NEW L, NEW r \in Seq(SpansOf(L)), NEW all \in Seq(SpansOf(L)), Remembers(r, all),
         all # << >>, NEW start \in Nat, start >= all[Len(all)].end - SegmentMemory + MaxGap
  PROVE  \E k : Longer(r, all, k, start)
<1>1. PICK k \in 0 .. Len(all) :
        /\ Len(r) = Len(all) - k
        /\ \A i \in 1 .. Len(r) : r[i] = all[i + k]
        /\ \A i \in 1 .. k : all[i].end < all[Len(all)].end - SegmentMemory
  BY DEF Remembers
<1>2. /\ Len(all) \in Nat /\ DOMAIN all = 1 .. Len(all)
      /\ Len(r) \in Nat /\ DOMAIN r = 1 .. Len(r)
      /\ \A i \in 1 .. Len(all) : all[i].start \in Nat /\ all[i].end \in Nat
  BY SpansTyped
<1>3. k \in Nat /\ k <= Len(all) /\ Len(all) = Len(r) + k
  BY <1>1, <1>2
<1>4. ASSUME NEW i \in 1 .. Len(r) PROVE i + k \in 1 .. Len(all) /\ r[i] = all[i + k]
  BY <1>1, <1>2, <1>3
<1>5. ASSUME NEW i \in 1 .. Len(all)
      PROVE  i \in 1 .. k \/ (i \notin 1 .. k /\ i - k \in 1 .. Len(r) /\ all[i] = r[i - k]
                              /\ i = (i - k) + k)
  <2>1. CASE i <= k
    BY <1>2, <1>3, <2>1
  <2>2. CASE i > k
    <3>1. PICK j \in Nat : j = i - k /\ j \in 1 .. Len(r) /\ j + k = i
      BY <1>2, <1>3, <2>2
    <3>2. r[j] = all[j + k] /\ i \notin 1 .. k
      BY <1>3, <1>4, <2>2, <3>1
    <3> QED
      BY <3>1, <3>2
  <2> QED
    BY <1>2, <1>3, <2>1, <2>2
<1>6. ASSUME NEW i \in 1 .. k PROVE all[i].end + MaxGap < start
  <2>1. Len(all) \in 1 .. Len(all) /\ i \in 1 .. Len(all)
    BY <1>2, <1>3
  <2>2. all[i].end \in Nat /\ all[Len(all)].end \in Nat
    BY <1>2, <2>1
  <2>3. all[i].end < all[Len(all)].end - SegmentMemory
    BY <1>1
  <2>4. \A a, b, c \in Nat : a < b - SegmentMemory /\ c >= b - SegmentMemory + MaxGap
                               => a + MaxGap < c
    BY TrackerAssumption
  <2> QED
    BY <2>2, <2>3, <2>4
<1>7. Longer(r, all, k, start)
  BY ONLY <1>2, <1>3, <1>4, <1>5, <1>6 DEF Longer
<1> QED
  BY <1>7

(* The spans next to a word, by the indices Neighbours picks.              *)
Ends(r, start) == {i \in DOMAIN r : r[i].end <= start}

Starts(r, start, end) == {i \in DOMAIN r : r[i].start >= end} \ Ends(r, start)

Near(r, start, end) ==
  {i \in Ends(r, start) : /\ start - r[i].end <= MaxGap
                          /\ \A j \in Ends(r, start) : j <= i}
  \cup {i \in Starts(r, start, end) : /\ r[i].start - end <= MaxGap
                                      /\ \A j \in Starts(r, start, end) : i <= j}

LEMMA NearIsShifted ==
  ASSUME NEW r, NEW all, NEW k, NEW start \in Nat, NEW end \in Nat, Longer(r, all, k, start)
  PROVE  /\ \A i \in Near(r, start, end) : i \in DOMAIN r /\ i + k \in Near(all, start, end)
         /\ \A i \in Near(all, start, end) :
              i - k \in Near(r, start, end) /\ i - k \in DOMAIN r /\ all[i] = r[i - k]
<1> DEFINE E == Ends(r, start)
           F == Ends(all, start)
           S == Starts(r, start, end)
           T == Starts(all, start, end)
           n == Len(r)
           N == Len(all)
<1>1. /\ k \in Nat /\ n \in Nat /\ N = n + k
      /\ DOMAIN r = 1 .. n /\ DOMAIN all = 1 .. N
      /\ \A i \in 1 .. n : i + k \in 1 .. N /\ r[i] = all[i + k]
      /\ \A i \in 1 .. N :
           i \in 1 .. k \/ (i \notin 1 .. k /\ i - k \in 1 .. n /\ all[i] = r[i - k] /\ i = (i - k) + k)
      /\ \A i \in 1 .. k : all[i].end + MaxGap < start
      /\ \A i \in 1 .. N : all[i].start \in Nat /\ all[i].end \in Nat
  BY DEF Longer
<1>2. E \subseteq 1 .. n /\ F \subseteq 1 .. N /\ S \subseteq 1 .. n /\ T \subseteq 1 .. N
  BY <1>1 DEF Ends, Starts
<1>3. \A i \in 1 .. k : i \in F /\ i \in 1 .. N /\ start - all[i].end > MaxGap
  <2> SUFFICES ASSUME NEW i \in 1 .. k
               PROVE  i \in F /\ i \in 1 .. N /\ start - all[i].end > MaxGap
    OBVIOUS
  <2>1. i \in 1 .. N
    BY <1>1
  <2>2. all[i].end \in Nat /\ all[i].end + MaxGap < start
    BY <1>1, <2>1
  <2>3. all[i].end <= start /\ start - all[i].end > MaxGap
    BY ONLY <2>2, start \in Nat, TrackerAssumption
  <2> QED
    BY <1>1, <2>1, <2>3 DEF Ends
<1>4. \A i \in 1 .. n : /\ i \in E <=> i + k \in F
                        /\ i \in S <=> i + k \in T
  BY <1>1 DEF Ends, Starts
<1>5. \A i \in T : i \notin 1 .. k
  BY <1>3 DEF Starts
<1> HIDE DEF n, N, E, F, S, T
<1>6. ASSUME NEW i \in E, start - r[i].end <= MaxGap, \A j \in E : j <= i
      PROVE  i + k \in F /\ start - all[i + k].end <= MaxGap /\ \A j \in F : j <= i + k
  <2>1. i \in 1 .. n /\ i \in Nat /\ i + k \in F /\ all[i + k] = r[i]
    BY <1>1, <1>2, <1>4
  <2>2. ASSUME NEW j \in F PROVE j <= i + k
    <3>1. CASE j \in 1 .. k
      BY <1>1, <2>1, <3>1
    <3>2. CASE j \notin 1 .. k
      <4>1. PICK h \in 1 .. n : h = j - k /\ j = h + k
        BY <1>1, <1>2, <3>2
      <4>2. h <= i
        BY <1>4, <1>6, <4>1
      <4> QED
        BY <1>1, <2>1, <4>1, <4>2
    <3> QED
      BY <3>1, <3>2
  <2> QED
    BY <1>6, <2>1, <2>2
<1>7. ASSUME NEW i \in F, start - all[i].end <= MaxGap, \A j \in F : j <= i
      PROVE  /\ i - k \in E /\ all[i] = r[i - k]
             /\ start - r[i - k].end <= MaxGap /\ \A j \in E : j <= i - k
  <2>1. i \in 1 .. N /\ i \notin 1 .. k
    <3>1. i \in 1 .. N
      BY <1>2
    <3>2. ASSUME i \in 1 .. k PROVE FALSE
      <4>1. all[i].end \in Nat /\ start - all[i].end > MaxGap
        BY <1>1, <1>3, <3>1, <3>2
      <4> QED
        BY <1>7, <4>1, TrackerAssumption
    <3> QED
      BY <3>1, <3>2
  <2>2. PICK h \in 1 .. n : h = i - k /\ i = h + k /\ all[i] = r[h]
    BY <1>1, <2>1
  <2>3. h \in E
    BY <1>4, <2>2
  <2>4. ASSUME NEW j \in E PROVE j <= h
    <3>1. j \in 1 .. n /\ j + k \in F
      BY <1>2, <1>4
    <3>2. j + k <= i
      BY <1>7, <3>1
    <3> QED
      BY <1>1, <2>2, <3>1, <3>2
  <2> QED
    BY <1>7, <2>2, <2>3, <2>4
<1>8. ASSUME NEW i \in S, r[i].start - end <= MaxGap, \A j \in S : i <= j
      PROVE  i + k \in T /\ all[i + k].start - end <= MaxGap /\ \A j \in T : i + k <= j
  <2>1. i \in 1 .. n /\ i \in Nat /\ i + k \in T /\ all[i + k] = r[i]
    BY <1>1, <1>2, <1>4
  <2>2. ASSUME NEW j \in T PROVE i + k <= j
    <3>1. PICK h \in 1 .. n : h = j - k /\ j = h + k
      BY <1>1, <1>2, <1>5
    <3>2. i <= h
      BY <1>4, <1>8, <3>1
    <3> QED
      BY <1>1, <2>1, <3>1, <3>2
  <2> QED
    BY <1>8, <2>1, <2>2
<1>9. ASSUME NEW i \in T, all[i].start - end <= MaxGap, \A j \in T : i <= j
      PROVE  /\ i - k \in S /\ all[i] = r[i - k]
             /\ r[i - k].start - end <= MaxGap /\ \A j \in S : i - k <= j
  <2>1. PICK h \in 1 .. n : h = i - k /\ i = h + k /\ all[i] = r[h]
    BY <1>1, <1>2, <1>5
  <2>2. h \in S
    BY <1>4, <2>1
  <2>3. ASSUME NEW j \in S PROVE h <= j
    <3>1. j \in 1 .. n /\ j + k \in T
      BY <1>2, <1>4
    <3>2. i <= j + k
      BY <1>9, <3>1
    <3> QED
      BY <1>1, <2>1, <3>1, <3>2
  <2> QED
    BY <1>9, <2>1, <2>2, <2>3
<1>10. /\ Near(r, start, end) = {i \in E : start - r[i].end <= MaxGap /\ \A j \in E : j <= i}
                                \cup {i \in S : r[i].start - end <= MaxGap /\ \A j \in S : i <= j}
       /\ Near(all, start, end) = {i \in F : start - all[i].end <= MaxGap /\ \A j \in F : j <= i}
                                  \cup {i \in T : all[i].start - end <= MaxGap /\ \A j \in T : i <= j}
  BY DEF Near, E, F, S, T
<1>11. \A i \in Near(r, start, end) : i \in DOMAIN r /\ i + k \in Near(all, start, end)
  BY <1>1, <1>2, <1>6, <1>8, <1>10
<1>12. \A i \in Near(all, start, end) :
         i - k \in Near(r, start, end) /\ i - k \in DOMAIN r /\ all[i] = r[i - k]
  BY <1>1, <1>2, <1>7, <1>9, <1>10
<1> QED
  BY <1>11, <1>12

OverlapsShift(tr, long, k, start, end) ==
  /\ \A i \in Overlapping(tr, start, end) :
       i + k \in Overlapping(long, start, end) /\ long.resolved[i + k] = tr.resolved[i]
  /\ \A i \in Overlapping(long, start, end) :
       /\ i - k \in Overlapping(tr, start, end)
       /\ i - k \in Nat /\ i = (i - k) + k
       /\ long.resolved[i] = tr.resolved[i - k]

LEMMA OverlapsAreShifted ==
  ASSUME NEW tr, NEW long, NEW k, NEW start \in Nat, NEW end \in Nat,
         Longer(tr.resolved, long.resolved, k, start)
  PROVE  OverlapsShift(tr, long, k, start, end)
<1> DEFINE r   == tr.resolved
           all == long.resolved
<1>1. /\ k \in Nat /\ Len(r) \in Nat /\ Len(all) = Len(r) + k
      /\ DOMAIN r = 1 .. Len(r) /\ DOMAIN all = 1 .. Len(all)
      /\ \A i \in 1 .. Len(r) : i + k \in 1 .. Len(all) /\ r[i] = all[i + k]
      /\ \A i \in 1 .. Len(all) :
           i \in 1 .. k \/ (i \notin 1 .. k /\ i - k \in 1 .. Len(r) /\ all[i] = r[i - k]
                            /\ i = (i - k) + k)
      /\ \A i \in 1 .. k : all[i].end + MaxGap < start
      /\ \A i \in 1 .. Len(all) : all[i].start \in Nat /\ all[i].end \in Nat
  BY DEF Longer
<1>2. /\ Overlapping(tr, start, end) = {i \in DOMAIN r : Overlap(r[i], start, end) > 0}
      /\ Overlapping(long, start, end) = {i \in DOMAIN all : Overlap(all[i], start, end) > 0}
  BY DEF Overlapping
<1> HIDE DEF r, all
<1>3. ASSUME NEW i \in 1 .. k PROVE ~ (Overlap(all[i], start, end) > 0)
  <2>1. i \in 1 .. Len(all)
    BY <1>1
  <2>2. all[i].start \in Nat /\ all[i].end \in Nat /\ all[i].end + MaxGap < start
    BY <1>1, <2>1
  <2>3. \A a, b \in Nat : b + MaxGap < start =>
          ~ ((IF b < end THEN b ELSE end) - (IF a > start THEN a ELSE start) > 0)
    BY TrackerAssumption
  <2> QED
    BY <2>2, <2>3 DEF Overlap
<1>4. \A i \in Overlapping(tr, start, end) :
        i + k \in Overlapping(long, start, end) /\ all[i + k] = r[i]
  BY <1>1, <1>2
<1>5. ASSUME NEW i \in Overlapping(long, start, end)
      PROVE  /\ i - k \in Overlapping(tr, start, end)
             /\ i - k \in Nat /\ i = (i - k) + k
             /\ all[i] = r[i - k]
  <2>1. i \in 1 .. Len(all) /\ Overlap(all[i], start, end) > 0
    BY <1>1, <1>2
  <2>2. i \notin 1 .. k
    BY <1>3, <2>1
  <2>3. i - k \in 1 .. Len(r) /\ all[i] = r[i - k] /\ i = (i - k) + k
    BY <1>1, <2>1, <2>2
  <2> QED
    BY <1>1, <1>2, <2>1, <2>3
<1> QED
  BY <1>4, <1>5 DEF r, all, OverlapsShift

SameBest(tr, long, start, end) ==
  /\ Overlapping(long, start, end) # {}
  /\ long.resolved[MostOverlapping(long, start, end)]
       = tr.resolved[MostOverlapping(tr, start, end)]

LEMMA BestIsShifted ==
  ASSUME NEW tr, NEW long, NEW L, tr.resolved \in Seq(SpansOf(L)), long.resolved \in Seq(SpansOf(L)),
         NEW k, NEW start \in Nat, NEW end \in Nat,
         Longer(tr.resolved, long.resolved, k, start), Overlapping(tr, start, end) # {}
  PROVE  SameBest(tr, long, start, end)
<1> DEFINE S == Overlapping(tr, start, end)
           T == Overlapping(long, start, end)
           m == MostOverlapping(tr, start, end)
           w == MostOverlapping(long, start, end)
           o(i) == Overlap(tr.resolved[i], start, end)
           q(i) == Overlap(long.resolved[i], start, end)
<1>1. /\ \A i \in S : i + k \in T /\ long.resolved[i + k] = tr.resolved[i]
      /\ \A i \in T : /\ i - k \in S /\ i - k \in Nat /\ i = (i - k) + k
                      /\ long.resolved[i] = tr.resolved[i - k]
  <2>1. OverlapsShift(tr, long, k, start, end)
    BY OverlapsAreShifted
  <2> QED
    BY ONLY <2>1 DEF OverlapsShift
<1>2. T # {} /\ k \in Nat
  BY <1>1 DEF Longer
<1>3. m \in S /\ \A j \in S : o(j) < o(m) \/ (o(j) = o(m) /\ m <= j)
  BY MostOverlappingOverlaps
<1>4. w \in T /\ \A j \in T : q(j) < q(w) \/ (q(j) = q(w) /\ w <= j)
  BY <1>2, MostOverlappingOverlaps
<1>5. m \in Nat
  <2>1. m \in DOMAIN tr.resolved
    BY <1>3 DEF Overlapping
  <2> QED
    BY <2>1, SpansTyped
<1>6. \A i \in S : o(i) \in Int
  <2> SUFFICES ASSUME NEW i \in S PROVE o(i) \in Int
    OBVIOUS
  <2>1. i \in DOMAIN tr.resolved
    BY DEF Overlapping
  <2>2. tr.resolved[i].start \in Nat /\ tr.resolved[i].end \in Nat
    BY <2>1, SpansTyped
  <2>3. PICK span : span = tr.resolved[i]
    OBVIOUS
  <2>4. Overlap(span, start, end) \in Int
    BY <2>2, <2>3, OverlapType
  <2> QED
    BY <2>3, <2>4
<1>7. PICK h : h = w - k /\ h \in S /\ h \in Nat /\ w = h + k /\ long.resolved[w] = tr.resolved[h]
  BY <1>1, <1>4
<1>8. o(h) = q(w) /\ o(m) = q(m + k) /\ m + k \in T
  BY <1>1, <1>3, <1>7
<1>9. /\ o(h) < o(m) \/ (o(h) = o(m) /\ m <= h)
      /\ o(m) < o(h) \/ (o(m) = o(h) /\ h + k <= m + k)
  BY <1>3, <1>4, <1>7, <1>8
<1>10. o(h) \in Int /\ o(m) \in Int
  BY <1>3, <1>6, <1>7
<1> HIDE DEF S, T, m, w, o, q
<1>11. h = m
  BY ONLY <1>2, <1>5, <1>7, <1>9, <1>10
<1>12. long.resolved[w] = tr.resolved[m]
  BY <1>7, <1>11
<1> QED
  BY <1>2, <1>12 DEF T, m, w, SameBest

LEMMA ForgottenAlike ==
  ASSUME NEW tr, NEW gone, Fine(tr, gone),
         NEW all \in Seq(SpansOf(Numbers(tr))), Remembers(tr.resolved, all), all # << >>,
         NEW start \in Nat, NEW end \in Nat,
         start >= all[Len(all)].end - SegmentMemory + MaxGap,
         NEW long, long = [tr EXCEPT !.resolved = all]
  PROVE  LabelFor(tr, start, end) = LabelFor(long, start, end)
<1>1. /\ tr = [clusters |-> tr.clusters, resolved |-> tr.resolved,
               next |-> tr.next, merged |-> tr.merged]
      /\ tr.resolved \in Seq(SpansOf(Numbers(tr)))
  BY DEF Fine, Typed
<1>2. long = [clusters |-> tr.clusters, resolved |-> all, next |-> tr.next, merged |-> tr.merged]
  BY ONLY <1>1, long = [tr EXCEPT !.resolved = all]
<1>3. /\ long.resolved = all /\ long.next = tr.next /\ long.merged = tr.merged
      /\ long.clusters = tr.clusters
      /\ Numbers(long) = Numbers(tr) /\ Live(long) = Live(tr) /\ Absorbed(long) = Absorbed(tr)
  BY <1>2 DEF Numbers, Live, Absorbed
<1>4. PICK to : Leads(tr, to) /\ Leads(long, to)
  <2>1. PICK to : Leads(tr, to)
    BY DEF Fine
  <2>2. Leads(long, to)
    BY <1>3, <2>1 DEF Leads
  <2> QED
    BY <2>1, <2>2
<1>5. Fine(long, gone)
  <2>1. Typed(long)
    <3>1. /\ long = [clusters |-> long.clusters, resolved |-> long.resolved,
                     next |-> long.next, merged |-> long.merged]
          /\ long.resolved \in Seq(SpansOf(Numbers(long)))
      BY <1>2, <1>3
    <3>2. /\ long.next \in Nat
          /\ long.clusters \in [Live(long) -> Nat]
          /\ long.merged \in [Absorbed(long) -> Numbers(long)]
      BY <1>3 DEF Fine, Typed
    <3> QED
      BY ONLY <3>1, <3>2 DEF Typed
  <2> QED
    BY <1>3, <1>4, <2>1 DEF Fine
<1>6. \A l \in Numbers(tr) : Resolve(long, l) = Resolve(tr, l)
  BY <1>3, <1>4, <1>5, ResolveIsTheEnd
<1>7. PICK k : Longer(tr.resolved, all, k, start)
  BY <1>1, LongerIs
<1>11. Longer(tr.resolved, long.resolved, k, start) /\ long.resolved \in Seq(SpansOf(Numbers(tr)))
  BY <1>3, <1>7
<1>8. /\ \A i \in DOMAIN tr.resolved : tr.resolved[i].label \in Numbers(tr)
      /\ \A i \in DOMAIN all : all[i].label \in Numbers(tr)
  BY <1>1, SpansTyped
<1>9. CASE Overlapping(tr, start, end) # {}
  <2>1. SameBest(tr, long, start, end)
    BY <1>1, <1>11, <1>9, BestIsShifted
  <2>2. MostOverlapping(tr, start, end) \in DOMAIN tr.resolved
    BY <1>1, <1>9, MostOverlappingOverlaps DEF Overlapping
  <2> QED
    BY <1>6, <1>8, <1>9, <2>1, <2>2 DEF LabelFor, SameBest
<1>10. CASE Overlapping(tr, start, end) = {}
  <2>1. Overlapping(long, start, end) = {}
    BY <1>11, <1>10, OverlapsAreShifted DEF OverlapsShift
  <2>2. /\ Neighbours(tr, start, end)
             = {Resolve(tr, tr.resolved[i].label) : i \in Near(tr.resolved, start, end)}
        /\ Neighbours(long, start, end)
             = {Resolve(long, all[i].label) : i \in Near(all, start, end)}
    BY <1>3 DEF Neighbours, Near, Starts, Ends
  <2>3. /\ \A i \in Near(tr.resolved, start, end) :
             i \in DOMAIN tr.resolved /\ i + k \in Near(all, start, end)
        /\ \A i \in Near(all, start, end) :
             /\ i - k \in Near(tr.resolved, start, end) /\ i - k \in DOMAIN tr.resolved
             /\ all[i] = tr.resolved[i - k]
    BY <1>7, NearIsShifted
  <2>4. \A i \in DOMAIN tr.resolved : all[i + k] = tr.resolved[i]
    BY <1>7 DEF Longer
  <2>5. Neighbours(tr, start, end) \subseteq Neighbours(long, start, end)
    BY <1>6, <1>8, <2>2, <2>3, <2>4, SMTT(30)
  <2>6. Neighbours(long, start, end) \subseteq Neighbours(tr, start, end)
    BY <1>6, <1>8, <2>2, <2>3
  <2>7. Neighbours(long, start, end) = Neighbours(tr, start, end)
    BY <2>5, <2>6
  <2>8. \A t : Overlapping(t, start, end) = {} =>
               LabelFor(t, start, end)
                 = IF Cardinality(Neighbours(t, start, end)) = 1
                   THEN CHOOSE label \in Neighbours(t, start, end) : TRUE
                   ELSE None
    BY DEF LabelFor
  <2> QED
    BY ONLY <1>10, <2>1, <2>7, <2>8
<1> QED
  BY <1>9, <1>10

(* segment_memory drops spans for good, yet a word that starts later than  *)
(* the horizon, by max_gap, is told what it would have been told had every *)
(* span been kept.                                                         *)
THEOREM ForgettingChangesNothing == Spec => []ForgettingIsInvisible
<1>1. IInv => ForgettingIsInvisible
  <2> SUFFICES ASSUME IInv, NEW word \in Spoken, spans # << >>,
                      word.start >= spans[Len(spans)].end - SegmentMemory + MaxGap
               PROVE  LabelFor(tracker, word.start, word.end)
                        = LabelFor([tracker EXCEPT !.resolved = spans], word.start, word.end)
    BY DEF ForgettingIsInvisible
  <2>1. PICK tr, gone, all, start, end, long :
          /\ tr = tracker /\ gone = evicted /\ all = spans
          /\ start = word.start /\ end = word.end /\ long = [tr EXCEPT !.resolved = all]
    OBVIOUS
  <2>2. /\ Fine(tr, gone) /\ all \in Seq(SpansOf(Numbers(tr)))
        /\ Remembers(tr.resolved, all) /\ all # << >>
        /\ start \in Nat /\ end \in Nat
        /\ start >= all[Len(all)].end - SegmentMemory + MaxGap
        /\ long = [tr EXCEPT !.resolved = all]
    BY <2>1, LabellingAssumption DEF IInv, HistoryIsKept
  <2>3. LabelFor(tr, start, end) = LabelFor(long, start, end)
    BY ONLY <2>2, ForgottenAlike
  <2> QED
    BY <2>1, <2>3
<1> QED
  BY <1>1, SpecIInv, PTL

=============================================================================
