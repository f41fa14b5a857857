------------------------------- MODULE Folding -------------------------------
(***************************************************************************)
(* What a fold over a finite set computes, whatever it does at each        *)
(* element: EmitWords commits words, Taught merges pairs, FillUnlabeled    *)
(* labels a queue, all as folds of the community modules.  Those are       *)
(* recursive functions, about which nothing is known until such a function *)
(* is shown to exist; and a theorem cannot take the operation as a         *)
(* parameter, so the module does, and each fold is an instance of it.      *)
(***************************************************************************)
EXTENDS Integers, FiniteSetTheorems, WellFoundedInduction, TLAPS

CONSTANTS
  Op(_, _, _),     \* Op(p, x, acc): what the fold does with x, given p
  Pick(_),         \* the last element of a set
  Keeps(_, _, _)   \* Keeps(p, s, acc): what holds of acc once s is folded

(* A set of naturals that is not empty has a least member. *)
LEMMA Least ==
  ASSUME NEW S, S \subseteq Nat, S # {}
  PROVE  \E n \in S : \A m \in S : n <= m
<1> DEFINE R == OpToRel(<, Nat)
<1>1. IsWellFoundedOn(R, Nat)
  BY NatLessThanWellFounded
<1>2. \A x, y \in Nat : <<y, x>> \in R <=> y < x
  BY DEF OpToRel
<1> HIDE DEF R
<1>3. PICK x \in S : \A y \in S : ~ (<<y, x>> \in R)
  BY <1>1, WFMin
<1>4. \A y \in S : ~ (y < x)
  BY <1>2, <1>3
<1> QED
  BY <1>4

(* What holds of 0 and of the successor of each number it holds of holds   *)
(* of every number.                                                        *)
LEMMA Upto ==
  ASSUME NEW S, NEW L \in Nat, 0 \in S, \A n \in 0 .. (L - 1) : n \in S => n + 1 \in S
  PROVE  \A n \in 0 .. L : n \in S
<1> DEFINE Bad == {n \in 0 .. L : n \notin S}
<1> SUFFICES ASSUME Bad # {} PROVE FALSE
  OBVIOUS
<1>0. Bad \subseteq Nat /\ \A n \in Bad : n \in 0 .. L /\ n \notin S
  OBVIOUS
<1>1. PICK n \in Bad : \A m \in Bad : n <= m
  <2> HIDE DEF Bad
  <2> QED
    BY <1>0, Least
<1>2. n - 1 \in 0 .. (L - 1) /\ n - 1 \notin Bad
  BY <1>1
<1> QED
  BY <1>1, <1>2

(* The members of a finite set below a bound on its size, one at a time:   *)
(* what holds of {} and of a set once it holds of the set without its last *)
(* element holds of every subset of a finite set.                          *)
LEMMA BySize ==
  ASSUME NEW S, IsFiniteSet(S), NEW Good, {} \in Good, NEW Last,
         \A s \in SUBSET S : s # {} => Last[s] \in s,
         \A s \in SUBSET S : s # {} /\ s \ {Last[s]} \in Good => s \in Good
  PROVE  S \in Good
<1> DEFINE Bad == {n \in Nat : \E s \in SUBSET S : Cardinality(s) = n /\ s \notin Good}
<1> SUFFICES ASSUME S \notin Good PROVE FALSE
  OBVIOUS
<1>1. \A s \in SUBSET S : IsFiniteSet(s) /\ Cardinality(s) \in Nat
  BY FS_Subset, FS_CardinalityType
<1>2. Bad # {}
  BY <1>1
<1>3. PICK n \in Bad : \A m \in Bad : n <= m
  BY <1>2, Least
<1>4. PICK s \in SUBSET S : Cardinality(s) = n /\ s \notin Good
  BY <1>3
<1>5. s # {} /\ Last[s] \in s
  BY <1>4
<1>6. Cardinality(s \ {Last[s]}) = n - 1 /\ n - 1 \in Nat
  <2>1. IsFiniteSet(s \ {Last[s]}) /\ Cardinality(s \ {Last[s]}) = Cardinality(s) - 1
    BY <1>1, <1>5, FS_RemoveElement
  <2>2. Cardinality(s \ {Last[s]}) \in Nat
    BY <2>1, FS_CardinalityType
  <2> QED
    BY <1>4, <2>1, <2>2
<1>7. s \ {Last[s]} \in SUBSET S /\ n - 1 \notin Bad
  BY <1>3, <1>6
<1> QED
  BY <1>4, <1>5, <1>6, <1>7

(* A finite set that is not empty has a last member in any total order. *)
LEMMA LastMember ==
  ASSUME NEW S, IsFiniteSet(S), S # {}, NEW R,
         \A x, y \in S : x = y \/ <<x, y>> \in R \/ <<y, x>> \in R,
         \A x, y, z \in S : <<x, y>> \in R /\ <<y, z>> \in R => <<x, z>> \in R
  PROVE  \E x \in S : \A y \in S : y = x \/ <<y, x>> \in R
<1> DEFINE After(x) == {y \in S : ~ (y = x \/ <<y, x>> \in R)}
           Sizes == {Cardinality(After(x)) : x \in S}
<1>1. \A x \in S : IsFiniteSet(After(x)) /\ Cardinality(After(x)) \in Nat
  BY FS_Subset, FS_CardinalityType
<1>2. Sizes \subseteq Nat /\ Sizes # {}
  BY <1>1, ZenonT(60)
<1>3. PICK n \in Sizes : \A m \in Sizes : n <= m
  BY <1>2, Least
<1>4. PICK x \in S : n = Cardinality(After(x))
  BY <1>3
<1>5. ASSUME NEW z \in After(x) PROVE FALSE
  <2>1. z \in S /\ <<x, z>> \in R
    BY <1>5
  <2>2. \A y \in After(z) : y # x /\ <<y, x>> \notin R
    BY <2>1
  <2>3. After(z) \subseteq After(x) /\ After(z) # After(x)
    BY <2>2
  <2>4. Cardinality(After(z)) < Cardinality(After(x))
    <3> HIDE DEF After
    <3> QED
      BY <1>1, <2>1, <2>3, FS_Subset
  <2>5. Cardinality(After(z)) \in Sizes
    BY <2>1, ZenonT(60)
  <2> HIDE DEF After, Sizes
  <2> QED
    BY <1>1, <1>3, <1>4, <2>1, <2>4, <2>5
<1> QED
  BY <1>5
-----------------------------------------------------------------------------
(* The recursive function of a fold, its result, and the same function on  *)
(* the subsets of at most n members.                                       *)
Folds(p, base, S, f) ==
  f = [s \in SUBSET S |-> IF s = {} THEN base ELSE Op(p, Pick(s), f[s \ {Pick(s)}])]

Fold(p, base, S) == (CHOOSE f : Folds(p, base, S, f))[S]

Small(S, n) == {s \in SUBSET S : Cardinality(s) <= n}

FoldsSmall(p, base, S, n, f) ==
  f = [s \in Small(S, n) |-> IF s = {} THEN base ELSE Op(p, Pick(s), f[s \ {Pick(s)}])]

(* Pick finds a member of every subset there is anything in. *)
Picks(S) == IsFiniteSet(S) /\ \A s \in SUBSET S : s # {} => Pick(s) \in s

LEMMA Removed ==
  ASSUME NEW S, Picks(S), NEW s \in SUBSET S, s # {}
  PROVE  /\ s \ {Pick(s)} \in SUBSET S
         /\ Cardinality(s) \in Nat
         /\ Cardinality(s \ {Pick(s)}) = Cardinality(s) - 1
         /\ Cardinality(s) > 0
<1>1. IsFiniteSet(s) /\ Cardinality(s) \in Nat /\ Pick(s) \in s
  BY FS_Subset, FS_CardinalityType DEF Picks
<1>2. IsFiniteSet(s \ {Pick(s)}) /\ Cardinality(s \ {Pick(s)}) = Cardinality(s) - 1
  BY <1>1, FS_RemoveElement
<1>3. Cardinality(s \ {Pick(s)}) \in Nat
  BY <1>2, FS_CardinalityType
<1> QED
  BY <1>1, <1>2, <1>3

(* One more member: the function on the subsets of at most n gives the one *)
(* on the subsets of at most n + 1.                                        *)
LEMMA FoldGrows ==
  ASSUME NEW p, NEW base, NEW S, Picks(S), NEW n \in Nat, NEW f, FoldsSmall(p, base, S, n, f)
  PROVE  \E g : FoldsSmall(p, base, S, n + 1, g)
<1> DEFINE Val(h, s) == IF s = {} THEN base ELSE Op(p, Pick(s), h[s \ {Pick(s)}])
           g == [s \in Small(S, n + 1) |-> Val(f, s)]
<1>1. ASSUME NEW s \in Small(S, n) PROVE f[s] = Val(f, s)
  BY DEF FoldsSmall
<1>2. ASSUME NEW s \in Small(S, n + 1), s # {}
      PROVE  s \ {Pick(s)} \in Small(S, n)
  BY <1>2, Removed DEF Small
<1>3. \A s \in Small(S, n) : s \in Small(S, n + 1)
  <2> SUFFICES ASSUME NEW s \in Small(S, n) PROVE s \in Small(S, n + 1)
    OBVIOUS
  <2>1. s \in SUBSET S /\ Cardinality(s) <= n
    BY DEF Small
  <2>2. Cardinality(s) \in Nat
    BY <2>1, FS_Subset, FS_CardinalityType DEF Picks
  <2> QED
    BY <2>1, <2>2 DEF Small
<1>4. ASSUME NEW s \in Small(S, n) PROVE g[s] = f[s]
  BY <1>1, <1>3
<1>5. ASSUME NEW s \in Small(S, n + 1) PROVE g[s] = Val(g, s)
  <2>1. CASE s = {}
    BY <2>1
  <2>2. CASE s # {}
    <3>1. g[s \ {Pick(s)}] = f[s \ {Pick(s)}]
      BY <1>2, <1>4, <2>2
    <3>2. g[s] = Op(p, Pick(s), f[s \ {Pick(s)}])
      BY <2>2
    <3> HIDE DEF g
    <3> QED
      BY <2>2, <3>1, <3>2
  <2> QED
    BY <2>1, <2>2
<1>6. g = [s \in Small(S, n + 1) |-> g[s]]
  OBVIOUS
<1> HIDE DEF g
<1>7. FoldsSmall(p, base, S, n + 1, g)
  BY <1>5, <1>6 DEF FoldsSmall
<1> QED
  BY <1>7

LEMMA FoldExists ==
  ASSUME NEW p, NEW base, NEW S, Picks(S)
  PROVE  \E f : Folds(p, base, S, f)
<1> DEFINE L == Cardinality(S)
           Good == {n \in 0 .. L : \E f : FoldsSmall(p, base, S, n, f)}
<1>1. L \in Nat
  BY FS_CardinalityType DEF Picks
<1>2. 0 \in Good
  <2>1. Small(S, 0) = {{}}
    <3>1. ASSUME NEW s \in SUBSET S, s # {} PROVE ~ (Cardinality(s) <= 0)
      <4>1. Cardinality(s) \in Nat /\ Cardinality(s) > 0
        BY <3>1, Removed
      <4> QED
        BY <4>1
    <3>2. Cardinality({}) <= 0
      BY FS_EmptySet
    <3>3. \A s \in SUBSET S : Cardinality(s) <= 0 <=> s = {}
      BY <3>1, <3>2
    <3> QED
      BY <3>3 DEF Small
  <2>2. FoldsSmall(p, base, S, 0, [s \in {{}} |-> base])
    BY <2>1 DEF FoldsSmall
  <2> QED
    BY <1>1, <2>2
<1>3. \A n \in 0 .. (L - 1) : n \in Good => n + 1 \in Good
  BY <1>1, FoldGrows
<1>4. L \in Good
  <2> HIDE DEF Good, L
  <2> QED
    BY <1>1, <1>2, <1>3, Upto
<1>5. Small(S, L) = SUBSET S
  BY FS_Subset DEF Small, Picks
<1> QED
  BY <1>4, <1>5 DEF Folds, FoldsSmall

(* A fold keeps whatever each of its steps keeps.                          *)
THEOREM FoldKeeps ==
  ASSUME NEW p, NEW base, NEW S, Picks(S),
         Keeps(p, {}, base),
         \A acc : \A s \in SUBSET S :
           s # {} /\ Keeps(p, s \ {Pick(s)}, acc) => Keeps(p, s, Op(p, Pick(s), acc))
  PROVE  Keeps(p, S, Fold(p, base, S))
<1> DEFINE f == CHOOSE h : Folds(p, base, S, h)
           Good == {s \in SUBSET S : Keeps(p, s, f[s])}
           Last == [s \in SUBSET S |-> Pick(s)]
<1>1. Folds(p, base, S, f)
  BY FoldExists
<1> HIDE DEF f
<1>2. {} \in Good
  BY <1>1 DEF Folds
<1>3. ASSUME NEW s \in SUBSET S, s # {}, s \ {Last[s]} \in Good
      PROVE  s \in Good
  <2>1. Keeps(p, s \ {Pick(s)}, f[s \ {Pick(s)}])
    BY <1>3
  <2>2. f[s] = Op(p, Pick(s), f[s \ {Pick(s)}])
    BY <1>1, <1>3 DEF Folds
  <2> QED
    BY <1>3, <2>1, <2>2
<1>4. S \in Good
  <2>1. \A s \in SUBSET S : s # {} => Last[s] \in s
    BY DEF Picks
  <2> HIDE DEF Good, Last
  <2> QED
    BY <1>2, <1>3, <2>1, BySize DEF Picks
<1> QED
  BY <1>4 DEF Fold, f

(* Whatever satisfies the recursion is the fold. *)
LEMMA FoldIs ==
  ASSUME NEW p, NEW base, NEW S, Picks(S), NEW g, Folds(p, base, S, g)
  PROVE  g[S] = Fold(p, base, S)
<1> DEFINE f == CHOOSE h : Folds(p, base, S, h)
           Good == {s \in SUBSET S : f[s] = g[s]}
           Last == [s \in SUBSET S |-> Pick(s)]
<1>1. Folds(p, base, S, f)
  BY FoldExists
<1> HIDE DEF f
<1>2. {} \in Good
  BY <1>1 DEF Folds
<1>3. ASSUME NEW s \in SUBSET S, s # {}, s \ {Last[s]} \in Good
      PROVE  s \in Good
  <2>1. f[s \ {Pick(s)}] = g[s \ {Pick(s)}]
    BY <1>3
  <2>2. /\ f[s] = Op(p, Pick(s), f[s \ {Pick(s)}])
        /\ g[s] = Op(p, Pick(s), g[s \ {Pick(s)}])
    BY <1>1, <1>3 DEF Folds
  <2> QED
    BY <1>3, <2>1, <2>2
<1>4. S \in Good
  <2>1. \A s \in SUBSET S : s # {} => Last[s] \in s
    BY DEF Picks
  <2> HIDE DEF Good, Last
  <2> QED
    BY <1>2, <1>3, <2>1, BySize, SMTT(30) DEF Picks
<1> QED
  BY <1>4 DEF Fold, f

(* Two folds of the same elements, one from `a` and one from `b`, keep     *)
(* whatever relation each of their steps keeps.                            *)
LEMMA FoldsAgree ==
  ASSUME NEW p, NEW q, NEW a, NEW b, NEW S, Picks(S),
         Keeps(<<p, q>>, {}, <<a, b>>),
         \A acc, bcc : \A s \in SUBSET S :
           s # {} /\ Keeps(<<p, q>>, s \ {Pick(s)}, <<acc, bcc>>)
             => Keeps(<<p, q>>, s, <<Op(p, Pick(s), acc), Op(q, Pick(s), bcc)>>)
  PROVE  Keeps(<<p, q>>, S, <<Fold(p, a, S), Fold(q, b, S)>>)
<1> DEFINE f == CHOOSE h : Folds(p, a, S, h)
           g == CHOOSE h : Folds(q, b, S, h)
           Good == {s \in SUBSET S : Keeps(<<p, q>>, s, <<f[s], g[s]>>)}
           Last == [s \in SUBSET S |-> Pick(s)]
<1>1. Folds(p, a, S, f) /\ Folds(q, b, S, g)
  <2>1. Folds(p, a, S, f)
    BY FoldExists
  <2>2. Folds(q, b, S, g)
    BY FoldExists
  <2> QED
    BY <2>1, <2>2
<1> HIDE DEF f, g
<1>2. {} \in Good
  BY <1>1 DEF Folds
<1>3. ASSUME NEW s \in SUBSET S, s # {}, s \ {Last[s]} \in Good
      PROVE  s \in Good
  <2>1. Keeps(<<p, q>>, s \ {Pick(s)}, <<f[s \ {Pick(s)}], g[s \ {Pick(s)}]>>)
    BY <1>3
  <2>2. /\ f[s] = Op(p, Pick(s), f[s \ {Pick(s)}])
        /\ g[s] = Op(q, Pick(s), g[s \ {Pick(s)}])
    BY <1>1, <1>3 DEF Folds
  <2> QED
    BY <1>3, <2>1, <2>2
<1>4. S \in Good
  <2>1. \A s \in SUBSET S : s # {} => Last[s] \in s
    BY DEF Picks
  <2> HIDE DEF Good, Last
  <2> QED
    BY <1>2, <1>3, <2>1, BySize, ZenonT(60) DEF Picks
<1> QED
  BY <1>4 DEF Fold, f, g

=============================================================================
