----------------------------- MODULE Text_proofs -----------------------------
(***************************************************************************)
(* Theorems about PolishChain, Measurement and Wer, for every choice of    *)
(* backends, every length of the context, every log and every two texts.   *)
(***************************************************************************)
EXTENDS Text, FiniteSetTheorems, SequenceTheorems, TLAPS

-----------------------------------------------------------------------------
(* What the folds of Measurement do: with an arrangement, when the words   *)
(* to be scored are p,                                                     *)
Better(p, g, best) ==
  IF best = Log!Empty \/ Log!Agreement(p, g) > Log!Agreement(p, best) THEN g ELSE best

SomeOf(S) == CHOOSE x \in S : TRUE

NoneIsBetter(p, s, best) == \A g \in s : Log!Agreement(p, g) <= Log!Agreement(p, best)

Trying == INSTANCE Folding WITH Op <- Better, Pick <- SomeOf, Keeps <- NoneIsBetter

(* and with a kind of pair: either it is read that way, or one that is as  *)
(* frequent stands in its way.                                             *)
TakeKind(p, k, g) == Log!Take(k, g)

OneToOne(g) == \A x, y \in DOMAIN g : g[x] = g[y] => x = y

Reads(g, k) == k.label \in DOMAIN g /\ g[k.label] = k.speaker

StandsFor(k, m) == (k.label = m.label \/ k.speaker = m.speaker) /\ k.count >= m.count

Reading(p, s, g) ==
  /\ \A x \in DOMAIN g : \E k \in s : k.label = x /\ k.speaker = g[x]
  /\ \A m \in s : \E k \in s : Reads(g, k) /\ StandsFor(k, m)

Greedily == INSTANCE Folding WITH Op <- TakeKind, Pick <- Log!LastKind, Keeps <- Reading

-----------------------------------------------------------------------------
(* The stages of a chain.  What a chain is built from is one of five       *)
(* lists; whatever order they are sorted into, no stage is added.          *)
Given == IF built THEN Build(FALSE, backends).polish
                  ELSE <<"normalisation", "punctuation", "punctuation">>

Lists == {<<>>, <<"punctuation">>, <<"normalisation">>, <<"punctuation", "normalisation">>,
          <<"normalisation", "punctuation", "punctuation">>}

LEMMA TwoTogether == ASSUME NEW a, NEW b
  PROVE  <<a>> \o <<b>> = <<a, b>>
<1> DEFINE x == <<a>>
           y == <<b>>
           S == {a, b}
<1>1. x \in Seq(S) /\ y \in Seq(S) /\ Len(x) = 1 /\ Len(y) = 1 /\ x[1] = a /\ y[1] = b
  OBVIOUS
<1> HIDE DEF x, y, S
<1>2. x \o y \in Seq(S) /\ Len(x \o y) = 2
  <2>1. Len(x \o y) = Len(x) + Len(y)
    BY <1>1, ConcatProperties
  <2>2. x \o y \in Seq(S)
    BY <1>1, ConcatProperties
  <2> QED
    BY <1>1, <2>1, <2>2
<1>3. (x \o y)[1] = a 
  BY <1>1, ConcatProperties
<1>4. (x \o y)[2] = b
  BY <1>1, ConcatProperties
<1>5. x \o y = [i \in 1 .. 2 |-> IF i = 1 THEN a ELSE b]
  <2> DEFINE z == x \o y
  <2>1. z \in Seq(S) /\ Len(z) = 2 /\ z[1] = a /\ z[2] = b
    BY <1>2, <1>3, <1>4
  <2> HIDE DEF z
  <2>2. z = [i \in 1 .. 2 |-> z[i]]
    BY <2>1
  <2>3. z = [i \in 1 .. 2 |-> IF i = 1 THEN a ELSE b]
    BY <2>1, <2>2
  <2> QED
    BY <2>3 DEF z
<1>6. <<a, b>> = [i \in 1 .. 2 |-> IF i = 1 THEN a ELSE b]
  OBVIOUS
<1> QED
  BY <1>5, <1>6 DEF x, y

LEMMA GivenLists == Given \in Lists
<1>1. PolishStages(backends) \in
        {<<>>, <<"punctuation">>, <<"normalisation">>, <<"punctuation", "normalisation">>}
  <2> DEFINE b == backends
  <2>a. <<>> \o <<>> = <<>>
    OBVIOUS
  <2>b. <<>> \o <<"normalisation">> = <<"normalisation">>
    OBVIOUS
  <2>c. <<"punctuation">> \o <<>> = <<"punctuation">>
    OBVIOUS
  <2>d. <<"punctuation">> \o <<"normalisation">> = <<"punctuation", "normalisation">>
    BY TwoTogether
  <2>1. <<>> \o <<>> = <<>> /\ <<>> \o <<"normalisation">> = <<"normalisation">>
        /\ <<"punctuation">> \o <<>> = <<"punctuation">>
        /\ <<"punctuation">> \o <<"normalisation">> = <<"punctuation", "normalisation">>
    BY <2>a, <2>b, <2>c, <2>d
  <2>2. CASE WantsPunctuation(b) /\ b.normalise
    BY <2>1, <2>2 DEF PolishStages
  <2>3. CASE WantsPunctuation(b) /\ ~b.normalise
    BY <2>1, <2>3 DEF PolishStages
  <2>4. CASE ~WantsPunctuation(b) /\ b.normalise
    BY <2>1, <2>4 DEF PolishStages
  <2>5. CASE ~WantsPunctuation(b) /\ ~b.normalise
    BY <2>1, <2>5 DEF PolishStages
  <2> QED
    BY <2>2, <2>3, <2>4, <2>5
<1>2. Build(FALSE, backends).polish = PolishStages(backends)
  BY DEF Build
<1> QED
  BY <1>1, <1>2 DEF Given, Lists

LEMMA InOrder ==
  ASSUME NEW given, NEW n \in Nat, DOMAIN given = 1 .. n,
         \A i \in 1 .. n : Order[given[i]] \in Int,
         \A i, j \in 1 .. n : i < j => Order[given[i]] <= Order[given[j]]
  PROVE  \A k \in DOMAIN given : \E i \in DOMAIN given : Place(given, i) = k
<1> SUFFICES ASSUME NEW k \in 1 .. n PROVE Place(given, k) = k
  OBVIOUS
<1> DEFINE S == {j \in DOMAIN given : \/ Order[given[j]] < Order[given[k]]
                                      \/ Order[given[j]] = Order[given[k]] /\ j <= k}
<1>1. ASSUME NEW j \in 1 .. n PROVE j \in S <=> j \in 1 .. k
  BY j < k \/ j = k \/ k < j
<1>2. S = 1 .. k
  BY <1>1
<1>3. Cardinality(1 .. k) = k
  BY FS_Interval
<1> QED
  BY <1>2, <1>3 DEF Place

LEMMA Placed ==
  ASSUME NEW given \in Lists
  PROVE  \A k \in DOMAIN given : \E i \in DOMAIN given : Place(given, i) = k
<1>0. Order["punctuation"] = 10 /\ Order["normalisation"] = 90
  BY DEF Order, PunctuationStage, NormalisationStage
<1>1. CASE given = <<>>
  BY <1>1
<1>2. CASE given \in {<<"punctuation">>, <<"normalisation">>}
  <2>1. DOMAIN given = 1 .. 1 /\ 1 \in Nat
    BY <1>2
  <2>2. \A i \in 1 .. 1 : Order[given[i]] \in Int
    BY <1>0, <1>2
  <2>3. \A i, j \in 1 .. 1 : i < j => Order[given[i]] <= Order[given[j]]
    OBVIOUS
  <2> QED
    BY <2>1, <2>2, <2>3, InOrder
<1>3. CASE given = <<"punctuation", "normalisation">>
  <2>1. DOMAIN given = 1 .. 2 /\ 2 \in Nat
    BY <1>3
  <2>2. \A i \in 1 .. 2 : Order[given[i]] \in Int
    BY <1>0, <1>3
  <2>3. \A i, j \in 1 .. 2 : i < j => Order[given[i]] <= Order[given[j]]
    BY <1>0, <1>3
  <2> QED
    BY <2>1, <2>2, <2>3, InOrder
<1>4. CASE given = <<"normalisation", "punctuation", "punctuation">>
  <2>1. DOMAIN given = 1 .. 3 /\ given[1] = "normalisation"
        /\ given[2] = "punctuation" /\ given[3] = "punctuation"
    BY <1>4
  <2> DEFINE S(i) == {j \in DOMAIN given : \/ Order[given[j]] < Order[given[i]]
                                           \/ Order[given[j]] = Order[given[i]] /\ j <= i}
  <2>2. S(1) = 1 .. 3 /\ S(2) = 2 .. 2 /\ S(3) = 2 .. 3
    BY <1>0, <2>1
  <2>3. Cardinality(1 .. 3) = 3 /\ Cardinality(2 .. 2) = 1 /\ Cardinality(2 .. 3) = 2
    <3>1. ASSUME NEW b \in Nat PROVE Cardinality(1 .. b) = b
      BY FS_Interval
    <3>2. Cardinality(1 .. 3) = 3
      BY <3>1
    <3>3. IsFiniteSet({2}) /\ Cardinality({2}) = 1
      BY FS_Singleton
    <3>4. Cardinality({2} \cup {3}) = 2
      BY <3>3, FS_AddElement
    <3>5. 2 .. 2 = {2} /\ 2 .. 3 = {2} \cup {3}
      OBVIOUS
    <3> QED
      BY <3>2, <3>3, <3>4, <3>5
  <2>4. Place(given, 1) = 3 /\ Place(given, 2) = 1 /\ Place(given, 3) = 2
    BY <2>2, <2>3 DEF Place
  <2> QED
    BY <2>1, <2>4
<1> QED
  BY <1>1, <1>2, <1>3, <1>4 DEF Lists

LEMMA StagesAreGiven ==
  /\ \A i \in DOMAIN Stages : \E j \in DOMAIN Given : Stages[i] = Given[j]
  /\ \E n \in Nat : DOMAIN Stages = 1 .. n
  /\ Len(Stages) \in Nat
<1> DEFINE At(k) == CHOOSE i \in DOMAIN Given : Place(Given, i) = k
<1>1. Stages = [k \in DOMAIN Given |-> Given[At(k)]]
  BY DEF Stages, Given
<1>2. ASSUME NEW i \in DOMAIN Stages PROVE \E j \in DOMAIN Given : Stages[i] = Given[j]
  <2>1. At(i) \in DOMAIN Given
    BY <1>1, GivenLists, Placed
  <2> QED
    BY <1>1, <2>1
<1>3. PICK n \in Nat : DOMAIN Given = 1 .. n
  <2>1. DOMAIN Given \in {1 .. 0, 1 .. 1, 1 .. 2, 1 .. 3}
    BY GivenLists DEF Lists
  <2> QED
    BY <2>1
<1> DEFINE T == {Stages[i] : i \in 1 .. n}
<1>4. DOMAIN Stages = 1 .. n /\ Stages = [i \in 1 .. n |-> Stages[i]]
  BY <1>1, <1>3
<1>5. Stages \in [1 .. n -> T]
  BY <1>4
<1>6. Stages \in Seq(T)
  <2> HIDE DEF T
  <2> QED
    BY <1>3, <1>5
<1> QED
  BY <1>2, <1>4, <1>6

(* A session the builder decides for never runs the punctuation stage      *)
(* where it took the recogniser for one that punctuates.                   *)
LEMMA NoStage ==
  ASSUME built, ~WantsPunctuation(backends)
  PROVE  \A i \in DOMAIN Stages : Stages[i] # "punctuation"
<1>1. Given \in {<<>>, <<"normalisation">>}
  <2>1. Given = PolishStages(backends)
    BY DEF Given, Build
  <2>2. <<>> \o <<>> = <<>> /\ <<>> \o <<"normalisation">> = <<"normalisation">>
    OBVIOUS
  <2> QED
    BY <2>1, <2>2 DEF PolishStages
<1>2. \A j \in DOMAIN Given : Given[j] # "punctuation"
  BY <1>1
<1> QED
  BY <1>2, StagesAreGiven

-----------------------------------------------------------------------------
(* The full stop of a recogniser that writes them. *)
Stopped(text) == Completeness(text) = Confident

LEMMA HeardStops ==
  ASSUME NEW words \in Seq(STRING), words # <<>>
  PROVE  Stopped([Words(words) EXCEPT ![Len(Words(words))].mark = "."])
<1> DEFINE n == Len(words)
           bare == Words(words)
           heard == [bare EXCEPT ![Len(bare)].mark = "."]
           Tokens == {Word(w) : w \in STRING}
<1>1. n \in Nat /\ n > 0 /\ DOMAIN words = 1 .. n
  OBVIOUS
<1>2. bare \in [1 .. n -> Tokens]
  BY <1>1 DEF Words
<1>3. bare \in Seq(Tokens) /\ Len(bare) = n
  <2> HIDE DEF bare, Tokens
  <2> QED
    BY <1>1, <1>2
<1>4. DOMAIN heard = 1 .. n /\ heard[n] = [bare[n] EXCEPT !.mark = "."]
  BY <1>1, <1>2, <1>3
<1>5. bare[n] = Word(words[n])
  BY <1>1 DEF Words
<1>6. heard[n].mark = "."
  BY <1>4, <1>5 DEF Word
<1>7. heard = [i \in 1 .. n |-> heard[i]]
  BY <1>4
<1>8. heard \in [1 .. n -> {heard[i] : i \in 1 .. n}]
  BY <1>7
<1> HIDE DEF heard
<1>9. heard \in Seq({heard[i] : i \in 1 .. n}) /\ Len(heard) = n /\ heard # <<>>
  BY <1>1, <1>8
<1>10. Last(heard) = heard[n]
  BY <1>9 DEF Last
<1>11. Completeness(heard) = Confident
  BY <1>6, <1>9, <1>10 DEF Completeness
<1> QED
  BY <1>11 DEF heard, Stopped

(* Who punctuates.  Where the builder chooses and knows the recogniser, an *)
(* utterance that has been punctuated once is not punctuated again: the    *)
(* chain says so, or has no stage that could.                              *)
Choosing(b) == ~(b.punctuate # Automatic \/ (b.engine = "sherpa" /\ Model(b) \notin Registry))

Done ==
  \/ Produces["punctuation"] \cap present # {}
  \/ built /\ ~WantsPunctuation(backends)

SourceInv ==
  /\ backends \in Offered /\ built \in BOOLEAN /\ at \in Nat
  /\ at # 0 /\ Writes(backends) => Stopped(said)
  /\ at # 0 /\ Choosing(backends) => marked = 0 \/ (marked = 1 /\ Done)

LEMMA ChoosingWrites ==
  ASSUME NEW b \in Offered, Choosing(b), Writes(b)
  PROVE  ~WantsPunctuation(b)
<1>1. b.engine \in {"sherpa", "whisper"} /\ b.punctuate = Automatic
  BY PolishAssumption DEF Backends, Choosing
<1>2. RecogniserPunctuates(b)
  BY <1>1 DEF Choosing, Writes, RecogniserPunctuates
<1> QED
  BY <1>1, <1>2 DEF WantsPunctuation

LEMMA SourceInit ==
  ASSUME Init
  PROVE  SourceInv
BY DEF Init, SourceInv

LEMMA SourceNext ==
  ASSUME SourceInv, [Next]_chainVars
  PROVE  SourceInv'
<1>1. CASE UNCHANGED chainVars
  BY <1>1 DEF chainVars, SourceInv, Done
<1>2. ASSUME NEW words \in Texts, Begin(words)
      PROVE  SourceInv'
  <2>1. backends' = backends /\ built' = built /\ at' = 1
    BY <1>2 DEF Begin, FromRecogniser
  <2>2. Writes(backends) => Stopped(said')
    BY <1>2, HeardStops, PolishAssumption DEF Begin, FromRecogniser
  <2>3. marked' = (IF Writes(backends) THEN 1 ELSE 0) /\ present' = AlreadyPresent
    BY <1>2 DEF Begin, FromRecogniser
  <2>4. ASSUME Choosing(backends) PROVE marked' = 0 \/ (marked' = 1 /\ Done')
    <3>1. CASE ~Writes(backends)
      BY <2>3, <3>1
    <3>2. CASE Writes(backends) /\ built
      BY <2>1, <2>3, <2>4, <3>2, ChoosingWrites DEF SourceInv, Done
    <3>3. CASE Writes(backends) /\ ~built
      <4>1. present' = {"punctuation", "casing"}
        BY <2>3, <3>3 DEF AlreadyPresent, Produces, PunctuationStage
      <4> QED
        BY <2>3, <3>3, <4>1 DEF Done, Produces, PunctuationStage
    <3> QED
      BY <3>1, <3>2, <3>3 DEF SourceInv
  <2> QED
    BY <2>1, <2>2, <2>4 DEF SourceInv
<1>3. ASSUME NEW stage \in DOMAIN Order, at' = at + 1,
             UNCHANGED <<backends, built, said, present, marked>>, at \in DOMAIN Stages
      PROVE  SourceInv'
  <2>1. at # 0
    BY <1>3, StagesAreGiven DEF SourceInv
  <2> QED
    BY <1>3, <2>1 DEF SourceInv, Done
<1>4. ASSUME NEW stage \in DOMAIN Order, NEW candidate, Running(stage), Runs(stage),
             Keep(stage, candidate)
      PROVE  SourceInv'
  <2>1. at \in DOMAIN Stages /\ stage = Stages[at] /\ at' = at + 1 /\ Produces[stage] \cap present = {}
    BY <1>4 DEF Runs, Running
  <2>2. present' = present \cup Produces[stage] /\ UNCHANGED <<backends, built, said>>
    BY <1>4 DEF Keep
  <2>3. at # 0 /\ at \in Nat /\ at' \in Nat
    BY <2>1, StagesAreGiven DEF SourceInv
  <2>4. ASSUME Choosing(backends) PROVE marked' = 0 \/ (marked' = 1 /\ Done')
    <3>1. CASE stage = "punctuation"
      <4>1. ~Done
        BY <2>1, <3>1, NoStage DEF Done
      <4>2. marked = 0 /\ marked' = 1
        BY <1>4, <2>3, <2>4, <3>1, <4>1 DEF SourceInv, Keep
      <4>3. Done'
        BY <2>2, <3>1 DEF Done, Produces, PunctuationStage
      <4> QED
        BY <4>2, <4>3
    <3>2. CASE stage # "punctuation"
      <4>1. marked' = marked
        BY <1>4, <3>2 DEF Keep
      <4>2. Done => Done'
        BY <2>2 DEF Done
      <4> QED
        BY <2>3, <2>4, <4>1, <4>2 DEF SourceInv
    <3> QED
      BY <3>1, <3>2
  <2> QED
    BY <2>2, <2>3, <2>4 DEF SourceInv
<1>5. CASE End
  BY <1>5 DEF End, SourceInv
<1> QED
  <2>1. ASSUME NEW stage \in DOMAIN Order, Running(stage), Skip(stage) PROVE SourceInv'
    BY <1>3, <2>1 DEF Skip, Running
  <2>2. ASSUME NEW stage \in DOMAIN Order, Running(stage), Runs(stage), Raises(stage) PROVE SourceInv'
    BY <1>3, <2>2 DEF Running, Raises
  <2>3. ASSUME NEW stage \in DOMAIN Order, NEW candidate, Running(stage), Discard(stage, candidate)
        PROVE SourceInv'
    BY <1>3, <2>3 DEF Running, Discard
  <2>4. ASSUME NEW stage \in DOMAIN Order, NEW candidate, Running(stage), Unchanged(candidate)
        PROVE SourceInv'
    BY <1>3, <2>4 DEF Running, Unchanged
  <2> QED
    BY <1>1, <1>2, <1>4, <1>5, <2>1, <2>2, <2>3, <2>4 DEF Next

LEMMA SourceHolds ==
  ASSUME SourceInv
  PROVE  PunctuationHasOneSource
<1> SUFFICES ASSUME Polished PROVE PunctuationHasOneSource
  BY DEF PunctuationHasOneSource
<1>1. at # 0
  BY StagesAreGiven DEF Polished
<1>2. Choosing(backends) => marked <= 1
  BY <1>1 DEF SourceInv
<1>3. ASSUME backends.turnDetector = Automatic, Build(FALSE, backends).turn = "punctuation"
      PROVE  Completeness(said) = Confident
  <2>1. (IF backends.turn THEN TurnDetector(backends) ELSE None) = "punctuation"
    BY <1>3 DEF Build
  <2>2. TurnDetector(backends) = "punctuation"
    <3>2. None # "punctuation"
      BY PipelineAssumption
    <3> QED
      BY <2>1, <3>2
  <2>3. RecogniserPunctuates(backends)
    BY <1>3, <2>2 DEF TurnDetector
  <2>4. Writes(backends)
    BY <2>3 DEF RecogniserPunctuates, Writes
  <2> QED
    BY <1>1, <2>4 DEF SourceInv, Stopped
<1> QED
  BY <1>2, <1>3 DEF PunctuationHasOneSource, Choosing


(* pipeline.py:194-203, PunctuationHasOneSource for every recogniser and    *)
(* every text: left to choose, the builder never has one punctuated twice,  *)
(* and never makes a full stop the condition of an endpoint where nothing   *)
(* writes any.                                                              *)
THEOREM PunctuatedOnce == Spec => []PunctuationHasOneSource
<1>1. Init => SourceInv
  BY SourceInit
<1>2. SourceInv /\ [Next]_chainVars => SourceInv'
  BY SourceNext
<1>3. SourceInv => PunctuationHasOneSource
  BY SourceHolds
<1> QED
  BY <1>1, <1>2, <1>3, PTL DEF Spec

-----------------------------------------------------------------------------
(* The log that is measured.  Measurement speaks of sets in its own name.  *)
LEMMA InLog ==
  /\ \A S : Log!Cardinality(S) = Cardinality(S)
  /\ \A S : Log!Max(S) = Max(S) /\ Log!Min(S) = Min(S)
BY DEF Log!Cardinality, Cardinality, Log!Max, Max, Log!Min, Min

(* A set of positions has a last and a first. *)
LEMMA LastAndFirst ==
  ASSUME NEW L \in Nat, NEW s \in SUBSET (1 .. L), s # {}
  PROVE  /\ Max(s) \in s /\ \A y \in s : Max(s) >= y
         /\ Min(s) \in s /\ \A y \in s : Min(s) <= y
<1>0. s \subseteq Nat /\ \A x \in s : x \in Nat /\ L - x \in Nat
  OBVIOUS
<1>1. \E x \in s : \A y \in s : x <= y
  BY <1>0, Trying!Least
<1>2. \E x \in s : \A y \in s : x >= y
  <2> DEFINE t == {L - x : x \in s}
  <2>1. t \subseteq Nat /\ t # {}
    BY <1>0
  <2>2. PICK z \in t : \A y \in t : z <= y
    <3> HIDE DEF t
    <3> QED
      BY <2>1, Trying!Least
  <2>3. PICK x \in s : z = L - x
    BY <2>2
  <2>4. \A y \in s : L - x <= L - y
    BY <2>2, <2>3
  <2>5. \A y \in s : x >= y
    BY <1>0, <2>4
  <2> QED
    BY <2>5
<1>3. Max(s) = CHOOSE x \in s : \A y \in s : x >= y
  BY DEF Max
<1>4. Min(s) = CHOOSE x \in s : \A y \in s : x <= y
  BY DEF Min
<1> QED
  BY <1>1, <1>2, <1>3, <1>4

Recorded(log) ==
  /\ \E S : log \in Seq(S)
  /\ \A i \in DOMAIN log :
       /\ log[i].kind = "speaker" => log[i].speaker \in Labels
       /\ Log!IsCommit(log[i]) => log[i].middle \in Int /\ log[i].at = log[i].middle + 1
  /\ \A i, j \in DOMAIN log :
       Log!IsCommit(log[i]) /\ Log!IsCommit(log[j]) /\ i < j => log[i].at <= log[j].at

(* The entries that name commit i, or a turn: *)
NamesSeq(log, i) == {k \in DOMAIN log : log[k].kind = "speaker" /\ log[k].seq = i}

NamesTurn(log, turn) ==
  {k \in DOMAIN log : log[k].kind = "speaker" /\ log[k].seq = None /\ log[k].turn = turn}

(* there is a label as soon as there is one. *)
LEMMA Named ==
  ASSUME NEW log, Recorded(log)
  PROVE  /\ \A i : Log!BySeq(log, i) # None <=> NamesSeq(log, i) # {}
         /\ \A t : Log!ByTurn(log, t) # None <=> NamesTurn(log, t) # {}
<1>1. PICK L \in Nat : DOMAIN log = 1 .. L
  BY DEF Recorded
<1>2. None \notin Labels
  BY TextAssumption DEF Log!MeasurementAssumption
<1>3. ASSUME NEW i PROVE Log!BySeq(log, i) # None <=> NamesSeq(log, i) # {}
  <2>1. Log!BySeq(log, i) =
          IF NamesSeq(log, i) = {} THEN None ELSE log[Max(NamesSeq(log, i))].speaker
    BY InLog DEF Log!BySeq, NamesSeq
  <2>2. NamesSeq(log, i) # {} => Max(NamesSeq(log, i)) \in NamesSeq(log, i)
    <3>1. NamesSeq(log, i) \in SUBSET (1 .. L)
      BY <1>1 DEF NamesSeq
    <3> QED
      BY <3>1, LastAndFirst
  <2>3. \A k \in NamesSeq(log, i) : log[k].speaker \in Labels
    BY DEF NamesSeq, Recorded
  <2> QED
    BY <1>2, <2>1, <2>2, <2>3
<1>4. ASSUME NEW t PROVE Log!ByTurn(log, t) # None <=> NamesTurn(log, t) # {}
  <2>1. Log!ByTurn(log, t) =
          IF NamesTurn(log, t) = {} THEN None ELSE log[Max(NamesTurn(log, t))].speaker
    BY InLog DEF Log!ByTurn, NamesTurn
  <2>2. NamesTurn(log, t) # {} => Max(NamesTurn(log, t)) \in NamesTurn(log, t)
    <3>1. NamesTurn(log, t) \in SUBSET (1 .. L)
      BY <1>1 DEF NamesTurn
    <3> QED
      BY <3>1, LastAndFirst
  <2>3. \A k \in NamesTurn(log, t) : log[k].speaker \in Labels
    BY SMTT(30) DEF NamesTurn, Recorded
  <2> QED
    BY <1>2, <2>1, <2>2, <2>3
<1> QED
  BY <1>3, <1>4

(* One more name. *)
Grows(log, e, more) ==
  \E n \in Nat : /\ DOMAIN log = 1 .. n /\ DOMAIN more = 1 .. (n + 1)
                 /\ \A i \in 1 .. n : more[i] = log[i]
                 /\ more[n + 1] = e

LEMMA AppendGrows ==
  ASSUME NEW log, Recorded(log), NEW e
  PROVE  Grows(log, e, Append(log, e)) /\ \E S : Append(log, e) \in Seq(S)
<1>1. PICK S : log \in Seq(S)
  BY DEF Recorded
<1> DEFINE T == S \cup {e}
           n == Len(log)
<1>2. log \in Seq(T) /\ e \in T
  <2>1. n \in Nat /\ log \in [1 .. n -> S]
    BY <1>1
  <2>2. log \in [1 .. n -> T]
    BY <2>1
  <2> HIDE DEF T
  <2>3. log \in Seq(T)
    BY <2>1, <2>2
  <2> QED
    BY <2>3 DEF T
<1> HIDE DEF T
<1>3. /\ Append(log, e) \in Seq(T) /\ n \in Nat /\ DOMAIN log = 1 .. n
      /\ DOMAIN Append(log, e) = 1 .. (n + 1)
      /\ \A i \in 1 .. n : Append(log, e)[i] = log[i]
      /\ Append(log, e)[n + 1] = e
  BY <1>2
<1> QED
  BY <1>3 DEF Grows

LEMMA NameFills ==
  ASSUME NEW log, Recorded(log), NEW more, Recorded(more), NEW e, e.kind = "speaker",
         Grows(log, e, more), NEW i \in DOMAIN log,
         e.seq = i => Log!BySeq(log, i) = None
  PROVE  /\ i \in DOMAIN more /\ more[i] = log[i]
         /\ Log!OwnLabel(log, i) # None => Log!Resolved(more, i) = Log!OwnLabel(log, i)
         /\ Log!Resolved(log, i) # None => Log!Resolved(more, i) # None
<1>1. PICK n \in Nat : /\ DOMAIN log = 1 .. n /\ DOMAIN more = 1 .. (n + 1)
                       /\ \A k \in 1 .. n : more[k] = log[k]
                       /\ more[n + 1] = e
  BY DEF Grows
<1>2. i \in DOMAIN more /\ more[i] = log[i]
  BY <1>1
<1>3. NamesSeq(log, i) \subseteq NamesSeq(more, i)
  BY <1>1 DEF NamesSeq
<1>4. NamesTurn(log, log[i].turn) \subseteq NamesTurn(more, log[i].turn)
  BY <1>1 DEF NamesTurn
<1>5. Log!BySeq(log, i) # None => Log!BySeq(more, i) # None
  BY <1>3, Named
<1>6. Log!ByTurn(log, log[i].turn) # None => Log!ByTurn(more, log[i].turn) # None
  BY <1>4, Named
<1>9. Log!BySeq(log, i) # None => Log!BySeq(more, i) = Log!BySeq(log, i)
  <2> SUFFICES ASSUME Log!BySeq(log, i) # None
               PROVE  Log!BySeq(more, i) = Log!BySeq(log, i)
    OBVIOUS
  <2>1. e.seq # i
    OBVIOUS
  <2>2. NamesSeq(more, i) = NamesSeq(log, i)
    BY <1>1, <2>1 DEF NamesSeq
  <2>3. NamesSeq(log, i) # {} /\ NamesSeq(log, i) \in SUBSET (1 .. n)
    BY <1>1, Named DEF NamesSeq
  <2>4. Max(NamesSeq(log, i)) \in 1 .. n
    BY <2>3, LastAndFirst
  <2>5. /\ Log!BySeq(log, i) = log[Max(NamesSeq(log, i))].speaker
        /\ Log!BySeq(more, i) = more[Max(NamesSeq(log, i))].speaker
    BY <2>2, <2>3, InLog DEF Log!BySeq, NamesSeq
  <2> QED
    BY <1>1, <2>4, <2>5
<1>7. Log!OwnLabel(log, i) # None => Log!Resolved(more, i) = Log!OwnLabel(log, i)
  BY <1>2, <1>9 DEF Log!Resolved, Log!OwnLabel, Log!Or
<1>8. Log!Resolved(log, i) # None => Log!Resolved(more, i) # None
  BY <1>2, <1>5, <1>6 DEF Log!Resolved, Log!Or
<1> QED
  BY <1>2, <1>7, <1>8

(* What is counted. *)
LEMMA CountedFinite ==
  ASSUME NEW log, Recorded(log)
  PROVE  /\ IsFiniteSet(Log!Scorable(log)) /\ IsFiniteSet(Log!Labelled(log))
         /\ Log!Labelled(log) \subseteq Log!Scorable(log)
<1>1. PICK L \in Nat : DOMAIN log = 1 .. L
  BY DEF Recorded
<1>2. IsFiniteSet(1 .. L)
  BY FS_Interval
<1>3. Log!Scorable(log) \in SUBSET (1 .. L)
  BY <1>1 DEF Log!Scorable
<1>4. Log!Labelled(log) \in SUBSET Log!Scorable(log)
  BY DEF Log!Labelled
<1>5. IsFiniteSet(Log!Scorable(log))
  BY <1>2, <1>3, FS_Subset
<1> QED
  BY <1>4, <1>5, FS_Subset

LEMMA MaxOfTwo ==
  ASSUME NEW x \in Int
  PROVE  Max({0, x}) = IF x >= 0 THEN x ELSE 0
<1> DEFINE m == IF x >= 0 THEN x ELSE 0
<1>1. m \in {0, x} /\ \A y \in {0, x} : m >= y
  BY Zenon, SMT
<1>2. \A z \in {0, x} : (\A y \in {0, x} : z >= y) => z = m
  OBVIOUS
<1> HIDE DEF m
<1>3. Max({0, x}) = m
  BY <1>1, <1>2 DEF Max
<1> QED
  BY <1>3 DEF m

(* The commits over a turn that have a label. *)
Known(log, t) ==
  {i \in DOMAIN log : /\ Log!IsCommit(log[i]) /\ Log!Covers(Truth[t], log[i].middle)
                      /\ Log!Resolved(log, i) # None}

Late(log, t) == log[Min(Known(log, t))].at - Truth[t].start

(* The first of them gives the turn its latency. *)
LEMMA LatencyKnown ==
  ASSUME NEW log, Recorded(log), NEW t \in DOMAIN Truth
  PROVE  /\ Log!TurnLatency(log, Truth[t]) # None <=> Known(log, t) # {}
         /\ Known(log, t) # {} =>
              /\ Min(Known(log, t)) \in Known(log, t)
              /\ \A i \in Known(log, t) : Min(Known(log, t)) <= i
              /\ Late(log, t) \in Int
              /\ Log!TurnLatency(log, Truth[t]) =
                   IF Late(log, t) >= 0 THEN Late(log, t) ELSE 0
<1> DEFINE known == Known(log, t)
           late == Late(log, t)
<1>1. Log!TurnLatency(log, Truth[t]) = IF known = {} THEN None ELSE Max({0, late})
  BY InLog DEF Log!TurnLatency, Known, Late
<1>2. PICK L \in Nat : DOMAIN log = 1 .. L
  BY DEF Recorded
<1>3. known # {} => Min(known) \in known /\ \A i \in known : Min(known) <= i
  <2>1. known \in SUBSET (1 .. L)
    BY <1>2 DEF Known
  <2> HIDE DEF known
  <2> QED
    BY <2>1, LastAndFirst
<1>4. known # {} => late \in Int
  <2> SUFFICES ASSUME known # {} PROVE late \in Int
    OBVIOUS
  <2>1. Min(known) \in DOMAIN log /\ Log!IsCommit(log[Min(known)])
    BY <1>3 DEF Known
  <2>2. log[Min(known)].at \in Int
    BY <2>1 DEF Recorded
  <2>3. Truth[t].start \in Int
    BY TextAssumption DEF Log!MeasurementAssumption
  <2> QED
    BY <2>2, <2>3 DEF Late
<1>5. known # {} => Max({0, late}) = (IF late >= 0 THEN late ELSE 0)
  BY <1>4, MaxOfTwo
<1>6. known # {} => (IF late >= 0 THEN late ELSE 0) # None
  <2> HIDE DEF late, known
  <2>1. known # {} => (IF late >= 0 THEN late ELSE 0) \in Int
    BY <1>4
  <2> QED
    BY <2>1, TextAssumption DEF Log!MeasurementAssumption
<1> HIDE DEF known, late
<1>7. /\ Log!TurnLatency(log, Truth[t]) # None <=> known # {}
      /\ known # {} => Log!TurnLatency(log, Truth[t]) = IF late >= 0 THEN late ELSE 0
  BY <1>1, <1>5, <1>6
<1> QED
  BY <1>3, <1>4, <1>7 DEF known, late

(* NamesOnlyFill, of a log and of the same log with one more name. *)
OnlyFills(log, more) ==
  /\ \A i \in DOMAIN log :
       Log!IsCommit(log[i]) /\ Log!OwnLabel(log, i) # None
         => Log!Resolved(more, i) = Log!OwnLabel(log, i)
  /\ Log!Report(more).words = Log!Report(log).words
  /\ Log!Report(more).unlabelled <= Log!Report(log).unlabelled
  /\ \A t \in DOMAIN Truth :
       Log!TurnLatency(log, Truth[t]) # None =>
         /\ Log!TurnLatency(more, Truth[t]) # None
         /\ Log!TurnLatency(more, Truth[t]) <= Log!TurnLatency(log, Truth[t])

LEMMA NameOnlyFills ==
  ASSUME NEW log, Recorded(log), NEW more, Recorded(more), NEW e, e.kind = "speaker",
         Grows(log, e, more), \A i \in DOMAIN log : e.seq = i => Log!BySeq(log, i) = None
  PROVE  OnlyFills(log, more)
<1>1. PICK n \in Nat : /\ DOMAIN log = 1 .. n /\ DOMAIN more = 1 .. (n + 1)
                       /\ \A k \in 1 .. n : more[k] = log[k]
                       /\ more[n + 1] = e
  BY DEF Grows
<1>2. ~Log!IsCommit(more[n + 1])
  BY <1>1 DEF Log!IsCommit
<1>3. \A i \in DOMAIN more : Log!IsCommit(more[i]) => i \in DOMAIN log
  BY <1>1, <1>2
<1>4. ASSUME NEW i \in DOMAIN log
      PROVE  /\ i \in DOMAIN more /\ more[i] = log[i]
             /\ Log!OwnLabel(log, i) # None => Log!Resolved(more, i) = Log!OwnLabel(log, i)
             /\ Log!Resolved(log, i) # None => Log!Resolved(more, i) # None
  BY NameFills
<1>5. Log!Scorable(more) = Log!Scorable(log)
  BY <1>3, <1>4 DEF Log!Scorable
<1>6. Log!Labelled(log) \subseteq Log!Labelled(more)
  <2> SUFFICES ASSUME NEW i \in Log!Labelled(log) PROVE i \in Log!Labelled(more)
    OBVIOUS
  <2>1. i \in Log!Scorable(log) /\ i \in DOMAIN log /\ Log!Resolved(log, i) # None
    BY DEF Log!Labelled, Log!Scorable
  <2> QED
    BY <1>4, <1>5, <2>1 DEF Log!Labelled
<1>7. Cardinality(Log!Labelled(log)) <= Cardinality(Log!Labelled(more))
      /\ Cardinality(Log!Labelled(log)) \in Nat /\ Cardinality(Log!Labelled(more)) \in Nat
      /\ Cardinality(Log!Scorable(log)) \in Nat
  <2>1. IsFiniteSet(Log!Labelled(more)) /\ IsFiniteSet(Log!Labelled(log))
        /\ IsFiniteSet(Log!Scorable(log))
    BY CountedFinite
  <2> QED
    BY <1>6, <2>1, FS_Subset, FS_CardinalityType
<1>8. ASSUME NEW x
      PROVE  /\ Log!Report(x).words = Cardinality(Log!Scorable(x))
             /\ Log!Report(x).unlabelled =
                  Cardinality(Log!Scorable(x)) - Cardinality(Log!Labelled(x))
  BY InLog DEF Log!Report
<1>9. /\ Log!Report(more).words = Log!Report(log).words
      /\ Log!Report(more).unlabelled <= Log!Report(log).unlabelled
  BY <1>5, <1>7, <1>8
<1>10. ASSUME NEW t \in DOMAIN Truth, Log!TurnLatency(log, Truth[t]) # None
       PROVE  /\ Log!TurnLatency(more, Truth[t]) # None
              /\ Log!TurnLatency(more, Truth[t]) <= Log!TurnLatency(log, Truth[t])
  <2> DEFINE first == Min(Known(log, t))
             now == Min(Known(more, t))
  <2>1. Known(log, t) # {} /\ first \in Known(log, t)
    BY <1>10, LatencyKnown
  <2>2. Known(log, t) \subseteq Known(more, t)
    BY <1>4 DEF Known
  <2>3. now \in Known(more, t) /\ now <= first
    BY <2>1, <2>2, LatencyKnown
  <2>4. /\ now \in 1 .. n /\ first \in 1 .. n
        /\ Log!IsCommit(log[now]) /\ Log!IsCommit(log[first])
        /\ more[now] = log[now]
    BY <1>1, <1>3, <1>4, <2>1, <2>3 DEF Known
  <2> HIDE DEF first, now
  <2>5. log[now].at \in Int /\ log[first].at \in Int
    BY <1>1, <2>4 DEF Recorded
  <2>6. log[now].at <= log[first].at
    <3>1. CASE now = first
      BY <2>5, <3>1
    <3>2. CASE now < first
      BY <1>1, <2>4, <3>2 DEF Recorded
    <3> QED
      BY <2>3, <2>4, <3>1, <3>2
  <2>7. Truth[t].start \in Int
    BY TextAssumption DEF Log!MeasurementAssumption
  <2>8. /\ Late(more, t) \in Int /\ Late(log, t) \in Int
        /\ Late(more, t) <= Late(log, t)
    BY <2>4, <2>5, <2>6, <2>7 DEF Late, first, now
  <2>9. /\ Log!TurnLatency(more, Truth[t]) = (IF Late(more, t) >= 0 THEN Late(more, t) ELSE 0)
        /\ Log!TurnLatency(log, Truth[t]) = (IF Late(log, t) >= 0 THEN Late(log, t) ELSE 0)
        /\ Log!TurnLatency(more, Truth[t]) # None
    BY <2>1, <2>2, LatencyKnown
  <2> QED
    BY <2>8, <2>9
<1> QED
  BY <1>4, <1>9, <1>10 DEF OnlyFills

(* Every log there is. *)
LEMMA RecordedNext ==
  ASSUME Recorded(events), Log!Next
  PROVE  /\ Recorded(events')
         /\ \E e : /\ events' = Append(events, e)
                  /\ \/ Log!IsCommit(e)
                     \/ /\ e.kind = "speaker"
                        /\ \A i \in DOMAIN events : e.seq = i => Log!BySeq(events, i) = None
<1>1. ASSUME NEW e, events' = Append(events, e),
             e.kind = "speaker" => e.speaker \in Labels,
             Log!IsCommit(e) =>
               /\ e.middle \in Int /\ e.at = e.middle + 1
               /\ \A i \in DOMAIN events : Log!IsCommit(events[i]) => events[i].at <= e.at
      PROVE  Recorded(events')
  <2>4. Grows(events, e, events')
    BY <1>1, AppendGrows
  <2>1. PICK n \in Nat : /\ DOMAIN events = 1 .. n /\ DOMAIN events' = 1 .. (n + 1)
                         /\ \A i \in 1 .. n : events'[i] = events[i]
                         /\ events'[n + 1] = e
    BY <2>4 DEF Grows
  <2>2. \E S : events' \in Seq(S)
    BY <1>1, AppendGrows
  <2>3. \A i \in 1 .. (n + 1) : i \in 1 .. n \/ i = n + 1
    OBVIOUS
  <2>5. \A i \in DOMAIN events' :
          /\ events'[i].kind = "speaker" => events'[i].speaker \in Labels
          /\ Log!IsCommit(events'[i]) =>
               events'[i].middle \in Int /\ events'[i].at = events'[i].middle + 1
    BY <1>1, <2>1, <2>3 DEF Recorded
  <2>6. ASSUME NEW i \in DOMAIN events', NEW j \in DOMAIN events',
               Log!IsCommit(events'[i]), Log!IsCommit(events'[j]), i < j
        PROVE  events'[i].at <= events'[j].at
    <3>1. i \in 1 .. n
      BY <2>1, <2>6
    <3>2. CASE j \in 1 .. n
      BY <2>1, <2>6, <3>1, <3>2 DEF Recorded
    <3>3. CASE j = n + 1
      BY <1>1, <2>1, <2>6, <3>1, <3>3
    <3> QED
      BY <2>1, <2>3, <3>2, <3>3
  <2> QED
    BY <2>2, <2>5, <2>6 DEF Recorded
<1>2. ASSUME NEW speaker \in Labels \cup {None}, NEW middle \in Middles, Log!Commit(speaker, middle)
      PROVE  /\ Recorded(events')
             /\ \E e : events' = Append(events, e) /\ Log!IsCommit(e)
  <2>1. PICK turn : events' = Append(events, [kind |-> "commit", seq |-> None, speaker |-> speaker,
                                   middle |-> middle, at |-> middle + 1, turn |-> turn])
    BY <1>2 DEF Log!Commit
  <2>2. middle \in Int
    BY TextAssumption DEF Log!MeasurementAssumption
  <2>5. \A i \in DOMAIN events : Log!IsCommit(events[i]) => events[i].middle <= middle
    BY <1>2 DEF Log!Commit
  <2> DEFINE e == [kind |-> "commit", seq |-> None, speaker |-> speaker,
                   middle |-> middle, at |-> middle + 1, turn |-> turn]
  <2>3. e.kind = "commit" /\ e.middle = middle /\ e.at = middle + 1
    OBVIOUS
  <2> HIDE DEF e
  <2>4. events' = Append(events, e)
    BY <2>1 DEF e
  <2>6. \A i \in DOMAIN events : Log!IsCommit(events[i]) => events[i].at <= e.at
    BY <2>2, <2>3, <2>5 DEF Recorded
  <2> QED
    BY <1>1, <2>2, <2>3, <2>4, <2>6 DEF Log!IsCommit
<1>3. ASSUME NEW seq, NEW turn, NEW speaker \in Labels,
             events' = Append(events, [kind |-> "speaker", seq |-> seq, speaker |-> speaker,
                                       turn |-> turn]),
             \A i \in DOMAIN events : seq = i => Log!BySeq(events, i) = None
      PROVE  /\ Recorded(events')
             /\ \E e : /\ events' = Append(events, e) /\ e.kind = "speaker"
                      /\ \A i \in DOMAIN events : e.seq = i => Log!BySeq(events, i) = None
  <2> DEFINE e == [kind |-> "speaker", seq |-> seq, speaker |-> speaker, turn |-> turn]
  <2>1. e.kind = "speaker" /\ e.speaker \in Labels /\ e.seq = seq
    OBVIOUS
  <2> HIDE DEF e
  <2>2. events' = Append(events, e)
    BY <1>3 DEF e
  <2> QED
    BY <1>1, <1>3, <2>1, <2>2 DEF Log!IsCommit
<1>4. ASSUME NEW seq \in DOMAIN events, NEW speaker \in Labels, Log!Name(seq, speaker)
      PROVE  /\ Recorded(events')
             /\ \E e : /\ events' = Append(events, e) /\ e.kind = "speaker"
                      /\ \A i \in DOMAIN events : e.seq = i => Log!BySeq(events, i) = None
  BY <1>3, <1>4 DEF Log!Name
<1>5. ASSUME NEW turn, NEW speaker \in Labels, Log!NameTurn(turn, speaker)
      PROVE  /\ Recorded(events')
             /\ \E e : /\ events' = Append(events, e) /\ e.kind = "speaker"
                      /\ \A i \in DOMAIN events : e.seq = i => Log!BySeq(events, i) = None
  <2>1. \A i \in DOMAIN events : None # i
    <3>1. PICK L \in Nat : DOMAIN events = 1 .. L
      BY DEF Recorded
    <3> QED
      BY <3>1, TextAssumption DEF Log!MeasurementAssumption
  <2> QED
    BY <1>3, <1>5, <2>1 DEF Log!NameTurn
<1> QED
  BY <1>2, <1>4, <1>5 DEF Log!Next

LEMMA RecordedFirst ==
  ASSUME Log!Init
  PROVE  Recorded(events)
<1>1. events = <<>>
  BY DEF Log!Init
<1>2. <<>> \in Seq({}) /\ DOMAIN <<>> = {}
  OBVIOUS
<1>3. events \in Seq({}) /\ DOMAIN events = {}
  BY <1>1, <1>2
<1>4. \E S : events \in Seq(S)
  BY <1>3
<1> QED
  BY <1>3, <1>4 DEF Recorded

(* A step of Measurement that names somebody. *)
LEMMA LogStep ==
  ASSUME Recorded(events), Log!Next, Len(events') > Len(events), ~Log!IsCommit(Log!Last(events'))
  PROVE  OnlyFills(events, events')
<1>1. Recorded(events')
  BY RecordedNext
<1>2. PICK e : /\ events' = Append(events, e)
               /\ \/ Log!IsCommit(e)
                  \/ /\ e.kind = "speaker"
                     /\ \A i \in DOMAIN events : e.seq = i => Log!BySeq(events, i) = None
  BY RecordedNext
<1>3. Grows(events, e, events')
  BY <1>2, AppendGrows
<1>4. Log!Last(events') = e
  <2>1. PICK n \in Nat : DOMAIN events' = 1 .. (n + 1) /\ events'[n + 1] = e
    BY <1>3 DEF Grows
  <2>2. Len(events') = n + 1
    <3>1. PICK S : events' \in Seq(S)
      BY <1>1 DEF Recorded
    <3>2. Len(events') \in Nat /\ DOMAIN events' = 1 .. Len(events')
      BY <3>1
    <3> QED
      BY <2>1, <3>2
  <2> QED
    BY <2>1, <2>2 DEF Log!Last
<1> QED
  BY <1>1, <1>2, <1>3, <1>4, NameOnlyFills

LEMMA TextRecords ==
  ASSUME Recorded(events), [TextNext]_textVars
  PROVE  Recorded(events')
<1>1. events' = events \/ Log!Next
  BY DEF TextNext, textVars
<1> QED
  BY <1>1, RecordedNext

Naming ==
  Len(events') > Len(events) /\ ~Log!IsCommit(Log!Last(events')) =>
       /\ \A i \in DOMAIN events :
            Log!IsCommit(events[i]) /\ Log!OwnLabel(events, i) # None
              => Log!Resolved(events', i) = Log!OwnLabel(events, i)
       /\ LET before == Log!Report(events)
              after  == Log!Report(events')
          IN  after.words = before.words /\ after.unlabelled <= before.unlabelled
       /\ \A t \in DOMAIN Truth :
            LET before == Log!TurnLatency(events, Truth[t])
                after  == Log!TurnLatency(events', Truth[t])
            IN  before # None => after # None /\ after <= before

LEMMA TextNames ==
  ASSUME Recorded(events), [TextNext]_textVars
  PROVE  [Naming]_events
<1>1. CASE events' = events
  BY <1>1
<1>2. CASE Log!Next /\ Len(events') > Len(events) /\ ~Log!IsCommit(Log!Last(events'))
  <2>1. OnlyFills(events, events')
    BY <1>2, LogStep
  <2> QED
    BY <2>1 DEF OnlyFills, Naming
<1>3. CASE ~ (Len(events') > Len(events) /\ ~Log!IsCommit(Log!Last(events')))
  BY <1>3 DEF Naming
<1>4. events' = events \/ Log!Next
  BY DEF TextNext, textVars
<1> QED
  BY <1>1, <1>2, <1>3, <1>4

(* metrics.py:149-159, NamesOnlyFill for every log, every set of labels    *)
(* and every ground truth: a name given late outranks no label a word was  *)
(* given itself, changes nothing of what is scored but to leave fewer      *)
(* words unlabelled, and makes no latency longer.                          *)
THEOREM LateNamesOnlyFill == TextSpec => NamesOnlyFill
<1>1. TextInit => Recorded(events)
  BY RecordedFirst DEF TextInit
<1>2. Recorded(events) /\ [TextNext]_textVars => Recorded(events)'
  BY TextRecords
<1>3. Recorded(events) /\ [TextNext]_textVars => [Naming]_events
  BY TextNames
<1>4. TextSpec => [][Naming]_events
  BY <1>1, <1>2, <1>3, PTL DEF TextSpec
<1> QED
  BY <1>4, PTL DEF NamesOnlyFill, Log!NamesOnlyFill, Naming

-----------------------------------------------------------------------------
(* Reading the labels.  A reading agrees with the words of one set. *)
Matching(pairs, g) == {p \in pairs : p.label \in DOMAIN g /\ g[p.label] = p.speaker}

LEMMA Agreed ==
  ASSUME NEW pairs, IsFiniteSet(pairs), NEW g
  PROVE  /\ Log!Agreement(pairs, g) = Cardinality(Matching(pairs, g))
         /\ IsFiniteSet(Matching(pairs, g)) /\ Log!Agreement(pairs, g) \in Nat
<1>1. Log!Agreement(pairs, g) = Cardinality(Matching(pairs, g))
  BY InLog DEF Log!Agreement, Matching
<1>2. Matching(pairs, g) \in SUBSET pairs
  BY DEF Matching
<1>3. IsFiniteSet(Matching(pairs, g))
  BY <1>2, FS_Subset
<1> QED
  BY <1>1, <1>3, FS_CardinalityType

LEMMA AgreesMore ==
  ASSUME NEW pairs, IsFiniteSet(pairs), NEW g, NEW h,
         Matching(pairs, g) \subseteq Matching(pairs, h)
  PROVE  Log!Agreement(pairs, g) <= Log!Agreement(pairs, h)
<1>1. IsFiniteSet(Matching(pairs, h)) /\ Matching(pairs, g) \in SUBSET Matching(pairs, h)
  BY Agreed
<1>2. Cardinality(Matching(pairs, g)) <= Cardinality(Matching(pairs, h))
  BY <1>1, FS_Subset
<1> QED
  BY <1>2, Agreed

(* The image of a finite set. *)
LEMMA FiniteImage ==
  ASSUME NEW S, IsFiniteSet(S), NEW T, NEW f, f \in [S -> T], \A t \in T : \E x \in S : f[x] = t
  PROVE  IsFiniteSet(T) /\ Cardinality(T) <= Cardinality(S)
<1>1. f \in Surjection(S, T)
  BY DEF Surjection
<1> QED
  BY <1>1, FS_Surjection

LEMMA FiniteSource ==
  ASSUME NEW S, NEW T, IsFiniteSet(T), NEW f, f \in [S -> T],
         \A x, y \in S : f[x] = f[y] => x = y
  PROVE  IsFiniteSet(S) /\ Cardinality(S) <= Cardinality(T)
<1>1. f \in Injection(S, T)
  BY DEF Injection, IsInjective
<1> QED
  BY <1>1, FS_Injection

(* A set no larger than another fits into it. *)
LEMMA Fits ==
  ASSUME NEW S, NEW T, IsFiniteSet(S), IsFiniteSet(T), Cardinality(S) <= Cardinality(T)
  PROVE  \E k \in [S -> T] : \A x, y \in S : k[x] = k[y] => x = y
<1> DEFINE n == Cardinality(S)
           m == Cardinality(T)
<1>1. n \in Nat /\ m \in Nat /\ ExistsBijection(1 .. n, S) /\ ExistsBijection(1 .. m, T)
  BY FS_CardinalityType
<1>2. PICK a \in Bijection(1 .. n, S) : TRUE
  BY <1>1 DEF ExistsBijection
<1>3. PICK b \in Bijection(1 .. m, T) : TRUE
  BY <1>1 DEF ExistsBijection
<1> HIDE DEF n, m
<1>4. /\ a \in [1 .. n -> S] /\ \A t \in S : \E i \in 1 .. n : a[i] = t
      /\ b \in [1 .. m -> T] /\ \A i, j \in 1 .. m : b[i] = b[j] => i = j
  BY <1>2, <1>3 DEF Bijection, Injection, Surjection, IsInjective
<1> DEFINE place(x) == CHOOSE i \in 1 .. n : a[i] = x
           k == [x \in S |-> b[place(x)]]
<1>5. \A x \in S : place(x) \in 1 .. n /\ a[place(x)] = x
  BY <1>4
<1>6. \A x \in S : place(x) \in 1 .. m
  BY <1>1, <1>5 DEF n, m
<1>7. k \in [S -> T]
  BY <1>4, <1>6
<1>8. ASSUME NEW x \in S, NEW y \in S, k[x] = k[y] PROVE x = y
  <2>1. b[place(x)] = b[place(y)]
    BY <1>8
  <2> HIDE DEF place
  <2>2. place(x) = place(y)
    BY <1>4, <1>6, <2>1
  <2> QED
    BY <1>5, <2>2
<1> QED
  BY <1>7, <1>8

(* A reading of some of the labels extends to one of all of them, when     *)
(* there are speakers enough.                                              *)
PartOf(A, B, P, g) ==
  P \in SUBSET A /\ g \in [P -> B] /\ \A x, y \in P : g[x] = g[y] => x = y

Extended(A, B, P, g) ==
  \E h \in [A -> B] : /\ \A x, y \in A : h[x] = h[y] => x = y
                      /\ \A x \in P : h[x] = g[x]

LEMMA Extends ==
  ASSUME NEW A, NEW B, NEW P, NEW g, IsFiniteSet(A), IsFiniteSet(B),
         Cardinality(A) <= Cardinality(B), PartOf(A, B, P, g)
  PROVE  Extended(A, B, P, g)
<1> USE DEF PartOf
<1> DEFINE R == {g[x] : x \in P}
<1>1. IsFiniteSet(P) /\ R \in SUBSET B /\ IsFiniteSet(R)
  BY FS_Subset
<1>2. Cardinality(P) = Cardinality(R)
  <2>1. g \in Bijection(P, R)
    BY DEF Bijection, Injection, Surjection, IsInjective
  <2> QED
    BY <1>1, <2>1, FS_Bijection DEF ExistsBijection
<1>3. A \cap P = P /\ B \cap R = R
  BY <1>1
<1>4. /\ IsFiniteSet(A \ P) /\ Cardinality(A \ P) = Cardinality(A) - Cardinality(P)
      /\ IsFiniteSet(B \ R) /\ Cardinality(B \ R) = Cardinality(B) - Cardinality(R)
  <2> HIDE DEF R
  <2>1. IsFiniteSet(A \ P) /\ Cardinality(A \ P) = Cardinality(A) - Cardinality(A \cap P)
    BY FS_Difference
  <2>2. IsFiniteSet(B \ R) /\ Cardinality(B \ R) = Cardinality(B) - Cardinality(B \cap R)
    BY FS_Difference
  <2> QED
    BY <1>3, <2>1, <2>2
<1>5. /\ Cardinality(A) \in Nat /\ Cardinality(B) \in Nat
      /\ Cardinality(P) \in Nat /\ Cardinality(R) \in Nat
  BY <1>1, FS_CardinalityType
<1>6. Cardinality(A \ P) <= Cardinality(B \ R)
  BY <1>2, <1>4, <1>5
<1>7. PICK k \in [A \ P -> B \ R] : \A x, y \in A \ P : k[x] = k[y] => x = y
  BY <1>4, <1>6, Fits
<1> DEFINE h == [x \in A |-> IF x \in P THEN g[x] ELSE k[x]]
<1>8. \A x \in A : IF x \in P THEN h[x] = g[x] /\ h[x] \in R ELSE h[x] = k[x] /\ h[x] \in B \ R
  BY <1>7
<1>9. h \in [A -> B]
  BY <1>1, <1>7
<1> HIDE DEF h, R
<1>10. ASSUME NEW x \in A, NEW y \in A, h[x] = h[y] PROVE x = y
  <2>1. CASE x \in P /\ y \in P
    BY <1>8, <1>10, <2>1
  <2>2. CASE x \notin P /\ y \notin P
    BY <1>7, <1>8, <1>10, <2>2
  <2>3. CASE ~ (x \in P <=> y \in P)
    BY <1>8, <1>10, <2>3
  <2> QED
    BY <2>1, <2>2, <2>3
<1>11. \A x \in P : h[x] = g[x]
  BY <1>8
<1> QED
  BY <1>9, <1>10, <1>11 DEF Extended

(* There are finitely many readings to try. *)
LEMMA FiniteReadings ==
  ASSUME NEW S, NEW T, IsFiniteSet(S), IsFiniteSet(T), NEW F \in SUBSET [S -> T]
  PROVE  IsFiniteSet(F)
<1> DEFINE graph == [f \in F |-> {z \in S \X T : f[z[1]] = z[2]}]
<1>1. IsFiniteSet(S \X T)
  BY FS_Product
<1>2. IsFiniteSet(SUBSET (S \X T))
  BY <1>1, FS_SUBSET
<1>3. graph \in [F -> SUBSET (S \X T)]
  OBVIOUS
<1>4. ASSUME NEW f \in F, NEW h \in F, graph[f] = graph[h] PROVE f = h
  <2>1. ASSUME NEW x \in S PROVE f[x] = h[x]
    <3>1. <<x, f[x]>> \in graph[f]
      OBVIOUS
    <3>2. <<x, f[x]>> \in graph[h]
      BY <1>4, <3>1
    <3> QED
      BY <3>2
  <2> QED
    BY <2>1
<1> HIDE DEF graph
<1> QED
  BY <1>2, <1>3, <1>4, FiniteSource

-----------------------------------------------------------------------------
(* The best of all arrangements.                                           *)
Pairings(pairs) == Log!Arrangements(Log!Predicted(pairs), Log!Spoken(pairs))

Reversed(f) == Log!AntiFunction(f)

LEMMA InjectionsInLog ==
  \A S, T : Log!Injection(S, T) = {f \in [S -> T] : \A x, y \in S : f[x] = f[y] => x = y}
BY DEF Log!Injection, Log!IsInjective

LEMMA ReversedReads ==
  ASSUME NEW S, NEW T, NEW f \in [S -> T], \A x, y \in S : f[x] = f[y] => x = y, NEW x \in S
  PROVE  f[x] \in DOMAIN Reversed(f) /\ Reversed(f)[f[x]] = x
<1> DEFINE source(t) == CHOOSE s \in DOMAIN f : t \in Log!Range(f) => f[s] = t
<1>1. Reversed(f) = [t \in Log!Range(f) |-> source(t)]
  BY DEF Reversed, Log!AntiFunction, Log!Inverse
<1>2. DOMAIN f = S /\ f[x] \in Log!Range(f)
  BY DEF Log!Range
<1>3. source(f[x]) \in S /\ f[source(f[x])] = f[x]
  BY <1>2
<1>4. source(f[x]) = x
  <2> HIDE DEF source
  <2> QED
    BY <1>3
<1> QED
  BY <1>1, <1>2, <1>4

LEMMA FinitePairs ==
  ASSUME NEW pairs, IsFiniteSet(pairs)
  PROVE  /\ IsFiniteSet(Log!Predicted(pairs)) /\ IsFiniteSet(Log!Spoken(pairs))
         /\ IsFiniteSet(Pairings(pairs))
<1> DEFINE P == Log!Predicted(pairs)
           S == Log!Spoken(pairs)
<1>1. IsFiniteSet(P)
  <2> DEFINE f == [p \in pairs |-> p.label]
  <2>1. f \in [pairs -> P] /\ \A t \in P : \E p \in pairs : f[p] = t
    BY DEF Log!Predicted
  <2> HIDE DEF f, P
  <2> QED
    BY <2>1, FiniteImage
<1>2. IsFiniteSet(S)
  <2> DEFINE f == [p \in pairs |-> p.speaker]
  <2>1. f \in [pairs -> S] /\ \A t \in S : \E p \in pairs : f[p] = t
    BY DEF Log!Spoken
  <2> HIDE DEF f, S
  <2> QED
    BY <2>1, FiniteImage
<1>3. IsFiniteSet(Log!Injection(P, S)) /\ IsFiniteSet(Log!Injection(S, P))
  <2> HIDE DEF P, S
  <2>1. Log!Injection(P, S) \in SUBSET [P -> S] /\ Log!Injection(S, P) \in SUBSET [S -> P]
    BY InjectionsInLog
  <2> QED
    BY <1>1, <1>2, <2>1, FiniteReadings
<1> DEFINE F == Log!Injection(S, P)
           A == {Log!AntiFunction(f) : f \in F}
           r == [f \in F |-> Log!AntiFunction(f)]
<1>4. IsFiniteSet(A)
  <2>1. r \in [F -> A] /\ \A t \in A : \E f \in F : r[f] = t
    OBVIOUS
  <2> HIDE DEF r, A, F
  <2>2. IsFiniteSet(F)
    BY <1>3 DEF F
  <2> QED
    BY <2>1, <2>2, FiniteImage
<1>5. Pairings(pairs) = Log!Injection(P, S) \/ Pairings(pairs) = A
  BY DEF Pairings, Log!Arrangements
<1> QED
  BY <1>1, <1>2, <1>3, <1>4, <1>5

(* Trying them all one by one leaves none that is better. *)
LEMMA TriesAll ==
  ASSUME NEW pairs, IsFiniteSet(pairs)
  PROVE  \A g \in Pairings(pairs) :
           Log!Agreement(pairs, g) <=
             Log!Agreement(pairs, Log!ExhaustiveMapping(pairs, Log!Predicted(pairs), Log!Spoken(pairs)))
<1> DEFINE S == Pairings(pairs)
<1>1. Trying!Picks(S)
  <2>1. Trying!IsFiniteSet(S)
    BY FinitePairs DEF IsFiniteSet, Trying!IsFiniteSet
  <2>2. \A s \in SUBSET S : s # {} => SomeOf(s) \in s
    BY DEF SomeOf
  <2> QED
    BY <2>1, <2>2 DEF Trying!Picks
<1>2. \A g : Log!Agreement(pairs, g) \in Nat
  BY Agreed
<1>3. Log!Agreement(pairs, Log!Empty) = 0
  <2>1. DOMAIN Log!Empty = {}
    BY DEF Log!Empty
  <2>2. Matching(pairs, Log!Empty) = {}
    BY <2>1 DEF Matching
  <2> QED
    BY <2>2, Agreed, FS_EmptySet
<1>4. NoneIsBetter(pairs, {}, Log!Empty)
  BY DEF NoneIsBetter
<1>5. ASSUME NEW acc, NEW s \in SUBSET S, s # {}, NoneIsBetter(pairs, s \ {SomeOf(s)}, acc)
      PROVE  NoneIsBetter(pairs, s, Better(pairs, SomeOf(s), acc))
  <2> DEFINE x == SomeOf(s)
             after == Better(pairs, x, acc)
  <2>1. /\ Log!Agreement(pairs, x) <= Log!Agreement(pairs, after)
        /\ Log!Agreement(pairs, acc) <= Log!Agreement(pairs, after)
    <3>1. CASE acc = Log!Empty
      <4>1. after = x
        BY <3>1 DEF Better
      <4> QED
        BY <1>2, <1>3, <3>1, <4>1
    <3>2. CASE acc # Log!Empty /\ Log!Agreement(pairs, x) > Log!Agreement(pairs, acc)
      <4>1. after = x
        BY <3>2 DEF Better
      <4> QED
        BY <1>2, <3>2, <4>1
    <3>3. CASE acc # Log!Empty /\ ~ (Log!Agreement(pairs, x) > Log!Agreement(pairs, acc))
      <4>1. after = acc
        BY <3>3 DEF Better
      <4> QED
        BY <1>2, <3>3, <4>1
    <3> QED
      BY <3>1, <3>2, <3>3
  <2> HIDE DEF x, after
  <2>2. ASSUME NEW g \in s PROVE Log!Agreement(pairs, g) <= Log!Agreement(pairs, after)
    <3>1. CASE g = x
      BY <2>1, <3>1
    <3>2. CASE g # x
      <4>1. Log!Agreement(pairs, g) <= Log!Agreement(pairs, acc)
        BY <1>5, <3>2 DEF NoneIsBetter, x
      <4> QED
        BY <1>2, <2>1, <4>1
    <3> QED
      BY <3>1, <3>2
  <2> QED
    BY <2>2 DEF NoneIsBetter, after, x
<1>6. NoneIsBetter(pairs, S, Trying!Fold(pairs, Log!Empty, S))
  <2> HIDE DEF S
  <2> QED
    BY <1>1, <1>4, <1>5, Trying!FoldKeeps
<1>7. Log!ExhaustiveMapping(pairs, Log!Predicted(pairs), Log!Spoken(pairs))
        = Trying!Fold(pairs, Log!Empty, S)
  BY DEF Log!ExhaustiveMapping, Log!FoldSet, Log!MapThenFoldSet, Trying!Fold, Trying!Folds,
         Better, SomeOf, Pairings
<1> QED
  BY <1>6, <1>7 DEF NoneIsBetter

(* No reading of some of the labels, each as somebody else, agrees with    *)
(* more words than every arrangement.                                      *)
LEMMA ArrangementsSuffice ==
  ASSUME NEW pairs, IsFiniteSet(pairs), NEW P \in SUBSET Log!Predicted(pairs),
         NEW g \in Log!Injection(P, Log!Spoken(pairs))
  PROVE  \E h \in Pairings(pairs) : Matching(pairs, g) \subseteq Matching(pairs, h)
<1> DEFINE L == Log!Predicted(pairs)
           S == Log!Spoken(pairs)
<1>1. IsFiniteSet(L) /\ IsFiniteSet(S) /\ Cardinality(L) \in Nat /\ Cardinality(S) \in Nat
  BY FinitePairs, FS_CardinalityType
<1>2. g \in [P -> S] /\ \A x, y \in P : g[x] = g[y] => x = y
  BY InjectionsInLog
<1>3. ASSUME NEW h, \A x \in P : x \in DOMAIN h /\ h[x] = g[x]
      PROVE  Matching(pairs, g) \subseteq Matching(pairs, h)
  BY <1>2, <1>3 DEF Matching
<1>4. CASE Cardinality(S) >= Cardinality(L)
  <2>1. PICK h \in [L -> S] : /\ \A x, y \in L : h[x] = h[y] => x = y
                              /\ \A x \in P : h[x] = g[x]
    <3> HIDE DEF L, S
    <3>1. P \in SUBSET L
      BY DEF L
    <3>2. Cardinality(L) <= Cardinality(S)
      BY <1>1, <1>4
    <3>3. PartOf(L, S, P, g)
      BY <1>2, <3>1 DEF PartOf
    <3>4. Extended(L, S, P, g)
      BY <1>1, <3>2, <3>3, Extends
    <3> QED
      BY <3>4 DEF Extended
  <2>2. h \in Log!Injection(L, S)
    BY <2>1, InjectionsInLog
  <2>3. h \in Pairings(pairs)
    BY <1>4, <2>2, InLog DEF Pairings, Log!Arrangements
  <2> QED
    BY <1>3, <2>1, <2>3
<1>5. CASE ~ (Cardinality(S) >= Cardinality(L))
  <2> DEFINE R == {g[x] : x \in P}
             source(t) == CHOOSE x \in P : g[x] = t
             back == [t \in R |-> source(t)]
  <2>1. \A t \in R : source(t) \in P /\ g[source(t)] = t
    OBVIOUS
  <2>2. \A x \in P : g[x] \in R /\ source(g[x]) = x
    BY <1>2, <2>1
  <2>3. R \in SUBSET S /\ back \in [R -> L]
    BY <1>2, <2>1
  <2>4. \A s, t \in R : back[s] = back[t] => s = t
    BY <2>1
  <2>5. \A x \in P : back[g[x]] = x
    BY <2>2
  <2>6. PICK f \in [S -> L] : /\ \A s, t \in S : f[s] = f[t] => s = t
                              /\ \A t \in R : f[t] = back[t]
    <3> HIDE DEF L, S, R, back
    <3>1. Cardinality(S) <= Cardinality(L)
      BY <1>1, <1>5
    <3>2. PartOf(S, L, R, back)
      BY <2>3, <2>4 DEF PartOf
    <3>3. Extended(S, L, R, back)
      BY <1>1, <3>1, <3>2, Extends
    <3> QED
      BY <3>3 DEF Extended
  <2>7. Reversed(f) \in Pairings(pairs)
    <3>1. f \in Log!Injection(S, L)
      BY <2>6, InjectionsInLog
    <3> QED
      BY <1>5, <3>1, InLog DEF Pairings, Log!Arrangements, Reversed
  <2>8. ASSUME NEW x \in P PROVE x \in DOMAIN Reversed(f) /\ Reversed(f)[x] = g[x]
    <3>1. g[x] \in S /\ f[g[x]] = x
      BY <2>2, <2>3, <2>5, <2>6
    <3>2. \A s, t \in S : f[s] = f[t] => s = t
      BY <2>6
    <3> HIDE DEF L, S, R, back
    <3>3. \A t \in S : f[t] \in DOMAIN Reversed(f) /\ Reversed(f)[f[t]] = t
      BY <3>2, ReversedReads
    <3> QED
      BY <3>1, <3>3
  <2> QED
    BY <1>3, <2>7, <2>8
<1> QED
  BY <1>4, <1>5

LEMMA ExhaustiveIsBest ==
  ASSUME NEW pairs, IsFiniteSet(pairs), NEW P \in SUBSET Log!Predicted(pairs),
         NEW g \in Log!Injection(P, Log!Spoken(pairs))
  PROVE  Log!Agreement(pairs, g) <=
           Log!Agreement(pairs, Log!ExhaustiveMapping(pairs, Log!Predicted(pairs), Log!Spoken(pairs)))
<1> DEFINE best == Log!ExhaustiveMapping(pairs, Log!Predicted(pairs), Log!Spoken(pairs))
<1>1. PICK h \in Pairings(pairs) : Matching(pairs, g) \subseteq Matching(pairs, h)
  BY ArrangementsSuffice
<1>2. Log!Agreement(pairs, g) <= Log!Agreement(pairs, h)
  BY <1>1, AgreesMore
<1>3. Log!Agreement(pairs, h) <= Log!Agreement(pairs, best)
  BY TriesAll
<1>4. /\ Log!Agreement(pairs, g) \in Nat /\ Log!Agreement(pairs, h) \in Nat
      /\ Log!Agreement(pairs, best) \in Nat
  BY Agreed
<1> HIDE DEF best
<1> QED
  BY <1>2, <1>3, <1>4 DEF best

-----------------------------------------------------------------------------
(* The most frequent first.  The words of one kind, *)
Alike(pairs, p) == {q \in pairs : q.label = p.label /\ q.speaker = p.speaker}

KindOf(pairs, p) ==
  [label |-> p.label, speaker |-> p.speaker,
   count |-> Cardinality(Alike(pairs, p)), first |-> Min({q.seq : q \in Alike(pairs, p)})]

(* and words that are told apart by their seq. *)
Numbered(pairs) ==
  /\ IsFiniteSet(pairs)
  /\ \E L \in Nat : \A p \in pairs : p.seq \in 1 .. L
  /\ \A p, q \in pairs : p.seq = q.seq => p = q

LEMMA KindsAre ==
  ASSUME NEW pairs, Numbered(pairs)
  PROVE  /\ Log!Kinds(pairs) = {KindOf(pairs, p) : p \in pairs}
         /\ IsFiniteSet(Log!Kinds(pairs))
<1>1. Log!Kinds(pairs) = {KindOf(pairs, p) : p \in pairs}
  BY InLog DEF Log!Kinds, KindOf, Alike
<1> DEFINE K == {KindOf(pairs, p) : p \in pairs}
           f == [p \in pairs |-> KindOf(pairs, p)]
<1>2. f \in [pairs -> K] /\ \A k \in K : \E p \in pairs : f[p] = k
  OBVIOUS
<1> HIDE DEF f, K
<1>3. IsFiniteSet(K)
  BY <1>2, FiniteImage DEF Numbered
<1> QED
  BY <1>1, <1>3 DEF K

LEMMA OneKind ==
  ASSUME NEW pairs, Numbered(pairs), NEW p \in pairs, NEW k, k = KindOf(pairs, p)
  PROVE  /\ k.label = p.label /\ k.speaker = p.speaker
         /\ k.count = Cardinality(Alike(pairs, p)) /\ k.count \in Nat
         /\ IsFiniteSet(Alike(pairs, p))
         /\ k.first \in Nat
         /\ \E q \in Alike(pairs, p) : q.seq = k.first
<1>1. /\ k.label = p.label /\ k.speaker = p.speaker
      /\ k.count = Cardinality(Alike(pairs, p)) /\ k.first = Min({q.seq : q \in Alike(pairs, p)})
  BY DEF KindOf
<1>2. Alike(pairs, p) \in SUBSET pairs /\ p \in Alike(pairs, p)
  BY DEF Alike
<1>3. IsFiniteSet(Alike(pairs, p)) /\ Cardinality(Alike(pairs, p)) \in Nat
  BY <1>2, FS_Subset, FS_CardinalityType DEF Numbered
<1> DEFINE seqs == {q.seq : q \in Alike(pairs, p)}
<1>4. Min(seqs) \in seqs /\ seqs \subseteq Nat
  <2>1. PICK L \in Nat : \A q \in pairs : q.seq \in 1 .. L
    BY DEF Numbered
  <2>2. seqs \in SUBSET (1 .. L) /\ seqs # {}
    BY <1>2, <2>1
  <2>3. seqs \subseteq Nat
    BY <2>2
  <2> HIDE DEF seqs
  <2>4. Min(seqs) \in seqs
    BY <2>1, <2>2, LastAndFirst
  <2> QED
    BY <2>3, <2>4
<1> QED
  BY <1>1, <1>3, <1>4

LEMMA SameKind ==
  ASSUME NEW pairs, Numbered(pairs), NEW p \in pairs, NEW q \in pairs
  PROVE  /\ p.label = q.label /\ p.speaker = q.speaker => KindOf(pairs, p) = KindOf(pairs, q)
         /\ KindOf(pairs, p).first = KindOf(pairs, q).first => KindOf(pairs, p) = KindOf(pairs, q)
<1>1. ASSUME p.label = q.label, p.speaker = q.speaker
      PROVE  KindOf(pairs, p) = KindOf(pairs, q)
  <2>1. Alike(pairs, p) = Alike(pairs, q)
    BY <1>1 DEF Alike
  <2> QED
    BY <1>1, <2>1 DEF KindOf
<1>2. ASSUME KindOf(pairs, p).first = KindOf(pairs, q).first
      PROVE  KindOf(pairs, p) = KindOf(pairs, q)
  <2>1. PICK x \in Alike(pairs, p) : x.seq = KindOf(pairs, p).first
    BY OneKind
  <2>2. PICK y \in Alike(pairs, q) : y.seq = KindOf(pairs, q).first
    BY OneKind
  <2>3. x \in pairs /\ y \in pairs /\ x = y
    BY <1>2, <2>1, <2>2 DEF Alike, Numbered
  <2>4. p.label = q.label /\ p.speaker = q.speaker
    BY <2>1, <2>2, <2>3 DEF Alike
  <2> QED
    BY <1>1, <2>4
<1> QED
  BY <1>1, <1>2

(* The kinds stand in one line. *)
LEMMA LastOfKinds ==
  ASSUME NEW pairs, Numbered(pairs), NEW s \in SUBSET Log!Kinds(pairs), s # {}
  PROVE  /\ Log!LastKind(s) \in s
         /\ \A m \in s : m.count >= Log!LastKind(s).count
<1> DEFINE R == {z \in s \X s : Log!Precedes(z[1], z[2])}
<1>1. \A x, y \in s : <<x, y>> \in R <=> Log!Precedes(x, y)
  OBVIOUS
<1>2. \A k \in s : k.count \in Nat /\ k.first \in Nat
  BY KindsAre, OneKind
<1>3. \A k, m \in s : k.first = m.first => k = m
  BY KindsAre, SameKind
<1>4. \A x, y \in s : x = y \/ <<x, y>> \in R \/ <<y, x>> \in R
  <2> SUFFICES ASSUME NEW x \in s, NEW y \in s, x # y
               PROVE  Log!Precedes(x, y) \/ Log!Precedes(y, x)
    BY <1>1
  <2>1. x.first # y.first
    BY <1>3
  <2> QED
    BY <1>2, <2>1 DEF Log!Precedes
<1>5. \A x, y, z \in s : <<x, y>> \in R /\ <<y, z>> \in R => <<x, z>> \in R
  <2> SUFFICES ASSUME NEW x \in s, NEW y \in s, NEW z \in s,
                      Log!Precedes(x, y), Log!Precedes(y, z)
               PROVE  Log!Precedes(x, z)
    BY <1>1
  <2> QED
    BY <1>2 DEF Log!Precedes
<1>6. IsFiniteSet(s)
  BY KindsAre, FS_Subset
<1> HIDE DEF R
<1>7. PICK k \in s : \A m \in s : m = k \/ <<m, k>> \in R
  <2>1. Greedily!IsFiniteSet(s)
    BY <1>6 DEF IsFiniteSet, Greedily!IsFiniteSet
  <2> QED
    BY <1>4, <1>5, <2>1, Greedily!LastMember
<1>8. \A m \in s \ {k} : Log!Precedes(m, k)
  BY <1>1, <1>7
<1>9. Log!LastKind(s) \in s /\ \A m \in s \ {Log!LastKind(s)} : Log!Precedes(m, Log!LastKind(s))
  BY <1>8 DEF Log!LastKind
<1>10. ASSUME NEW m \in s PROVE m.count >= Log!LastKind(s).count
  BY <1>2, <1>9 DEF Log!Precedes
<1> QED
  BY <1>9, <1>10

(* Taking the most frequent kind first: whatever is not read as it stands  *)
(* has one as frequent in its way.                                         *)
LEMMA GreedyReads ==
  ASSUME NEW pairs, Numbered(pairs)
  PROVE  Reading(pairs, Log!Kinds(pairs), Log!GreedyMapping(pairs))
<1> DEFINE K == Log!Kinds(pairs)
<1>1. Greedily!Picks(K)
  <2>1. Greedily!IsFiniteSet(K)
    BY KindsAre DEF IsFiniteSet, Greedily!IsFiniteSet
  <2>2. \A s \in SUBSET K : s # {} => Log!LastKind(s) \in s
    BY LastOfKinds
  <2> HIDE DEF K
  <2> QED
    BY <2>1, <2>2 DEF Greedily!Picks
<1>2. Reading(pairs, {}, Log!Empty)
  <2>1. DOMAIN Log!Empty = {}
    BY DEF Log!Empty
  <2> QED
    BY <2>1 DEF Reading
<1>3. ASSUME NEW g, NEW s \in SUBSET K, s # {}, Reading(pairs, s \ {Log!LastKind(s)}, g)
      PROVE  Reading(pairs, s, TakeKind(pairs, Log!LastKind(s), g))
  <2> DEFINE x == Log!LastKind(s)
             more == TakeKind(pairs, x, g)
  <2>1. x \in s /\ \A m \in s : m.count >= x.count
    <3> HIDE DEF K
    <3>1. s \in SUBSET Log!Kinds(pairs)
      BY DEF K
    <3> QED
      BY <1>3, <3>1, LastOfKinds
  <2>2. x.count \in Nat
    BY <2>1, KindsAre, OneKind
  <2>3. \A y \in DOMAIN g : \E k \in s : k.label = y /\ k.speaker = g[y]
    BY <1>3 DEF Reading
  <2>4. ASSUME NEW m \in s, m # x
        PROVE  \E k \in s : Reads(g, k) /\ StandsFor(k, m)
    <3>1. m \in s \ {Log!LastKind(s)}
      BY <2>4
    <3> QED
      BY <1>3, <3>1 DEF Reading
  <2> HIDE DEF x
  <2>5. CASE x.label \in DOMAIN g \/ x.speaker \in Log!Range(g)
    <3>1. more = g
      BY <2>5 DEF TakeKind, Log!Take
    <3>2. PICK y \in DOMAIN g : y = x.label \/ g[y] = x.speaker
      BY <2>5 DEF Log!Range
    <3>3. PICK k \in s : k.label = y /\ k.speaker = g[y]
      BY <2>3
    <3>4. Reads(g, k) /\ StandsFor(k, x)
      BY <2>1, <3>2, <3>3 DEF Reads, StandsFor
    <3>5. \A m \in s : \E j \in s : Reads(g, j) /\ StandsFor(j, m)
      BY <2>4, <3>4
    <3> QED
      BY <2>3, <3>1, <3>5 DEF Reading, x
  <2>6. CASE ~ (x.label \in DOMAIN g \/ x.speaker \in Log!Range(g))
    <3>1. more = [l \in DOMAIN g \cup {x.label} |-> IF l = x.label THEN x.speaker ELSE g[l]]
      BY <2>6 DEF TakeKind, Log!Take
    <3>2. /\ DOMAIN more = DOMAIN g \cup {x.label} /\ more[x.label] = x.speaker
          /\ \A l \in DOMAIN g : more[l] = g[l]
      BY <2>6, <3>1
    <3> HIDE DEF more
    <3>3. \A y \in DOMAIN more : \E k \in s : k.label = y /\ k.speaker = more[y]
      BY <2>1, <2>3, <3>2
    <3>4. Reads(more, x) /\ StandsFor(x, x)
      BY <2>2, <3>2 DEF Reads, StandsFor
    <3>5. \A k : Reads(g, k) => Reads(more, k)
      BY <3>2 DEF Reads
    <3>6. \A m \in s : \E j \in s : Reads(more, j) /\ StandsFor(j, m)
      BY <2>1, <2>4, <3>4, <3>5
    <3> QED
      BY <3>3, <3>6 DEF Reading, more, x
  <2> QED
    BY <2>5, <2>6
<1>4. Reading(pairs, K, Greedily!Fold(pairs, Log!Empty, K))
  <2> HIDE DEF K
  <2> QED
    BY <1>1, <1>2, <1>3, Greedily!FoldKeeps
<1>5. Log!GreedyMapping(pairs) = Greedily!Fold(pairs, Log!Empty, K)
  BY DEF Log!GreedyMapping, Log!MapThenFoldSet, Greedily!Fold, Greedily!Folds, TakeKind
<1> QED
  BY <1>4, <1>5

(* What fits into a set taken twice. *)
LEMMA Twice ==
  ASSUME NEW A, NEW B, IsFiniteSet(B), NEW F, F \in [A -> B \X (1 .. 2)],
         \A x, y \in A : F[x] = F[y] => x = y
  PROVE  Cardinality(A) <= 2 * Cardinality(B)
<1>1. IsFiniteSet(1 .. 2) /\ Cardinality(1 .. 2) = 2
  <2>1. ASSUME NEW b \in Nat PROVE IsFiniteSet(1 .. b) /\ Cardinality(1 .. b) = b
    BY FS_Interval
  <2> QED
    BY <2>1
<1>2. /\ IsFiniteSet(B \X (1 .. 2))
      /\ Cardinality(B \X (1 .. 2)) = Cardinality(B) * Cardinality(1 .. 2)
  BY <1>1, FS_Product
<1>3. Cardinality(A) <= Cardinality(B \X (1 .. 2))
  BY <1>2, FiniteSource
<1>4. Cardinality(B) \in Nat
  BY FS_CardinalityType
<1> QED
  BY <1>1, <1>2, <1>3, <1>4

(* The words read as somebody else are as many as those taken in their     *)
(* way, and each of these stands in the way twice: of its label and of its *)
(* speaker.                                                                *)
LEMMA GreedyIsHalf ==
  ASSUME NEW pairs, Numbered(pairs), NEW P,
         NEW g \in Log!Injection(P, Log!Spoken(pairs))
  PROVE  Log!Agreement(pairs, g) <= 2 * Log!Agreement(pairs, Log!GreedyMapping(pairs))
<1> DEFINE K == Log!Kinds(pairs)
           h == Log!GreedyMapping(pairs)
           A == Matching(pairs, g)
           B == Matching(pairs, h)
           words(k) == {q \in pairs : q.label = k.label /\ q.speaker = k.speaker}
           stand(m) == CHOOSE k \in K : Reads(h, k) /\ StandsFor(k, m)
           into(m) == CHOOSE f \in [words(m) -> words(stand(m))] :
                        \A x, y \in words(m) : f[x] = f[y] => x = y
           kind(p) == KindOf(pairs, p)
           side(p) == IF stand(kind(p)).label = p.label THEN 1 ELSE 2
           F == [p \in A |-> <<into(kind(p))[p], side(p)>>]
<1>1. IsFiniteSet(pairs)
  BY DEF Numbered
<1>2. ASSUME NEW m \in K
      PROVE  /\ stand(m) \in K /\ Reads(h, stand(m)) /\ StandsFor(stand(m), m)
             /\ IsFiniteSet(words(m)) /\ Cardinality(words(m)) = m.count /\ m.count \in Nat
  <2>1. \E k \in K : Reads(h, k) /\ StandsFor(k, m)
    BY GreedyReads DEF Reading
  <2>2. PICK p \in pairs : m = kind(p)
    BY KindsAre
  <2>3. m.label = p.label /\ m.speaker = p.speaker
        /\ m.count = Cardinality(Alike(pairs, p)) /\ m.count \in Nat
        /\ IsFiniteSet(Alike(pairs, p))
    BY <2>2, OneKind
  <2>4. words(m) = Alike(pairs, p)
    BY <2>3 DEF Alike
  <2> HIDE DEF K, h, words
  <2> QED
    BY <2>1, <2>3, <2>4
<1>3. ASSUME NEW m \in K
      PROVE  /\ into(m) \in [words(m) -> words(stand(m))]
             /\ \A x, y \in words(m) : into(m)[x] = into(m)[y] => x = y
  <2>1. m.count <= stand(m).count
    BY <1>2 DEF StandsFor
  <2>2. Cardinality(words(m)) <= Cardinality(words(stand(m)))
    BY <1>2, <2>1
  <2>3. IsFiniteSet(words(m)) /\ IsFiniteSet(words(stand(m)))
    BY <1>2
  <2> HIDE DEF K, h, words, stand
  <2>4. \E f \in [words(m) -> words(stand(m))] : \A x, y \in words(m) : f[x] = f[y] => x = y
    BY <2>2, <2>3, Fits
  <2> QED
    BY <2>4
<1>4. ASSUME NEW p \in A
      PROVE  /\ p \in pairs /\ kind(p) \in K /\ p \in words(kind(p))
             /\ kind(p).label = p.label /\ kind(p).speaker = p.speaker
             /\ p.label \in P /\ g[p.label] = p.speaker
  <2>1. p \in pairs /\ p.label \in DOMAIN g /\ g[p.label] = p.speaker
    BY DEF Matching
  <2>2. DOMAIN g = P
    BY InjectionsInLog
  <2>3. kind(p) \in K
    BY <2>1, KindsAre
  <2>4. kind(p).label = p.label /\ kind(p).speaker = p.speaker
    BY DEF KindOf
  <2> QED
    BY <2>1, <2>2, <2>3, <2>4
<1>5. \A x, y \in P : g[x] = g[y] => x = y
  BY InjectionsInLog
<1>6. ASSUME NEW m \in K, NEW q \in words(stand(m))
      PROVE  q \in B /\ q.label = stand(m).label /\ q.speaker = stand(m).speaker
  BY <1>2 DEF Matching, Reads
<1>7. ASSUME NEW p \in A
      PROVE  /\ into(kind(p))[p] \in words(stand(kind(p)))
             /\ IF side(p) = 1 THEN p.label = stand(kind(p)).label
                               ELSE p.speaker = stand(kind(p)).speaker
             /\ side(p) \in 1 .. 2
  <2>1. into(kind(p))[p] \in words(stand(kind(p)))
    <3> HIDE DEF A, K, into, words, stand, kind
    <3> QED
      BY <1>3, <1>4
  <2>2. StandsFor(stand(kind(p)), kind(p))
    BY <1>2, <1>4
  <2>3. p.label = stand(kind(p)).label \/ p.speaker = stand(kind(p)).speaker
    <3> HIDE DEF A, K, stand, kind
    <3> QED
      BY <1>4, <2>2 DEF StandsFor
  <2> HIDE DEF A, K, into, words, stand, kind
  <2> QED
    BY <2>1, <2>3
<1>8. F \in [A -> B \X (1 .. 2)]
  <2> SUFFICES ASSUME NEW p \in A PROVE into(kind(p))[p] \in B /\ side(p) \in 1 .. 2
    OBVIOUS
  <2> HIDE DEF A, B, K, into, words, stand, kind, side
  <2> QED
    BY <1>4, <1>6, <1>7
<1>9. ASSUME NEW p \in A, NEW q \in A, F[p] = F[q] PROVE p = q
  <2>1. into(kind(p))[p] = into(kind(q))[q] /\ side(p) = side(q)
    <3> HIDE DEF A, into, kind, side
    <3> QED
      BY <1>9
  <2> HIDE DEF A, B, K, into, words, stand, kind, side, F
  <2>2. /\ stand(kind(p)).label = stand(kind(q)).label
        /\ stand(kind(p)).speaker = stand(kind(q)).speaker
    <3>1. /\ into(kind(p))[p].label = stand(kind(p)).label
          /\ into(kind(p))[p].speaker = stand(kind(p)).speaker
      BY <1>4, <1>6, <1>7
    <3>2. /\ into(kind(q))[q].label = stand(kind(q)).label
          /\ into(kind(q))[q].speaker = stand(kind(q)).speaker
      BY <1>4, <1>6, <1>7
    <3> QED
      BY <2>1, <3>1, <3>2
  <2>3. p.label = q.label /\ p.speaker = q.speaker
    <3>1. p.label = q.label \/ p.speaker = q.speaker
      BY <1>7, <2>1, <2>2
    <3> QED
      BY <1>4, <1>5, <3>1
  <2>4. kind(p) = kind(q)
    BY <1>4, <2>3, SameKind DEF kind
  <2> QED
    BY <1>3, <1>4, <2>1, <2>4
<1>10. IsFiniteSet(B)
  BY <1>1, Agreed
<1>11. Cardinality(A) <= 2 * Cardinality(B)
  <2> HIDE DEF A, B, F
  <2> QED
    BY <1>8, <1>9, <1>10, Twice
<1>12. /\ Log!Agreement(pairs, g) = Cardinality(A)
       /\ Log!Agreement(pairs, h) = Cardinality(B)
  BY <1>1, Agreed
<1> QED
  BY <1>11, <1>12

-----------------------------------------------------------------------------
(* The words to be scored are told apart by where they stand in the log.   *)
LEMMA PairsAreNumbered ==
  ASSUME Recorded(events)
  PROVE  Numbered(Log!Pairs(events))
<1> DEFINE S == Log!Labelled(events)
           pair(i) == [seq |-> i, label |-> Log!Resolved(events, i),
                       speaker |-> Log!TrueSpeaker(events[i].middle)]
           T == {pair(i) : i \in S}
           f == [i \in S |-> pair(i)]
<1>1. Log!Pairs(events) = T
  BY DEF Log!Pairs
<1>2. IsFiniteSet(S)
  BY CountedFinite
<1>3. PICK L \in Nat : DOMAIN events = 1 .. L
  BY DEF Recorded
<1>4. S \subseteq 1 .. L
  BY <1>3 DEF Log!Labelled, Log!Scorable
<1>5. f \in [S -> T] /\ \A t \in T : \E i \in S : f[i] = t
  OBVIOUS
<1>6. IsFiniteSet(T)
  <2> HIDE DEF S, T, f
  <2> QED
    BY <1>2, <1>5, FiniteImage
<1>7. \A p \in T : p.seq \in 1 .. L /\ p = pair(p.seq)
  <2> SUFFICES ASSUME NEW i \in S PROVE pair(i).seq \in 1 .. L /\ pair(i) = pair(pair(i).seq)
    OBVIOUS
  <2> QED
    BY <1>4
<1>8. \A p, q \in T : p.seq = q.seq => p = q
  <2> HIDE DEF T, pair
  <2> QED
    BY <1>7
<1> HIDE DEF T
<1> QED
  BY <1>1, <1>3, <1>6, <1>7, <1>8 DEF Numbered

LEMMA BestOfLog ==
  ASSUME Recorded(events)
  PROVE  Log!AgreementIsBest
<1> DEFINE pairs == Log!Pairs(events)
           counted == Log!Agreement(pairs, Log!BestMapping(pairs))
<1>1. Numbered(pairs) /\ IsFiniteSet(pairs)
  BY PairsAreNumbered DEF Numbered
<1>2. Log!Report(events).correct = counted
  BY DEF Log!Report
<1>3. ASSUME NEW P \in SUBSET Log!Predicted(pairs), NEW g \in Log!Injection(P, Log!Spoken(pairs))
      PROVE  Log!Agreement(pairs, g) <= IF Log!Small(pairs) THEN counted ELSE 2 * counted
  <2> HIDE DEF pairs
  <2>0. Log!Agreement(pairs, g) \in Nat /\ counted \in Nat
    BY <1>1, Agreed
  <2>1. CASE pairs = {}
    <3>1. Matching(pairs, g) = {}
      BY <2>1 DEF Matching
    <3>2. Log!Agreement(pairs, g) = 0
      BY <1>1, <3>1, Agreed, FS_EmptySet
    <3> QED
      BY <2>0, <3>2
  <2>2. CASE pairs # {} /\ Log!Small(pairs)
    <3>1. counted = Log!Agreement(pairs,
                      Log!ExhaustiveMapping(pairs, Log!Predicted(pairs), Log!Spoken(pairs)))
      BY <2>2 DEF Log!BestMapping
    <3> QED
      BY <1>1, <2>2, <3>1, ExhaustiveIsBest
  <2>3. CASE pairs # {} /\ ~Log!Small(pairs)
    <3>1. counted = Log!Agreement(pairs, Log!GreedyMapping(pairs))
      BY <2>3 DEF Log!BestMapping
    <3> QED
      BY <1>1, <2>3, <3>1, GreedyIsHalf
  <2> QED
    BY <2>1, <2>2, <2>3
<1> QED
  BY <1>2, <1>3 DEF Log!AgreementIsBest

(* metrics.py:173-179, AgreementIsBest for every log, every ground truth   *)
(* and every exhaustive limit: no one-to-one reading of the labels agrees  *)
(* with more words than the one that is scored, or, past the limit, where  *)
(* the most frequent pair goes first, with more than twice as many.        *)
THEOREM ScoredAtBest == TextSpec => []AgreementIsBest
<1>1. TextInit => Recorded(events)
  BY RecordedFirst DEF TextInit
<1>2. Recorded(events) /\ [TextNext]_textVars => Recorded(events)'
  BY TextRecords
<1>3. Recorded(events) => AgreementIsBest
  BY BestOfLog DEF AgreementIsBest
<1> QED
  BY <1>1, <1>2, <1>3, PTL DEF TextSpec

-----------------------------------------------------------------------------
(* The score of the words.  Ways to pair off the first i words of r with   *)
(* the first j of h, in order, and what one costs.                         *)
Grid(i, j) == (1 .. i) \X (1 .. j)

Aligned(i, j) == Scorer!Ordered(Grid(i, j))

Wrong(r, h, M) == {p \in M : r[p[1]] # h[p[2]]}

Cost(r, h, i, j, M) == Cardinality(Wrong(r, h, M)) + i + j - 2 * Cardinality(M)

Costs(r, h, i, j) == {Cost(r, h, i, j, M) : M \in Aligned(i, j)}

Best(r, h, i, j) == Min(Costs(r, h, i, j))

Before(p, q) == p[1] < q[1] /\ p[2] < q[2]

LEMMA AlignedAre ==
  ASSUME NEW i \in Nat, NEW j \in Nat
  PROVE  \A M : M \in Aligned(i, j) <=>
           /\ \A p \in M : p = <<p[1], p[2]>> /\ p[1] \in 1 .. i /\ p[2] \in 1 .. j
           /\ \A p, q \in M : p = q \/ Before(p, q) \/ Before(q, p)
BY DEF Aligned, Scorer!Ordered, Grid, Before

LEMMA AlignedFinite ==
  ASSUME NEW i \in Nat, NEW j \in Nat
  PROVE  /\ IsFiniteSet(Aligned(i, j))
         /\ \A M \in Aligned(i, j) : IsFiniteSet(M)
<1>1. IsFiniteSet(1 .. i) /\ IsFiniteSet(1 .. j)
  BY FS_Interval
<1>2. IsFiniteSet(Grid(i, j))
  BY <1>1, FS_Product DEF Grid
<1>3. IsFiniteSet(SUBSET Grid(i, j))
  BY <1>2, FS_SUBSET
<1>4. Aligned(i, j) \in SUBSET (SUBSET Grid(i, j))
  BY DEF Aligned, Scorer!Ordered
<1> QED
  BY <1>2, <1>3, <1>4, FS_Subset

LEMMA CostIsInt ==
  ASSUME NEW r, NEW h, NEW i \in Nat, NEW j \in Nat, NEW M, IsFiniteSet(M)
  PROVE  /\ IsFiniteSet(Wrong(r, h, M)) /\ Cardinality(Wrong(r, h, M)) \in Nat
         /\ Cardinality(M) \in Nat /\ Cost(r, h, i, j, M) \in Int
<1>1. Wrong(r, h, M) \in SUBSET M
  BY DEF Wrong
<1>2. /\ IsFiniteSet(Wrong(r, h, M)) /\ Cardinality(Wrong(r, h, M)) \in Nat
      /\ Cardinality(M) \in Nat
  BY <1>1, FS_Subset, FS_CardinalityType
<1> QED
  BY <1>2 DEF Cost

LEMMA BestIs ==
  ASSUME NEW r, NEW h, NEW i \in Nat, NEW j \in Nat
  PROVE  /\ Best(r, h, i, j) \in Int
         /\ \E M \in Aligned(i, j) : Cost(r, h, i, j, M) = Best(r, h, i, j)
         /\ \A M \in Aligned(i, j) : Best(r, h, i, j) <= Cost(r, h, i, j, M)
<1> DEFINE A == Aligned(i, j)
           S == Costs(r, h, i, j)
           f == [M \in A |-> Cost(r, h, i, j, M)]
           R == {z \in S \X S : z[1] >= z[2]}
<1>1. f \in [A -> S] /\ \A t \in S : \E M \in A : f[M] = t
  BY DEF Costs
<1>2. IsFiniteSet(S)
  <2> HIDE DEF A, S, f
  <2>1. IsFiniteSet(A)
    BY AlignedFinite DEF A
  <2> QED
    BY <1>1, <2>1, FiniteImage
<1>3. S \subseteq Int
  BY AlignedFinite, CostIsInt DEF Costs
<1>4. {} \in A
  BY AlignedAre
<1>5. S # {}
  BY <1>4 DEF Costs
<1>6. \A x, y \in S : <<x, y>> \in R <=> x >= y
  OBVIOUS
<1>7. PICK x \in S : \A y \in S : y = x \/ <<y, x>> \in R
  <2>1. Trying!IsFiniteSet(S)
    BY <1>2 DEF IsFiniteSet, Trying!IsFiniteSet
  <2> HIDE DEF S, R
  <2>2. \A x, y \in S : x = y \/ <<x, y>> \in R \/ <<y, x>> \in R
    <3> SUFFICES ASSUME NEW x \in S, NEW y \in S PROVE x >= y \/ y >= x
      BY <1>6
    <3>1. x \in Int /\ y \in Int
      BY <1>3
    <3> QED
      BY <3>1
  <2>3. \A x, y, z \in S : <<x, y>> \in R /\ <<y, z>> \in R => <<x, z>> \in R
    BY <1>3, <1>6
  <2> QED
    BY <1>5, <2>1, <2>2, <2>3, Trying!LastMember
<1>8. \A y \in S : x <= y
  <2> SUFFICES ASSUME NEW y \in S PROVE x <= y
    OBVIOUS
  <2> HIDE DEF S, R
  <2>1. x \in Int /\ y \in Int
    BY <1>3
  <2>2. y = x \/ y >= x
    BY <1>6, <1>7
  <2> QED
    BY <2>1, <2>2
<1>9. Min(S) \in S /\ \A y \in S : Min(S) <= y
  <2> HIDE DEF S
  <2> QED
    BY <1>8 DEF Min
<1> QED
  BY <1>3, <1>9 DEF Best, Costs

(* One more pair. *)
LEMMA OnePair ==
  ASSUME NEW r, NEW h, NEW M, IsFiniteSet(M), NEW p, p \notin M
  PROVE  /\ Cardinality(M \cup {p}) = Cardinality(M) + 1
         /\ Cardinality(Wrong(r, h, M \cup {p}))
              = Cardinality(Wrong(r, h, M)) + (IF r[p[1]] = h[p[2]] THEN 0 ELSE 1)
<1>1. Cardinality(M \cup {p}) = Cardinality(M) + 1
  BY FS_AddElement
<1>2. IsFiniteSet(Wrong(r, h, M)) /\ p \notin Wrong(r, h, M)
      /\ Cardinality(Wrong(r, h, M)) \in Nat
  BY CostIsInt DEF Wrong
<1>3. CASE r[p[1]] = h[p[2]]
  <2>1. Wrong(r, h, M \cup {p}) = Wrong(r, h, M)
    BY <1>3 DEF Wrong
  <2> QED
    BY <1>1, <1>2, <1>3, <2>1
<1>4. CASE r[p[1]] # h[p[2]]
  <2>1. Wrong(r, h, M \cup {p}) = Wrong(r, h, M) \cup {p}
    BY <1>4 DEF Wrong
  <2>2. Cardinality(Wrong(r, h, M) \cup {p}) = Cardinality(Wrong(r, h, M)) + 1
    BY <1>2, FS_AddElement
  <2> QED
    BY <1>1, <1>4, <2>1, <2>2
<1> QED
  BY <1>3, <1>4

Wronged(r, h, i, j) == IF r[i] = h[j] THEN 0 ELSE 1

LEMMA Corner ==
  ASSUME NEW r, NEW h, NEW i \in Nat, NEW j \in Nat,
         NEW M \in Aligned(i, j), NEW p, p = <<i + 1, j + 1>>
  PROVE  /\ M \cup {p} \in Aligned(i + 1, j + 1)
         /\ Cost(r, h, i + 1, j + 1, M \cup {p})
              = Cost(r, h, i, j, M) + Wronged(r, h, i + 1, j + 1)
<1>1. \A q \in M : q = <<q[1], q[2]>> /\ q[1] \in 1 .. i /\ q[2] \in 1 .. j
  BY AlignedAre
<1>2. \A q, s \in M : q = s \/ Before(q, s) \/ Before(s, q)
  BY AlignedAre
<1>3. p[1] = i + 1 /\ p[2] = j + 1
  OBVIOUS
<1>4. p \notin M /\ \A q \in M : Before(q, p)
  BY <1>1, <1>3 DEF Before
<1>5. M \cup {p} \in Aligned(i + 1, j + 1)
  <2>1. \A q \in M \cup {p} : q = <<q[1], q[2]>> /\ q[1] \in 1 .. (i + 1) /\ q[2] \in 1 .. (j + 1)
    BY <1>1, <1>3
  <2>2. \A q, s \in M \cup {p} : q = s \/ Before(q, s) \/ Before(s, q)
    BY <1>2, <1>4
  <2>3. i + 1 \in Nat /\ j + 1 \in Nat
    OBVIOUS
  <2> QED
    BY <2>1, <2>2, <2>3, AlignedAre
<1>6. IsFiniteSet(M)
  BY AlignedFinite
<1>7. /\ Cardinality(M \cup {p}) = Cardinality(M) + 1
      /\ Cardinality(Wrong(r, h, M \cup {p}))
           = Cardinality(Wrong(r, h, M)) + Wronged(r, h, i + 1, j + 1)
  BY <1>3, <1>4, <1>6, OnePair DEF Wronged
<1>8. Cardinality(M) \in Nat /\ Cardinality(Wrong(r, h, M)) \in Nat
  BY <1>6, CostIsInt
<1> QED
  BY <1>5, <1>7, <1>8 DEF Cost, Wronged

(* Without its last pair, if it has one in the corner. *)
LEMMA NoCorner ==
  ASSUME NEW r, NEW h, NEW i \in Nat, NEW j \in Nat,
         NEW M \in Aligned(i + 1, j + 1)
  PROVE  \/ \E W \in Aligned(i, j) :
              Cost(r, h, i + 1, j + 1, M) = Cost(r, h, i, j, W) + Wronged(r, h, i + 1, j + 1)
         \/ M \in Aligned(i, j + 1) \/ M \in Aligned(i + 1, j)
<1>0. i + 1 \in Nat /\ j + 1 \in Nat
  OBVIOUS
<1>1. \A q \in M : q = <<q[1], q[2]>> /\ q[1] \in 1 .. (i + 1) /\ q[2] \in 1 .. (j + 1)
  BY <1>0, AlignedAre
<1>2. \A q, s \in M : q = s \/ Before(q, s) \/ Before(s, q)
  BY <1>0, AlignedAre
<1> DEFINE p == <<i + 1, j + 1>>
<1>3. p[1] = i + 1 /\ p[2] = j + 1
  OBVIOUS
<1>4. CASE p \in M
  <2> DEFINE W == M \ {p}
  <2>1. \A q \in W : q = <<q[1], q[2]>> /\ q[1] \in 1 .. i /\ q[2] \in 1 .. j
    <3> SUFFICES ASSUME NEW q \in W
                 PROVE  q = <<q[1], q[2]>> /\ q[1] \in 1 .. i /\ q[2] \in 1 .. j
      OBVIOUS
    <3>1. q = <<q[1], q[2]>> /\ q[1] \in 1 .. (i + 1) /\ q[2] \in 1 .. (j + 1)
      BY <1>1
    <3>2. Before(q, p) \/ Before(p, q)
      BY <1>2, <1>4
    <3> HIDE DEF p
    <3> QED
      BY <1>3, <3>1, <3>2 DEF Before
  <2>2. W \in Aligned(i, j)
    BY <1>2, <2>1, AlignedAre
  <2>3. W \cup {p} = M
    BY <1>4
  <2> HIDE DEF W, p
  <2>4. Cost(r, h, i + 1, j + 1, M) = Cost(r, h, i, j, W) + Wronged(r, h, i + 1, j + 1)
    BY <2>2, <2>3, Corner, ZenonT(60) DEF p
  <2> QED
    BY <2>2, <2>4
<1>5. CASE p \notin M
  <2>1. (\A q \in M : q[1] # i + 1) \/ (\A q \in M : q[2] # j + 1)
    <3> SUFFICES ASSUME NEW q \in M, NEW s \in M, q[1] = i + 1, s[2] = j + 1
                 PROVE  FALSE
      OBVIOUS
    <3>1. s[1] \in 1 .. (i + 1) /\ q[2] \in 1 .. (j + 1)
      BY <1>1
    <3>2. q # s
      BY <1>1, <1>5
    <3>3. Before(q, s) \/ Before(s, q)
      BY <1>2, <3>2
    <3> QED
      BY <3>1, <3>3 DEF Before
  <2>2. CASE \A q \in M : q[1] # i + 1
    <3>1. \A q \in M : q = <<q[1], q[2]>> /\ q[1] \in 1 .. i /\ q[2] \in 1 .. (j + 1)
      BY <1>1, <2>2
    <3> QED
      BY <1>0, <1>2, <3>1, AlignedAre
  <2>3. CASE \A q \in M : q[2] # j + 1
    <3>1. \A q \in M : q = <<q[1], q[2]>> /\ q[1] \in 1 .. (i + 1) /\ q[2] \in 1 .. j
      BY <1>1, <2>3
    <3> QED
      BY <1>0, <1>2, <3>1, AlignedAre
  <2> QED
    BY <2>1, <2>2, <2>3
<1> QED
  BY <1>4, <1>5

(* With a word more on one side. *)
LEMMA Longer ==
  ASSUME NEW r, NEW h, NEW i \in Nat, NEW j \in Nat, NEW M \in Aligned(i, j)
  PROVE  /\ M \in Aligned(i + 1, j) /\ Cost(r, h, i + 1, j, M) = Cost(r, h, i, j, M) + 1
         /\ M \in Aligned(i, j + 1) /\ Cost(r, h, i, j + 1, M) = Cost(r, h, i, j, M) + 1
<1>0. i + 1 \in Nat /\ j + 1 \in Nat
  OBVIOUS
<1>1. \A q \in M : q = <<q[1], q[2]>> /\ q[1] \in 1 .. i /\ q[2] \in 1 .. j
  BY AlignedAre
<1>2. \A q, s \in M : q = s \/ Before(q, s) \/ Before(s, q)
  BY AlignedAre
<1>3. M \in Aligned(i + 1, j)
  <2>1. \A q \in M : q = <<q[1], q[2]>> /\ q[1] \in 1 .. (i + 1) /\ q[2] \in 1 .. j
    BY <1>1
  <2> QED
    BY <1>0, <1>2, <2>1, AlignedAre
<1>4. M \in Aligned(i, j + 1)
  <2>1. \A q \in M : q = <<q[1], q[2]>> /\ q[1] \in 1 .. i /\ q[2] \in 1 .. (j + 1)
    BY <1>1
  <2> QED
    BY <1>0, <1>2, <2>1, AlignedAre
<1>5. Cardinality(M) \in Nat /\ Cardinality(Wrong(r, h, M)) \in Nat
  BY AlignedFinite, CostIsInt
<1> QED
  BY <1>3, <1>4, <1>5 DEF Cost

(* A word taken away costs one at most. *)
LEMMA Shorter ==
  ASSUME NEW r, NEW h, NEW i \in Nat, NEW j \in Nat
  PROVE  /\ \A M \in Aligned(i + 1, j) :
              \E W \in Aligned(i, j) : Cost(r, h, i, j, W) <= Cost(r, h, i + 1, j, M) + 1
         /\ \A M \in Aligned(i, j + 1) :
              \E W \in Aligned(i, j) : Cost(r, h, i, j, W) <= Cost(r, h, i, j + 1, M) + 1
<1>0. i + 1 \in Nat /\ j + 1 \in Nat
  OBVIOUS
<1>1. ASSUME NEW M, IsFiniteSet(M), NEW p \in M
      PROVE  /\ Cardinality(M) = Cardinality(M \ {p}) + 1
             /\ Cardinality(Wrong(r, h, M \ {p})) <= Cardinality(Wrong(r, h, M))
             /\ Cardinality(M \ {p}) \in Nat
             /\ Cardinality(Wrong(r, h, M)) \in Nat
             /\ Cardinality(Wrong(r, h, M \ {p})) \in Nat
  <2> DEFINE W == M \ {p}
  <2>1. IsFiniteSet(W) /\ p \notin W /\ W \cup {p} = M
    BY <1>1, FS_Subset
  <2> HIDE DEF W
  <2>2. /\ Cardinality(W) \in Nat /\ Cardinality(Wrong(r, h, W)) \in Nat
        /\ Cardinality(Wrong(r, h, M)) \in Nat
    BY <1>1, <2>1, CostIsInt
  <2>3. Cardinality(M) = Cardinality(W) + 1
        /\ Cardinality(Wrong(r, h, M))
             = Cardinality(Wrong(r, h, W)) + (IF r[p[1]] = h[p[2]] THEN 0 ELSE 1)
    BY <2>1, OnePair
  <2> QED
    BY <2>2, <2>3 DEF W
<1>2. ASSUME NEW M \in Aligned(i + 1, j)
      PROVE  \E W \in Aligned(i, j) : Cost(r, h, i, j, W) <= Cost(r, h, i + 1, j, M) + 1
  <2>1. \A q \in M : q = <<q[1], q[2]>> /\ q[1] \in 1 .. (i + 1) /\ q[2] \in 1 .. j
    BY <1>0, AlignedAre
  <2>2. \A q, s \in M : q = s \/ Before(q, s) \/ Before(s, q)
    BY <1>0, AlignedAre
  <2>3. IsFiniteSet(M)
    BY <1>0, AlignedFinite
  <2>4. CASE \A q \in M : q[1] # i + 1
    <3>1. \A q \in M : q = <<q[1], q[2]>> /\ q[1] \in 1 .. i /\ q[2] \in 1 .. j
      BY <2>1, <2>4
    <3>2. M \in Aligned(i, j)
      BY <2>2, <3>1, AlignedAre
    <3>3. Cost(r, h, i + 1, j, M) = Cost(r, h, i, j, M) + 1
      BY <3>2, Longer
    <3>4. Cost(r, h, i, j, M) \in Int
      BY <2>3, CostIsInt
    <3> QED
      BY <3>2, <3>3, <3>4
  <2>5. ASSUME NEW p \in M, p[1] = i + 1
        PROVE  \E W \in Aligned(i, j) : Cost(r, h, i, j, W) <= Cost(r, h, i + 1, j, M) + 1
    <3>1. \A q \in M \ {p} : q[1] # i + 1
      BY <2>2, <2>5, <2>1 DEF Before
    <3>2. \A q \in M \ {p} : q = <<q[1], q[2]>> /\ q[1] \in 1 .. i /\ q[2] \in 1 .. j
      BY <2>1, <3>1
    <3>3. M \ {p} \in Aligned(i, j)
      BY <2>2, <3>2, AlignedAre
    <3>4. Cost(r, h, i, j, M \ {p}) <= Cost(r, h, i + 1, j, M) + 1
      BY <1>1, <2>3 DEF Cost
    <3> QED
      BY <3>3, <3>4
  <2> QED
    BY <2>4, <2>5
<1>3. ASSUME NEW M \in Aligned(i, j + 1)
      PROVE  \E W \in Aligned(i, j) : Cost(r, h, i, j, W) <= Cost(r, h, i, j + 1, M) + 1
  <2>1. \A q \in M : q = <<q[1], q[2]>> /\ q[1] \in 1 .. i /\ q[2] \in 1 .. (j + 1)
    BY <1>0, AlignedAre
  <2>2. \A q, s \in M : q = s \/ Before(q, s) \/ Before(s, q)
    BY <1>0, AlignedAre
  <2>3. IsFiniteSet(M)
    BY <1>0, AlignedFinite
  <2>4. CASE \A q \in M : q[2] # j + 1
    <3>1. \A q \in M : q = <<q[1], q[2]>> /\ q[1] \in 1 .. i /\ q[2] \in 1 .. j
      BY <2>1, <2>4
    <3>2. M \in Aligned(i, j)
      BY <2>2, <3>1, AlignedAre
    <3>3. Cost(r, h, i, j + 1, M) = Cost(r, h, i, j, M) + 1
      BY <3>2, Longer
    <3>4. Cost(r, h, i, j, M) \in Int
      BY <2>3, CostIsInt
    <3> QED
      BY <3>2, <3>3, <3>4
  <2>5. ASSUME NEW p \in M, p[2] = j + 1
        PROVE  \E W \in Aligned(i, j) : Cost(r, h, i, j, W) <= Cost(r, h, i, j + 1, M) + 1
    <3>1. \A q \in M \ {p} : q[2] # j + 1
      BY <2>2, <2>5, <2>1 DEF Before
    <3>2. \A q \in M \ {p} : q = <<q[1], q[2]>> /\ q[1] \in 1 .. i /\ q[2] \in 1 .. j
      BY <2>1, <3>1
    <3>3. M \ {p} \in Aligned(i, j)
      BY <2>2, <3>2, AlignedAre
    <3>4. Cost(r, h, i, j, M \ {p}) <= Cost(r, h, i, j + 1, M) + 1
      BY <1>1, <2>3 DEF Cost
    <3> QED
      BY <3>3, <3>4
  <2> QED
    BY <2>4, <2>5
<1> QED
  BY <1>2, <1>3

LEMMA InScorer ==
  /\ \A S : Scorer!Cardinality(S) = Cardinality(S)
  /\ \A S : Scorer!Min(S) = Min(S)
BY DEF Scorer!Cardinality, Cardinality, Scorer!Min, Min

LEMMA MinOfThree ==
  ASSUME NEW a \in Int, NEW b \in Int, NEW c \in Int
  PROVE  /\ Min({a, b, c}) \in {a, b, c}
         /\ Min({a, b, c}) <= a /\ Min({a, b, c}) <= b /\ Min({a, b, c}) <= c
<1>1. \E x \in {a, b, c} : \A y \in {a, b, c} : x <= y
  <2>1. CASE a <= b /\ a <= c
    BY <2>1
  <2>2. CASE b <= a /\ b <= c
    BY <2>2
  <2>3. CASE c <= a /\ c <= b
    BY <2>3
  <2> QED
    BY <2>1, <2>2, <2>3
<1> QED
  BY <1>1 DEF Min

(* What the cheapest way costs grows from cell to cell as the table says.  *)
LEMMA BestStart ==
  ASSUME NEW r, NEW h, NEW i \in Nat
  PROVE  Best(r, h, i, 0) = i /\ Best(r, h, 0, i) = i
<1>1. ASSUME NEW M, M \in Aligned(i, 0) \/ M \in Aligned(0, i)
      PROVE  M = {}
  BY <1>1, AlignedAre
<1>2. Wrong(r, h, {}) = {} /\ Cardinality({}) = 0
  BY FS_EmptySet DEF Wrong
<1> DEFINE none == Cardinality({})
<1>3. /\ Cost(r, h, i, 0, {}) = none + i + 0 - 2 * none
      /\ Cost(r, h, 0, i, {}) = none + 0 + i - 2 * none
  BY <1>2, Zenon DEF Cost
<1>6. Cost(r, h, i, 0, {}) = i /\ Cost(r, h, 0, i, {}) = i
  <2> HIDE DEF none
  <2>1. none = 0
    BY <1>2 DEF none
  <2> QED
    BY <1>3, <2>1
<1>4. PICK M \in Aligned(i, 0) : Cost(r, h, i, 0, M) = Best(r, h, i, 0)
  BY BestIs
<1>5. PICK W \in Aligned(0, i) : Cost(r, h, 0, i, W) = Best(r, h, 0, i)
  BY BestIs
<1> QED
  BY <1>1, <1>4, <1>5, <1>6

LEMMA BestBounds ==
  ASSUME NEW r, NEW h, NEW i \in Nat, NEW j \in Nat
  PROVE  /\ Best(r, h, i + 1, j + 1) <= Best(r, h, i, j) + Wronged(r, h, i + 1, j + 1)
         /\ Best(r, h, i + 1, j + 1) <= Best(r, h, i, j + 1) + 1
         /\ Best(r, h, i + 1, j + 1) <= Best(r, h, i + 1, j) + 1
         /\ Best(r, h, i, j) <= Best(r, h, i, j + 1) + 1
         /\ Best(r, h, i, j) <= Best(r, h, i + 1, j) + 1
         /\ \/ Best(r, h, i + 1, j + 1) >= Best(r, h, i, j) + Wronged(r, h, i + 1, j + 1)
            \/ Best(r, h, i + 1, j + 1) >= Best(r, h, i, j + 1) + 1
            \/ Best(r, h, i + 1, j + 1) >= Best(r, h, i + 1, j) + 1
<1>0. i + 1 \in Nat /\ j + 1 \in Nat
  OBVIOUS
<1>1. /\ Best(r, h, i, j) \in Int /\ Best(r, h, i + 1, j) \in Int
      /\ Best(r, h, i, j + 1) \in Int /\ Best(r, h, i + 1, j + 1) \in Int
  BY <1>0, BestIs
<1>2. Best(r, h, i + 1, j + 1) <= Best(r, h, i, j) + Wronged(r, h, i + 1, j + 1)
  <2>1. PICK M \in Aligned(i, j) : Cost(r, h, i, j, M) = Best(r, h, i, j)
    BY BestIs
  <2>2. \E W \in Aligned(i + 1, j + 1) :
          Cost(r, h, i + 1, j + 1, W) = Best(r, h, i, j) + Wronged(r, h, i + 1, j + 1)
    <3>1. PICK p : p = <<i + 1, j + 1>>
      OBVIOUS
    <3>2. /\ M \cup {p} \in Aligned(i + 1, j + 1)
          /\ Cost(r, h, i + 1, j + 1, M \cup {p})
               = Cost(r, h, i, j, M) + Wronged(r, h, i + 1, j + 1)
      BY <3>1, Corner
    <3> QED
      BY <2>1, <3>2
  <2>3. \A W \in Aligned(i + 1, j + 1) :
          Best(r, h, i + 1, j + 1) <= Cost(r, h, i + 1, j + 1, W)
    BY <1>0, BestIs
  <2> QED
    BY <2>2, <2>3
<1>3. Best(r, h, i + 1, j + 1) <= Best(r, h, i, j + 1) + 1
  <2>1. PICK M \in Aligned(i, j + 1) : Cost(r, h, i, j + 1, M) = Best(r, h, i, j + 1)
    BY <1>0, BestIs
  <2>2. M \in Aligned(i + 1, j + 1) /\ Cost(r, h, i + 1, j + 1, M) = Best(r, h, i, j + 1) + 1
    BY <1>0, <2>1, Longer
  <2> QED
    BY <1>0, <2>2, BestIs
<1>4. Best(r, h, i + 1, j + 1) <= Best(r, h, i + 1, j) + 1
  <2>1. PICK M \in Aligned(i + 1, j) : Cost(r, h, i + 1, j, M) = Best(r, h, i + 1, j)
    BY <1>0, BestIs
  <2>2. M \in Aligned(i + 1, j + 1) /\ Cost(r, h, i + 1, j + 1, M) = Best(r, h, i + 1, j) + 1
    BY <1>0, <2>1, Longer
  <2> QED
    BY <1>0, <2>2, BestIs
<1>5. Best(r, h, i, j) <= Best(r, h, i, j + 1) + 1
  <2>1. PICK M \in Aligned(i, j + 1) : Cost(r, h, i, j + 1, M) = Best(r, h, i, j + 1)
    BY <1>0, BestIs
  <2>2. PICK W \in Aligned(i, j) : Cost(r, h, i, j, W) <= Best(r, h, i, j + 1) + 1
    BY <2>1, Shorter
  <2>3. Best(r, h, i, j) <= Cost(r, h, i, j, W) /\ Cost(r, h, i, j, W) \in Int
    BY BestIs, AlignedFinite, CostIsInt
  <2> QED
    BY <1>1, <2>2, <2>3
<1>6. Best(r, h, i, j) <= Best(r, h, i + 1, j) + 1
  <2>1. PICK M \in Aligned(i + 1, j) : Cost(r, h, i + 1, j, M) = Best(r, h, i + 1, j)
    BY <1>0, BestIs
  <2>2. PICK W \in Aligned(i, j) : Cost(r, h, i, j, W) <= Best(r, h, i + 1, j) + 1
    BY <2>1, Shorter
  <2>3. Best(r, h, i, j) <= Cost(r, h, i, j, W) /\ Cost(r, h, i, j, W) \in Int
    BY BestIs, AlignedFinite, CostIsInt
  <2> QED
    BY <1>1, <2>2, <2>3
<1>7. \/ Best(r, h, i + 1, j + 1) >= Best(r, h, i, j) + Wronged(r, h, i + 1, j + 1)
      \/ Best(r, h, i + 1, j + 1) >= Best(r, h, i, j + 1) + 1
      \/ Best(r, h, i + 1, j + 1) >= Best(r, h, i + 1, j) + 1
  <2>1. PICK M \in Aligned(i + 1, j + 1) :
          Cost(r, h, i + 1, j + 1, M) = Best(r, h, i + 1, j + 1)
    BY <1>0, BestIs
  <2>2. CASE \E W \in Aligned(i, j) :
          Cost(r, h, i + 1, j + 1, M) = Cost(r, h, i, j, W) + Wronged(r, h, i + 1, j + 1)
    <3>1. PICK W \in Aligned(i, j) :
            Cost(r, h, i + 1, j + 1, M) = Cost(r, h, i, j, W) + Wronged(r, h, i + 1, j + 1)
      BY <2>2
    <3>2. Best(r, h, i, j) <= Cost(r, h, i, j, W) /\ Cost(r, h, i, j, W) \in Int
      BY BestIs, AlignedFinite, CostIsInt
    <3>3. Wronged(r, h, i + 1, j + 1) \in Int
      BY DEF Wronged
    <3> QED
      BY <1>1, <2>1, <3>1, <3>2, <3>3
  <2>3. CASE M \in Aligned(i, j + 1)
    <3>1. Cost(r, h, i + 1, j + 1, M) = Cost(r, h, i, j + 1, M) + 1
      BY <1>0, <2>3, Longer
    <3>2. Best(r, h, i, j + 1) <= Cost(r, h, i, j + 1, M)
      BY <1>0, <2>3, BestIs
    <3>3. Cost(r, h, i, j + 1, M) \in Int
      BY <1>0, <2>3, AlignedFinite, CostIsInt
    <3> QED
      BY <1>1, <2>1, <3>1, <3>2, <3>3
  <2>4. CASE M \in Aligned(i + 1, j)
    <3>1. Cost(r, h, i + 1, j + 1, M) = Cost(r, h, i + 1, j, M) + 1
      BY <1>0, <2>4, Longer
    <3>2. Best(r, h, i + 1, j) <= Cost(r, h, i + 1, j, M)
      BY <1>0, <2>4, BestIs
    <3>3. Cost(r, h, i + 1, j, M) \in Int
      BY <1>0, <2>4, AlignedFinite, CostIsInt
    <3> QED
      BY <1>1, <2>1, <3>1, <3>2, <3>3
  <2> QED
    BY <2>2, <2>3, <2>4, NoCorner
<1> QED
  BY <1>2, <1>3, <1>4, <1>5, <1>6, <1>7

Grown(r, h, i, j) ==
  IF r[i + 1] = h[j + 1] THEN Best(r, h, i + 1, j + 1) = Best(r, h, i, j)
  ELSE Best(r, h, i + 1, j + 1)
         = 1 + Min({Best(r, h, i, j), Best(r, h, i, j + 1), Best(r, h, i + 1, j)})

LEMMA BestStep ==
  ASSUME NEW r, NEW h, NEW i \in Nat, NEW j \in Nat
  PROVE  Grown(r, h, i, j)
<1> DEFINE a == Best(r, h, i, j)
           b == Best(r, h, i, j + 1)
           c == Best(r, h, i + 1, j)
           e == Best(r, h, i + 1, j + 1)
           w == Wronged(r, h, i + 1, j + 1)
<1>1. a \in Int /\ b \in Int /\ c \in Int /\ e \in Int
  <2>1. i + 1 \in Nat /\ j + 1 \in Nat
    OBVIOUS
  <2> QED
    BY <2>1, BestIs
<1>2. /\ e <= a + w /\ e <= b + 1 /\ e <= c + 1 /\ a <= b + 1 /\ a <= c + 1
      /\ e >= a + w \/ e >= b + 1 \/ e >= c + 1
  BY BestBounds
<1>3. w = IF r[i + 1] = h[j + 1] THEN 0 ELSE 1
  BY DEF Wronged
<1> HIDE DEF a, b, c, e, w
<1>4. CASE r[i + 1] = h[j + 1]
  <2>1. e = a
    BY <1>1, <1>2, <1>3, <1>4
  <2> QED
    BY <1>4, <2>1 DEF e, a, Grown
<1>5. CASE r[i + 1] # h[j + 1]
  <2> DEFINE z == Min({a, b, c})
  <2>1. z \in {a, b, c} /\ z <= a /\ z <= b /\ z <= c
    BY <1>1, MinOfThree
  <2> HIDE DEF z
  <2>2. e = 1 + z
    BY <1>1, <1>2, <1>3, <1>5, <2>1
  <2> QED
    BY <1>5, <2>2 DEF a, b, c, e, z, Grown
<1> QED
  BY <1>4, <1>5

(* The table.  A cell of it is computed from those before it, *)
TableCell(r, h, d, c) ==
  IF c[1] = 0 \/ c[2] = 0 THEN c[1] + c[2]
  ELSE IF r[c[1]] = h[c[2]] THEN d[<<c[1] - 1, c[2] - 1>>]
  ELSE 1 + Scorer!Min({d[<<c[1] - 1, c[2] - 1>>], d[<<c[1] - 1, c[2]>>], d[<<c[1], c[2] - 1>>]})

(* and so is the cost of the cheapest way, *)
LEMMA BestFills ==
  ASSUME NEW r, NEW h, Len(r) \in Nat, Len(h) \in Nat, NEW d,
         NEW c \in Scorer!Cells(r, h),
         \A b \in Scorer!Cells(r, h) : b[1] + b[2] < c[1] + c[2] => d[b] = Best(r, h, b[1], b[2])
  PROVE  TableCell(r, h, d, c) = Best(r, h, c[1], c[2])
<1> DEFINE i == c[1] - 1
           j == c[2] - 1
<1>1. c[1] \in 0 .. Len(r) /\ c[2] \in 0 .. Len(h)
  BY DEF Scorer!Cells
<1>2. CASE c[1] = 0 \/ c[2] = 0
  <2>1. TableCell(r, h, d, c) = c[1] + c[2]
    BY <1>2 DEF TableCell
  <2> QED
    BY <1>1, <1>2, <2>1, BestStart
<1>3. CASE c[1] # 0 /\ c[2] # 0
  <2>1. i \in Nat /\ j \in Nat /\ c[1] = i + 1 /\ c[2] = j + 1
    BY <1>1, <1>3
  <2>2. /\ <<i, j>> \in Scorer!Cells(r, h) /\ <<i, j + 1>> \in Scorer!Cells(r, h)
        /\ <<i + 1, j>> \in Scorer!Cells(r, h)
    BY <1>1, <1>3 DEF Scorer!Cells
  <2> HIDE DEF i, j
  <2>3. /\ d[<<i, j>>] = Best(r, h, i, j) /\ d[<<i, j + 1>>] = Best(r, h, i, j + 1)
        /\ d[<<i + 1, j>>] = Best(r, h, i + 1, j)
    BY <2>1, <2>2
  <2>4. TableCell(r, h, d, c) =
          IF r[i + 1] = h[j + 1] THEN d[<<i, j>>]
          ELSE 1 + Min({d[<<i, j>>], d[<<i, j + 1>>], d[<<i + 1, j>>]})
    <3>1. c[1] - 1 = i /\ c[2] - 1 = j
      BY DEF i, j
    <3> QED
      BY <1>3, <2>1, <3>1, InScorer DEF TableCell
  <2>5. Grown(r, h, i, j)
    BY <2>1, BestStep
  <2>6. TableCell(r, h, d, c) = Best(r, h, i + 1, j + 1)
    BY <2>3, <2>4, <2>5 DEF Grown
  <2> QED
    BY <2>1, <2>6
<1> QED
  BY <1>1, <1>2, <1>3

(* and nothing else is. *)
LEMMA DistanceIs ==
  ASSUME NEW r, NEW h, Len(r) \in Nat, Len(h) \in Nat
  PROVE  \A c \in Scorer!Cells(r, h) : Scorer!Distance(r, h)[c] = Best(r, h, c[1], c[2])
<1> DEFINE C == Scorer!Cells(r, h)
           B == [c \in C |-> Best(r, h, c[1], c[2])]
           D == Scorer!Distance(r, h)
           L == Len(r) + Len(h)
           Good == {k \in 0 .. L : \A c \in C : c[1] + c[2] <= k => D[c] = Best(r, h, c[1], c[2])}
<1>1. \A c \in C : c[1] \in 0 .. Len(r) /\ c[2] \in 0 .. Len(h) /\ c[1] + c[2] \in 0 .. L
  BY DEF Scorer!Cells
<1>2. B = [c \in C |-> TableCell(r, h, B, c)]
  <2>1. \A b \in C : B[b] = Best(r, h, b[1], b[2])
    OBVIOUS
  <2> HIDE DEF B
  <2>2. \A c \in C : TableCell(r, h, B, c) = Best(r, h, c[1], c[2])
    BY <2>1, BestFills, SMTT(30)
  <2> QED
    BY <2>2 DEF B
<1>3. D = [c \in C |-> TableCell(r, h, D, c)]
  <2> HIDE DEF B
  <2> QED
    BY <1>2 DEF Scorer!Distance, TableCell
<1>4. \A c \in C : D[c] = TableCell(r, h, D, c)
  <2> HIDE DEF D
  <2> QED
    BY <1>3
<1>5. ASSUME NEW k \in Nat, k <= L,
             \A b \in C : b[1] + b[2] < k => D[b] = Best(r, h, b[1], b[2])
      PROVE  \A c \in C : c[1] + c[2] <= k => D[c] = Best(r, h, c[1], c[2])
  <2> SUFFICES ASSUME NEW c \in C, c[1] + c[2] <= k
               PROVE  D[c] = Best(r, h, c[1], c[2])
    OBVIOUS
  <2> HIDE DEF D
  <2>1. \A b \in C : b[1] + b[2] < c[1] + c[2] => b[1] + b[2] < k
    BY <1>1
  <2>2. TableCell(r, h, D, c) = Best(r, h, c[1], c[2])
    BY <1>5, <2>1, BestFills
  <2> QED
    BY <1>4, <2>2
<1> HIDE DEF D, C
<1>6. 0 \in Good
  <2>1. L \in Nat
    OBVIOUS
  <2>2. \A b \in C : ~ (b[1] + b[2] < 0)
    BY <1>1
  <2> QED
    BY <1>5, <2>1, <2>2
<1>7. ASSUME NEW k \in 0 .. (L - 1), k \in Good PROVE k + 1 \in Good
  <2>1. \A b \in C : b[1] + b[2] < k + 1 => b[1] + b[2] <= k
    BY <1>1
  <2>2. k + 1 \in Nat /\ k + 1 <= L /\ k + 1 \in 0 .. L
    OBVIOUS
  <2>3. \A b \in C : b[1] + b[2] < k + 1 => D[b] = Best(r, h, b[1], b[2])
    BY <1>7, <2>1
  <2> QED
    BY <1>5, <2>2, <2>3
<1>8. L \in Good
  <2>1. L \in Nat
    OBVIOUS
  <2> HIDE DEF Good, L
  <2>2. \A k \in 0 .. L : k \in Good
    BY <1>6, <1>7, <2>1, Trying!Upto
  <2> QED
    BY <2>1, <2>2
<1> QED
  BY <1>1, <1>8 DEF C, D

-----------------------------------------------------------------------------
(* The walk back.  What a step of it adds, *)
WalkCell(r, h, d, f, c) ==
  IF c[1] = 0 /\ c[2] = 0 THEN Scorer!NoErrors
  ELSE IF c[1] > 0 /\ c[2] > 0 /\ r[c[1]] = h[c[2]] THEN f[<<c[1] - 1, c[2] - 1>>]
  ELSE IF c[1] > 0 /\ c[2] > 0 /\ d[c] = d[<<c[1] - 1, c[2] - 1>>] + 1
  THEN [f[<<c[1] - 1, c[2] - 1>>] EXCEPT !.substitutions = @ + 1]
  ELSE IF c[1] > 0 /\ d[c] = d[<<c[1] - 1, c[2]>>] + 1
  THEN [f[<<c[1] - 1, c[2]>>] EXCEPT !.deletions = @ + 1]
  ELSE [f[<<c[1], c[2] - 1>>] EXCEPT !.insertions = @ + 1]

(* and where it comes from: a cell before it, whose distance is less by    *)
(* what is added.                                                          *)
Step(r, h, c, b, ahead, cost) ==
  /\ b \in Scorer!Cells(r, h) /\ b[1] + b[2] < c[1] + c[2]
  /\ c[1] - c[2] = b[1] - b[2] + ahead
  /\ Best(r, h, c[1], c[2]) = Best(r, h, b[1], b[2]) + cost

Kept(r, h, d, c, b) == \A f : WalkCell(r, h, d, f, c) = f[b]

Substituted(r, h, d, c, b) ==
  \A f : WalkCell(r, h, d, f, c) = [f[b] EXCEPT !.substitutions = @ + 1]

Deleted(r, h, d, c, b) ==
  \A f : WalkCell(r, h, d, f, c) = [f[b] EXCEPT !.deletions = @ + 1]

Inserted(r, h, d, c, b) ==
  \A f : WalkCell(r, h, d, f, c) = [f[b] EXCEPT !.insertions = @ + 1]

Comes(r, h, d, c, b) ==
  \/ Step(r, h, c, b, 0, 0) /\ Kept(r, h, d, c, b)
  \/ Step(r, h, c, b, 0, 1) /\ Substituted(r, h, d, c, b)
  \/ Step(r, h, c, b, 1, 1) /\ Deleted(r, h, d, c, b)
  \/ Step(r, h, c, b, -1, 1) /\ Inserted(r, h, d, c, b)

LEMMA WalkComes ==
  ASSUME NEW r, NEW h, Len(r) \in Nat, Len(h) \in Nat, NEW d,
         \A c \in Scorer!Cells(r, h) : d[c] = Best(r, h, c[1], c[2]),
         NEW c \in Scorer!Cells(r, h), ~ (c[1] = 0 /\ c[2] = 0)
  PROVE  \E b : Comes(r, h, d, c, b)
<1> DEFINE i == c[1]
           j == c[2]
           diag == <<i - 1, j - 1>>
           up == <<i - 1, j>>
           left == <<i, j - 1>>
           C == Scorer!Cells(r, h)
<1>1. i \in 0 .. Len(r) /\ j \in 0 .. Len(h)
  BY DEF Scorer!Cells
<1>2. /\ i > 0 /\ j > 0 => diag \in C
      /\ i > 0 => up \in C
      /\ j > 0 => left \in C
  BY <1>1 DEF Scorer!Cells
<1>3. diag[1] = i - 1 /\ diag[2] = j - 1 /\ up[1] = i - 1 /\ up[2] = j /\ left[1] = i /\ left[2] = j - 1
  OBVIOUS
<1>4. /\ d[c] = Best(r, h, i, j)
      /\ i > 0 /\ j > 0 => d[diag] = Best(r, h, i - 1, j - 1)
      /\ i > 0 => d[up] = Best(r, h, i - 1, j)
      /\ j > 0 => d[left] = Best(r, h, i, j - 1)
  <2> HIDE DEF C, diag, up, left
  <2> QED
    BY <1>2, <1>3 DEF C
<1>5. i > 0 /\ j > 0 =>
        IF r[i] = h[j] THEN Best(r, h, i, j) = Best(r, h, i - 1, j - 1)
        ELSE Best(r, h, i, j)
               = 1 + Min({Best(r, h, i - 1, j - 1), Best(r, h, i - 1, j), Best(r, h, i, j - 1)})
  <2> SUFFICES ASSUME i > 0, j > 0
               PROVE  IF r[i] = h[j] THEN Best(r, h, i, j) = Best(r, h, i - 1, j - 1)
                      ELSE Best(r, h, i, j)
                             = 1 + Min({Best(r, h, i - 1, j - 1), Best(r, h, i - 1, j), Best(r, h, i, j - 1)})
    OBVIOUS
  <2>1. PICK a \in Nat : i = a + 1 /\ i - 1 = a
    BY <1>1
  <2>2. PICK b \in Nat : j = b + 1 /\ j - 1 = b
    BY <1>1
  <2> HIDE DEF i, j
  <2>3. Grown(r, h, a, b)
    BY BestStep
  <2> QED
    BY <2>1, <2>2, <2>3 DEF Grown
<1>6. /\ i = 0 => Best(r, h, i, j) = j
      /\ j = 0 => Best(r, h, i, j) = i
      /\ i = 0 /\ j > 0 => Best(r, h, i, j - 1) = j - 1
      /\ j = 0 /\ i > 0 => Best(r, h, i - 1, j) = i - 1
  <2>1. i \in Nat /\ j \in Nat /\ (j > 0 => j - 1 \in Nat) /\ (i > 0 => i - 1 \in Nat)
    BY <1>1
  <2> HIDE DEF i, j
  <2> QED
    BY <2>1, BestStart
<1>7. CASE i > 0 /\ j > 0 /\ r[i] = h[j]
  <2>1. Kept(r, h, d, c, diag)
    BY <1>7 DEF WalkCell, Kept
  <2>3. Best(r, h, c[1], c[2]) \in Int /\ Best(r, h, i - 1, j - 1) \in Int
    <3>1. i \in Nat /\ j \in Nat /\ i - 1 \in Nat /\ j - 1 \in Nat
      BY <1>1, <1>7
    <3> QED
      BY <3>1, BestIs
  <2>2. Step(r, h, c, diag, 0, 0)
    <3>1. diag \in C /\ diag[1] + diag[2] < i + j /\ i - j = diag[1] - diag[2] + 0
      BY <1>1, <1>2, <1>3, <1>7, SMTT(30)
    <3>2. Best(r, h, i, j) = Best(r, h, diag[1], diag[2]) + 0
      BY <1>3, <1>5, <1>7, <2>3
    <3> QED
      BY <3>1, <3>2 DEF Step
  <2> QED
    BY <2>1, <2>2 DEF Comes
<1>8. CASE i > 0 /\ j > 0 /\ r[i] # h[j] /\ d[c] = d[diag] + 1
  <2>1. Substituted(r, h, d, c, diag)
    BY <1>1, <1>8 DEF WalkCell, Substituted
  <2>2. Step(r, h, c, diag, 0, 1)
    <3>0. i > 0 /\ j > 0
      BY <1>8
    <3>1. diag \in C /\ diag[1] + diag[2] < i + j /\ i - j = diag[1] - diag[2] + 0
      BY <1>1, <1>2, <1>3, <3>0
    <3>2. Best(r, h, i, j) = Best(r, h, diag[1], diag[2]) + 1
      BY <1>3, <1>4, <1>8
    <3> QED
      BY <3>1, <3>2 DEF Step
  <2> QED
    BY <2>1, <2>2 DEF Comes
<1>9. CASE /\ i > 0 /\ ~ (j > 0 /\ r[i] = h[j]) /\ ~ (j > 0 /\ d[c] = d[diag] + 1)
           /\ d[c] = d[up] + 1
  <2>1. Deleted(r, h, d, c, up)
    BY <1>1, <1>9 DEF WalkCell, Deleted
  <2>2. Step(r, h, c, up, 1, 1)
    BY <1>1, <1>2, <1>3, <1>4, <1>9, SMTT(30) DEF Step
  <2> QED
    BY <2>1, <2>2 DEF Comes
<1>10. CASE /\ ~ (i > 0 /\ j > 0 /\ r[i] = h[j]) /\ ~ (i > 0 /\ j > 0 /\ d[c] = d[diag] + 1)
            /\ ~ (i > 0 /\ d[c] = d[up] + 1)
  <2>1. Inserted(r, h, d, c, left)
    BY <1>1, <1>10 DEF WalkCell, Inserted
  <2>2. j > 0
    <3> SUFFICES ASSUME ~ (j > 0) PROVE FALSE
      OBVIOUS
    <3>1. j = 0 /\ i > 0 /\ i \in Nat
      BY <1>1
    <3> QED
      BY <1>4, <1>6, <1>10, <3>1
  <2>3. Best(r, h, i, j) = Best(r, h, i, j - 1) + 1
    <3>1. CASE i = 0
      BY <1>1, <1>6, <2>2, <3>1
    <3>2. CASE i > 0
      <4> DEFINE x == Best(r, h, i - 1, j - 1)
                 y == Best(r, h, i - 1, j)
                 z == Best(r, h, i, j - 1)
                 e == Best(r, h, i, j)
      <4>1. x \in Int /\ y \in Int /\ z \in Int
        <5>1. i \in Nat /\ j \in Nat /\ i - 1 \in Nat /\ j - 1 \in Nat
          BY <1>1, <2>2, <3>2
        <5> QED
          BY <5>1, BestIs
      <4>2. e = 1 + Min({x, y, z})
        BY <1>5, <1>10, <2>2, <3>2
      <4>3. e # x + 1 /\ e # y + 1
        BY <1>4, <1>10, <2>2, <3>2
      <4> HIDE DEF x, y, z, e
      <4>4. Min({x, y, z}) \in {x, y, z}
        BY <4>1, MinOfThree
      <4>5. e = 1 + z
        BY <4>1, <4>2, <4>3, <4>4
      <4> QED
        BY <4>1, <4>5 DEF z, e
    <3> QED
      BY <1>1, <3>1, <3>2
  <2>4. Step(r, h, c, left, -1, 1)
    BY <1>1, <1>2, <1>3, <2>2, <2>3 DEF Step
  <2> QED
    BY <2>1, <2>4 DEF Comes
<1> QED
  BY <1>1, <1>7, <1>8, <1>9, <1>10

(* The counts of every cell up to the k-th diagonal exist,                 *)
Upto(r, h, k) == {c \in Scorer!Cells(r, h) : c[1] + c[2] <= k}

Walks(r, h, d, S, f) == f = [c \in S |-> WalkCell(r, h, d, f, c)]

LEMMA WalkGrows ==
  ASSUME NEW r, NEW h, Len(r) \in Nat, Len(h) \in Nat, NEW d,
         \A c \in Scorer!Cells(r, h) : d[c] = Best(r, h, c[1], c[2]),
         NEW k \in Nat, NEW f, Walks(r, h, d, Upto(r, h, k), f)
  PROVE  \E g : Walks(r, h, d, Upto(r, h, k + 1), g)
<1> DEFINE C == Scorer!Cells(r, h)
           S == Upto(r, h, k)
           T == Upto(r, h, k + 1)
           g == [c \in T |-> WalkCell(r, h, d, f, c)]
<1>1. \A c \in C : c[1] \in Nat /\ c[2] \in Nat
  BY DEF Scorer!Cells
<1>2. S \subseteq T /\ T \subseteq C
  BY <1>1 DEF Upto
<1>3. \A c \in S : f[c] = WalkCell(r, h, d, f, c)
  <2> HIDE DEF S
  <2> QED
    BY DEF Walks, S
<1>4. \A c \in S : g[c] = f[c]
  BY <1>2, <1>3
<1>5. \A c \in T : g[c] = WalkCell(r, h, d, f, c)
  OBVIOUS
<1> HIDE DEF g
<1>6. ASSUME NEW c \in T PROVE WalkCell(r, h, d, f, c) = WalkCell(r, h, d, g, c)
  <2>1. CASE c[1] = 0 /\ c[2] = 0
    BY <2>1 DEF WalkCell
  <2>2. CASE ~ (c[1] = 0 /\ c[2] = 0)
    <3>1. PICK b : Comes(r, h, d, c, b)
      BY <1>2, <2>2, WalkComes
    <3>2. b \in S
      <4>1. b \in C /\ b[1] + b[2] < c[1] + c[2]
        BY <3>1 DEF Comes, Step
      <4>2. c[1] + c[2] <= k + 1
        BY DEF Upto
      <4> QED
        BY <1>1, <1>2, <4>1, <4>2 DEF Upto
    <3>3. f[b] = g[b]
      BY <1>4, <3>2
    <3> QED
      BY <3>1, <3>3 DEF Comes, Kept, Substituted, Deleted, Inserted
  <2> QED
    BY <2>1, <2>2
<1>7. Walks(r, h, d, T, g)
  BY <1>6 DEF Walks, g
<1> QED
  BY <1>7

(* and so do those of the whole table.                                     *)
LEMMA WalkExists ==
  ASSUME NEW r, NEW h, Len(r) \in Nat, Len(h) \in Nat, NEW d,
         \A c \in Scorer!Cells(r, h) : d[c] = Best(r, h, c[1], c[2])
  PROVE  \E f : Walks(r, h, d, Scorer!Cells(r, h), f)
<1> DEFINE C == Scorer!Cells(r, h)
           L == Len(r) + Len(h)
           Good == {k \in 0 .. L : \E f : Walks(r, h, d, Upto(r, h, k), f)}
<1>1. \A c \in C : c[1] \in Nat /\ c[2] \in Nat /\ c[1] + c[2] <= L
  BY DEF Scorer!Cells
<1>2. 0 \in Good
  <2> DEFINE f == [c \in Upto(r, h, 0) |-> Scorer!NoErrors]
  <2>1. \A c \in Upto(r, h, 0) : c[1] = 0 /\ c[2] = 0
    BY <1>1 DEF Upto
  <2>2. \A c \in Upto(r, h, 0) : WalkCell(r, h, d, f, c) = Scorer!NoErrors
    BY <2>1 DEF WalkCell
  <2>3. Walks(r, h, d, Upto(r, h, 0), f)
    BY <2>2 DEF Walks
  <2> QED
    BY <2>3
<1>3. ASSUME NEW k \in 0 .. (L - 1), k \in Good PROVE k + 1 \in Good
  <2>1. PICK f : Walks(r, h, d, Upto(r, h, k), f)
    BY <1>3
  <2>2. \E g : Walks(r, h, d, Upto(r, h, k + 1), g)
    BY <2>1, WalkGrows
  <2> QED
    BY <2>2
<1>4. L \in Good
  <2>1. L \in Nat
    OBVIOUS
  <2> HIDE DEF Good, L
  <2>2. \A k \in 0 .. L : k \in Good
    BY <1>2, <1>3, <2>1, Trying!Upto
  <2> QED
    BY <2>1, <2>2
<1>5. Upto(r, h, L) = C
  BY <1>1 DEF Upto
<1> QED
  BY <1>4, <1>5

(* Whatever the counts are: as many errors as the distance says, and the   *)
(* difference in length.                                                   *)
Counts == [substitutions : Nat, deletions : Nat, insertions : Nat]

Sum(e) == e.substitutions + e.deletions + e.insertions

Tallied(r, h, c, e) ==
  /\ e \in Counts
  /\ Sum(e) = Best(r, h, c[1], c[2])
  /\ e.deletions - e.insertions = c[1] - c[2]

LEMMA OneMore ==
  ASSUME NEW o \in Counts
  PROVE  /\ LET e == [o EXCEPT !.substitutions = @ + 1] IN
            /\ e \in Counts /\ Sum(e) = Sum(o) + 1
            /\ e.deletions - e.insertions = o.deletions - o.insertions
         /\ LET e == [o EXCEPT !.deletions = @ + 1] IN
            /\ e \in Counts /\ Sum(e) = Sum(o) + 1
            /\ e.deletions - e.insertions = o.deletions - o.insertions + 1
         /\ LET e == [o EXCEPT !.insertions = @ + 1] IN
            /\ e \in Counts /\ Sum(e) = Sum(o) + 1
            /\ e.deletions - e.insertions = o.deletions - o.insertions - 1
<1>1. o.substitutions \in Nat /\ o.deletions \in Nat /\ o.insertions \in Nat
  BY DEF Counts
<1>2. DOMAIN o = {"substitutions", "deletions", "insertions"}
  BY DEF Counts
<1>3. LET e == [o EXCEPT !.substitutions = @ + 1] IN
     /\ e \in Counts /\ Sum(e) = Sum(o) + 1
     /\ e.deletions - e.insertions = o.deletions - o.insertions
  <2> DEFINE e == [o EXCEPT !.substitutions = @ + 1]
  <2>1. e \in Counts
    BY <1>1 DEF Counts
  <2>2. /\ e.substitutions = o.substitutions + 1
        /\ e.deletions = o.deletions
        /\ e.insertions = o.insertions
    BY <1>2
  <2> HIDE DEF e
  <2>3. Sum(e) = Sum(o) + 1
    BY <1>1, <2>2 DEF Sum
  <2>4. e.deletions - e.insertions = o.deletions - o.insertions
    BY <1>1, <2>2
  <2> QED
    BY <2>1, <2>3, <2>4 DEF e
<1>4. LET e == [o EXCEPT !.deletions = @ + 1] IN
     /\ e \in Counts /\ Sum(e) = Sum(o) + 1
     /\ e.deletions - e.insertions = o.deletions - o.insertions + 1
  <2> DEFINE e == [o EXCEPT !.deletions = @ + 1]
  <2>1. e \in Counts
    BY <1>1 DEF Counts
  <2>2. /\ e.substitutions = o.substitutions
        /\ e.deletions = o.deletions + 1
        /\ e.insertions = o.insertions
    BY <1>2
  <2> HIDE DEF e
  <2>3. Sum(e) = Sum(o) + 1
    BY <1>1, <2>2 DEF Sum
  <2>4. e.deletions - e.insertions = o.deletions - o.insertions + 1
    BY <1>1, <2>2
  <2> QED
    BY <2>1, <2>3, <2>4 DEF e
<1>5. LET e == [o EXCEPT !.insertions = @ + 1] IN
     /\ e \in Counts /\ Sum(e) = Sum(o) + 1
     /\ e.deletions - e.insertions = o.deletions - o.insertions - 1
  <2> DEFINE e == [o EXCEPT !.insertions = @ + 1]
  <2>1. e \in Counts
    BY <1>1 DEF Counts
  <2>2. /\ e.substitutions = o.substitutions
        /\ e.deletions = o.deletions
        /\ e.insertions = o.insertions + 1
    BY <1>2
  <2> HIDE DEF e
  <2>3. Sum(e) = Sum(o) + 1
    BY <1>1, <2>2 DEF Sum
  <2>4. e.deletions - e.insertions = o.deletions - o.insertions - 1
    BY <1>1, <2>2
  <2> QED
    BY <2>1, <2>3, <2>4 DEF e
<1> QED
  BY <1>3, <1>4, <1>5

LEMMA WalkCounts ==
  ASSUME NEW r, NEW h, Len(r) \in Nat, Len(h) \in Nat, NEW d,
         \A c \in Scorer!Cells(r, h) : d[c] = Best(r, h, c[1], c[2]),
         NEW f, NEW c \in Scorer!Cells(r, h),
         \A b \in Scorer!Cells(r, h) : b[1] + b[2] < c[1] + c[2] => Tallied(r, h, b, f[b])
  PROVE  Tallied(r, h, c, WalkCell(r, h, d, f, c))
<1> DEFINE e == WalkCell(r, h, d, f, c)
<1>1. CASE c[1] = 0 /\ c[2] = 0
  <2>1. e = [substitutions |-> 0, deletions |-> 0, insertions |-> 0]
    BY <1>1 DEF WalkCell, Scorer!NoErrors
  <2>2. Best(r, h, c[1], c[2]) = 0
    BY <1>1, BestStart
  <2> HIDE DEF e
  <2>3. e \in Counts
    BY <2>1 DEF Counts
  <2>4. Sum(e) = 0 /\ e.deletions - e.insertions = 0
    BY <2>1 DEF Sum
  <2> QED
    BY <1>1, <2>2, <2>3, <2>4 DEF Tallied, e
<1>2. CASE ~ (c[1] = 0 /\ c[2] = 0)
  <2>1. PICK b : Comes(r, h, d, c, b)
    BY <1>2, WalkComes
  <2>2. b \in Scorer!Cells(r, h) /\ b[1] + b[2] < c[1] + c[2]
    BY <2>1 DEF Comes, Step
  <2>3. b[1] \in Int /\ b[2] \in Int /\ c[1] \in Int /\ c[2] \in Int
    BY <2>2 DEF Scorer!Cells
  <2> DEFINE o == f[b]
  <2>4. Tallied(r, h, b, o)
    BY <2>2
  <2>5. /\ o \in Counts /\ Sum(o) = Best(r, h, b[1], b[2])
        /\ o.deletions - o.insertions = b[1] - b[2]
    BY <2>4 DEF Tallied
  <2>6. Sum(o) \in Int
    BY <2>5 DEF Counts, Sum
  <2>7. CASE Step(r, h, c, b, 0, 0) /\ Kept(r, h, d, c, b)
    <3>1. e = o
      BY <2>7 DEF Kept
    <3>2. /\ c[1] - c[2] = b[1] - b[2]
          /\ Best(r, h, c[1], c[2]) = Best(r, h, b[1], b[2])
      BY <2>3, <2>5, <2>6, <2>7 DEF Step
    <3> HIDE DEF e, o
    <3> QED
      BY <2>5, <3>1, <3>2 DEF Tallied, e
  <2>8. CASE Step(r, h, c, b, 0, 1) /\ Substituted(r, h, d, c, b)
    <3>1. e = [o EXCEPT !.substitutions = @ + 1]
      BY <2>8 DEF Substituted
    <3>2. /\ c[1] - c[2] = b[1] - b[2]
          /\ Best(r, h, c[1], c[2]) = Best(r, h, b[1], b[2]) + 1
      BY <2>3, <2>5, <2>6, <2>8 DEF Step
    <3> HIDE DEF e, o
    <3>3. /\ e \in Counts /\ Sum(e) = Sum(o) + 1
          /\ e.deletions - e.insertions = o.deletions - o.insertions
      BY <2>5, <3>1, OneMore
    <3> QED
      BY <2>5, <3>2, <3>3 DEF Tallied, e
  <2>9. CASE Step(r, h, c, b, 1, 1) /\ Deleted(r, h, d, c, b)
    <3>1. e = [o EXCEPT !.deletions = @ + 1]
      BY <2>9 DEF Deleted
    <3>2. /\ c[1] - c[2] = b[1] - b[2] + 1
          /\ Best(r, h, c[1], c[2]) = Best(r, h, b[1], b[2]) + 1
      BY <2>3, <2>5, <2>6, <2>9 DEF Step
    <3> HIDE DEF e, o
    <3>3. /\ e \in Counts /\ Sum(e) = Sum(o) + 1
          /\ e.deletions - e.insertions = o.deletions - o.insertions + 1
      BY <2>5, <3>1, OneMore
    <3> QED
      BY <2>5, <3>2, <3>3 DEF Tallied, e
  <2>10. CASE Step(r, h, c, b, -1, 1) /\ Inserted(r, h, d, c, b)
    <3>1. e = [o EXCEPT !.insertions = @ + 1]
      BY <2>10 DEF Inserted
    <3>2. /\ c[1] - c[2] = b[1] - b[2] - 1
          /\ Best(r, h, c[1], c[2]) = Best(r, h, b[1], b[2]) + 1
      BY <2>3, <2>5, <2>6, <2>10 DEF Step
    <3> HIDE DEF e, o
    <3>3. /\ e \in Counts /\ Sum(e) = Sum(o) + 1
          /\ e.deletions - e.insertions = o.deletions - o.insertions - 1
      BY <2>5, <3>1, OneMore
    <3> QED
      BY <2>5, <3>2, <3>3 DEF Tallied, e
  <2> QED
    BY <2>1, <2>7, <2>8, <2>9, <2>10 DEF Comes
<1> QED
  BY <1>1, <1>2

LEMMA WalkedCounts ==
  ASSUME NEW r, NEW h, Len(r) \in Nat, Len(h) \in Nat
  PROVE  Tallied(r, h, <<Len(r), Len(h)>>, Scorer!Walked(r, h))
<1> DEFINE C == Scorer!Cells(r, h)
           D == Scorer!Distance(r, h)
           corner == <<Len(r), Len(h)>>
           L == Len(r) + Len(h)
<1>1. \A c \in C : D[c] = Best(r, h, c[1], c[2])
  BY DistanceIs
<1>2. \E f : f = [c \in C |-> WalkCell(r, h, D, f, c)]
  <2> HIDE DEF D
  <2>1. \E f : Walks(r, h, D, C, f)
    BY <1>1, WalkExists
  <2> QED
    BY <2>1 DEF Walks
<1>3. PICK f : f = [c \in C |-> WalkCell(r, h, D, f, c)] /\ Scorer!Walked(r, h) = f[corner]
  <2> DEFINE back == CHOOSE f : f = [c \in C |-> WalkCell(r, h, D, f, c)]
  <2>1. Scorer!Walked(r, h) = back[corner]
    BY DEF Scorer!Walked, WalkCell
  <2>2. back = [c \in C |-> WalkCell(r, h, D, back, c)]
    <3> HIDE DEF C, D
    <3> QED
      BY <1>2
  <2> QED
    BY <2>1, <2>2
<1>4. \A c \in C : f[c] = WalkCell(r, h, D, f, c)
  <2> HIDE DEF D, C
  <2> QED
    BY <1>3
<1> DEFINE Good == {k \in 0 .. L : \A c \in C : c[1] + c[2] <= k => Tallied(r, h, c, f[c])}
<1>5. \A c \in C : c[1] \in Nat /\ c[2] \in Nat /\ c[1] + c[2] <= L
  BY DEF Scorer!Cells
<1>6. ASSUME NEW k \in Nat, \A b \in C : b[1] + b[2] < k => Tallied(r, h, b, f[b])
      PROVE  \A c \in C : c[1] + c[2] <= k => Tallied(r, h, c, f[c])
  <2> SUFFICES ASSUME NEW c \in C, c[1] + c[2] <= k PROVE Tallied(r, h, c, f[c])
    OBVIOUS
  <2> HIDE DEF D
  <2>1. \A b \in C : b[1] + b[2] < c[1] + c[2] => Tallied(r, h, b, f[b])
    BY <1>5, <1>6
  <2>2. Tallied(r, h, c, WalkCell(r, h, D, f, c))
    BY <1>1, <2>1, WalkCounts
  <2> QED
    BY <1>4, <2>2
<1> HIDE DEF D, C
<1>7. 0 \in Good
  <2>1. \A b \in C : ~ (b[1] + b[2] < 0)
    BY <1>5
  <2> QED
    BY <1>6, <2>1
<1>8. ASSUME NEW k \in 0 .. (L - 1), k \in Good PROVE k + 1 \in Good
  <2>1. \A b \in C : b[1] + b[2] < k + 1 => b[1] + b[2] <= k
    BY <1>5
  <2>2. \A b \in C : b[1] + b[2] < k + 1 => Tallied(r, h, b, f[b])
    BY <1>8, <2>1
  <2> QED
    BY <1>6, <2>2
<1>9. L \in Good
  <2>1. L \in Nat
    OBVIOUS
  <2> HIDE DEF Good, L
  <2>2. \A k \in 0 .. L : k \in Good
    BY <1>7, <1>8, <2>1, Trying!Upto
  <2> QED
    BY <2>1, <2>2
<1>10. corner \in C
  BY DEF Scorer!Cells, C
<1>11. Tallied(r, h, corner, f[corner])
  <2> HIDE DEF corner
  <2> QED
    BY <1>5, <1>9, <1>10
<1> QED
  BY <1>3, <1>11

LEMMA WalkedIsTheDistance ==
  ASSUME NEW r, NEW h, Len(r) \in Nat, Len(h) \in Nat
  PROVE  LET e == Scorer!Walked(r, h) IN
         /\ Scorer!Errors(e) = Scorer!EditDistance(r, h)
         /\ e.deletions - e.insertions = Len(r) - Len(h)
<1> DEFINE e == Scorer!Walked(r, h)
           corner == <<Len(r), Len(h)>>
<1>1. Scorer!EditDistance(r, h) = Best(r, h, Len(r), Len(h))
  BY InScorer DEF Scorer!EditDistance, Best, Costs, Cost, Wrong, Aligned, Grid
<1>2. Tallied(r, h, corner, e)
  BY WalkedCounts
<1>3. corner[1] = Len(r) /\ corner[2] = Len(h)
  OBVIOUS
<1> HIDE DEF e, corner
<1>4. Scorer!Errors(e) = Best(r, h, Len(r), Len(h))
  BY <1>2, <1>3 DEF Tallied, Sum, Scorer!Errors
<1> QED
  BY <1>1, <1>2, <1>3, <1>4 DEF Tallied, e

(* What is dictated is a sequence of words. *)
Dictated(s) == \E S : s \in Seq(S)

LEMMA DictateNext ==
  ASSUME Dictated(ref), Dictated(hyp), [TextNext]_textVars
  PROVE  Dictated(ref') /\ Dictated(hyp')
<1>1. ASSUME NEW s, Dictated(s), NEW w PROVE Dictated(Append(s, w))
  <2>1. PICK S : s \in Seq(S)
    BY <1>1 DEF Dictated
  <2>2. s \in Seq(S \cup {w}) /\ w \in S \cup {w}
    BY <2>1
  <2>3. Append(s, w) \in Seq(S \cup {w})
    BY <2>2
  <2> QED
    BY <2>3 DEF Dictated
<1>2. CASE UNCHANGED <<ref, hyp>>
  BY <1>2
<1>3. CASE Dictate
  BY <1>1, <1>3 DEF Dictate
<1>4. CASE Spell
  BY <1>1, <1>4 DEF Spell
<1> QED
  BY <1>2, <1>3, <1>4 DEF TextNext, textVars

(* wer.py:181-216, ErrorsAreTheDistance for texts of any length: the table *)
(* holds the least cost of pairing the words off in order, and the walk    *)
(* back through it tells apart as many errors as that, of which deletions  *)
(* and insertions account for the difference in length.                    *)
THEOREM CountsTheDistance == TextSpec => []ErrorsAreTheDistance
<1>1. TextInit => Dictated(ref) /\ Dictated(hyp)
  <2>1. <<>> \in Seq({})
    OBVIOUS
  <2>2. TextInit => ref = <<>> /\ hyp = <<>>
    BY DEF TextInit
  <2> QED
    BY <2>1, <2>2 DEF Dictated
<1>2. Dictated(ref) /\ Dictated(hyp) /\ [TextNext]_textVars
        => (Dictated(ref) /\ Dictated(hyp))'
  BY DictateNext DEF Dictated
<1>3. Dictated(ref) /\ Dictated(hyp) => ErrorsAreTheDistance
  <2> SUFFICES ASSUME Dictated(ref), Dictated(hyp) PROVE ErrorsAreTheDistance
    OBVIOUS
  <2>1. Len(ref) \in Nat /\ Len(hyp) \in Nat
    BY DEF Dictated
  <2> QED
    BY <2>1, WalkedIsTheDistance DEF ErrorsAreTheDistance
<1> QED
  BY <1>1, <1>2, <1>3, PTL DEF TextSpec

=============================================================================
