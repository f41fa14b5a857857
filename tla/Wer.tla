-------------------------------- MODULE Wer --------------------------------
(***************************************************************************)
(* wer.py: word error rate.  Both sides are spelled out first (figures are *)
(* said back, signs become words, conventions are folded together), then   *)
(* aligned.  Texts are the tokens of Itn; what is compared is words.       *)
(***************************************************************************)
EXTENDS Integers, SequencesExt

UNITS == <<"zero", "one", "two", "three", "four", "five", "six", "seven",
           "eight", "nine", "ten", "eleven", "twelve", "thirteen", "fourteen",
           "fifteen", "sixteen", "seventeen", "eighteen", "nineteen">>
TENS  == <<"", "twenty", "thirty", "forty", "fifty", "sixty", "seventy", "eighty",
           "ninety">>
EQUIVALENTS == [mr |-> "mister", mrs |-> "missus", dr |-> "doctor", st |-> "saint",
                ok |-> "okay"] @@ ("'em" :> "them")
ORDINAL_WORDS == 1 :> "first" @@ 2 :> "second" @@ 3 :> "third" @@ 5 :> "fifth" @@
                 8 :> "eighth" @@ 9 :> "ninth" @@ 12 :> "twelfth"

\* The suffix a cardinal's last word takes otherwise: -th, or -ieth for -y.
Suffixed == [zero |-> "zeroth", four |-> "fourth", six |-> "sixth",
             seven |-> "seventh", ten |-> "tenth", eleven |-> "eleventh",
             thirteen |-> "thirteenth", fourteen |-> "fourteenth",
             sixteen |-> "sixteenth", seventeen |-> "seventeenth",
             twenty |-> "twentieth", thirty |-> "thirtieth", forty |-> "fortieth",
             fifty |-> "fiftieth", sixty |-> "sixtieth", seventy |-> "seventieth",
             eighty |-> "eightieth", ninety |-> "ninetieth",
             hundred |-> "hundredth", thousand |-> "thousandth",
             million |-> "millionth", billion |-> "billionth"]

-----------------------------------------------------------------------------
(* n < 1000, as words; nothing for zero. *)
SayGroup(n) ==
  LET below == n % 100
  IN  (IF n < 100 THEN <<>> ELSE <<UNITS[(n \div 100) + 1], "hundred">>)
      \o CASE below = 0 -> <<>>
           [] below \in 1 .. 19 -> <<UNITS[below + 1]>>
           [] below >= 20 -> <<TENS[below \div 10]>>
                \o (IF below % 10 = 0 THEN <<>> ELSE <<UNITS[(below % 10) + 1]>>)

SayNumber(n) ==
  LET scaled(scale, name) ==
        LET group == (n \div scale) % 1000 IN
        IF group = 0 THEN <<>> ELSE SayGroup(group) \o <<name>>
  IN  IF n = 0 THEN <<"zero">>
      ELSE scaled(1000000000, "billion") \o scaled(1000000, "million")
           \o scaled(1000, "thousand") \o SayGroup(n % 1000)

SayOrdinal(n) ==
  LET cardinal == SayNumber(n)
      irregular == n % 100 \notin {11, 12, 13} /\ n % 10 \in DOMAIN ORDINAL_WORDS
      last == IF irregular THEN ORDINAL_WORDS[n % 10] ELSE Suffixed[Last(cardinal)]
  IN  IF n \in DOMAIN ORDINAL_WORDS THEN <<ORDINAL_WORDS[n]>>
      ELSE Front(cardinal) \o <<last>>

(* A token said back out.  The pound and the euro sign are punctuation     *)
(* here, and vanish.                                                       *)
MutSpelled(t) ==
  CASE t.word = "#" -> SayNumber(t.figure) \o (IF "%" \in t.signs THEN <<"percent">> ELSE <<>>)
    [] t.word = "#th" -> SayNumber(t.figure)
    [] t.word \notin {"#", "#th"} -> <<t.word>>

Spelled(t) ==
  CASE t.word = "#" -> (IF "$" \in t.signs THEN <<"dollars">> ELSE <<>>) \o SayNumber(t.figure)
                       \o (IF "%" \in t.signs THEN <<"percent">> ELSE <<>>)
    [] t.word = "#th" -> SayOrdinal(t.figure)
    [] t.word \notin {"#", "#th"} -> <<t.word>>

NumberWords ==
  UNION {Range(UNITS), Range(TENS) \ {""}, Range(ORDINAL_WORDS),
         {"hundred", "thousand", "million", "billion"}}

(* The "and" between two number words is a convention, not a word. *)
DropNumberAnd(words) ==
  LET convention(i) == /\ words[i] = "and" /\ i > 1 /\ i < Len(words)
                       /\ words[i - 1] \in NumberWords /\ words[i + 1] \in NumberWords
      kept == SelectSeq([i \in DOMAIN words |-> i], LAMBDA i : ~convention(i))
  IN  [k \in DOMAIN kept |-> words[kept[k]]]

Normalise(text) ==
  LET words == FlattenSeq([i \in DOMAIN text |-> Spelled(text[i])])
  IN  DropNumberAnd([i \in DOMAIN words |->
        IF words[i] \in DOMAIN EQUIVALENTS THEN EQUIVALENTS[words[i]] ELSE words[i]])

-----------------------------------------------------------------------------
(* The table of distances between every prefix of ref and every prefix of  *)
(* hyp.                                                                    *)
Cells(ref, hyp) == (0 .. Len(ref)) \X (0 .. Len(hyp))

MutDistance(ref, hyp) ==
  LET d[c \in Cells(ref, hyp)] ==
        LET i == c[1]
            j == c[2]
        IN  IF i = 0 \/ j = 0 THEN i + j
            ELSE IF ref[i] = hyp[j] THEN d[<<i - 1, j - 1>>]
            ELSE 1 + Min({d[<<i - 1, j>>], d[<<i, j - 1>>]})
  IN  d

Distance(ref, hyp) ==
  LET d[c \in Cells(ref, hyp)] ==
        LET i == c[1]
            j == c[2]
        IN  IF i = 0 \/ j = 0 THEN i + j
            ELSE IF ref[i] = hyp[j] THEN d[<<i - 1, j - 1>>]
            ELSE 1 + Min({d[<<i - 1, j - 1>>], d[<<i - 1, j>>], d[<<i, j - 1>>]})
  IN  d

(* The table walked back from its corner, which tells substitutions,       *)
(* deletions and insertions apart.                                         *)
NoErrors == [substitutions |-> 0, deletions |-> 0, insertions |-> 0]

MutWalked(ref, hyp) ==
  LET d == Distance(ref, hyp)
      back[c \in Cells(ref, hyp)] ==
        LET i == c[1]
            j == c[2]
        IN  IF i = 0 /\ j = 0 THEN NoErrors
            ELSE IF i > 0 /\ j > 0 /\ ref[i] = hyp[j] THEN back[<<i - 1, j - 1>>]
            ELSE IF i > 0 /\ j > 0
            THEN [back[<<i - 1, j - 1>>] EXCEPT !.substitutions = @ + 1]
            ELSE IF i > 0
            THEN [back[<<i - 1, j>>] EXCEPT !.deletions = @ + 1]
            ELSE [back[<<i, j - 1>>] EXCEPT !.insertions = @ + 1]
  IN  back[<<Len(ref), Len(hyp)>>]

Walked(ref, hyp) ==
  LET d == Distance(ref, hyp)
      back[c \in Cells(ref, hyp)] ==
        LET i == c[1]
            j == c[2]
        IN  IF i = 0 /\ j = 0 THEN NoErrors
            ELSE IF i > 0 /\ j > 0 /\ ref[i] = hyp[j] THEN back[<<i - 1, j - 1>>]
            ELSE IF i > 0 /\ j > 0 /\ d[c] = d[<<i - 1, j - 1>>] + 1
            THEN [back[<<i - 1, j - 1>>] EXCEPT !.substitutions = @ + 1]
            ELSE IF i > 0 /\ d[c] = d[<<i - 1, j>>] + 1
            THEN [back[<<i - 1, j>>] EXCEPT !.deletions = @ + 1]
            ELSE [back[<<i, j - 1>>] EXCEPT !.insertions = @ + 1]
  IN  back[<<Len(ref), Len(hyp)>>]

Compare(reference, hypothesis) == Walked(Normalise(reference), Normalise(hypothesis))

Errors(e) == e.substitutions + e.deletions + e.insertions

-----------------------------------------------------------------------------
(* The reference: the cheapest way to pair off words in order, a pair of   *)
(* different words costing one and so does every word left unpaired.       *)
Ordered(pairs) ==
  {M \in SUBSET pairs : \A p, q \in M : p = q \/ (p[1] < q[1] /\ p[2] < q[2])
                                              \/ (q[1] < p[1] /\ q[2] < p[2])}

EditDistance(ref, hyp) ==
  LET cost(M) == Cardinality({p \in M : ref[p[1]] # hyp[p[2]]})
                 + Len(ref) + Len(hyp) - 2 * Cardinality(M)
  IN  Min({cost(M) : M \in Ordered((1 .. Len(ref)) \X (1 .. Len(hyp)))})

=============================================================================
