-------------------------------- MODULE Itn --------------------------------
(***************************************************************************)
(* polish/itn.py: spoken numbers to written ones.  A text is a sequence of *)
(* tokens, what str.split makes of it.  A token is a bare word, whether it *)
(* has a capital, and the mark that trails it, or a figure with the signs  *)
(* attached to it; spacing and the spelling of a figure's suffix are left  *)
(* out.                                                                    *)
(***************************************************************************)
EXTENDS Integers, SequencesExt

UNITS == [zero |-> 0, one |-> 1, two |-> 2, three |-> 3, four |-> 4, five |-> 5,
          six |-> 6, seven |-> 7, eight |-> 8, nine |-> 9, ten |-> 10,
          eleven |-> 11, twelve |-> 12, thirteen |-> 13, fourteen |-> 14,
          fifteen |-> 15, sixteen |-> 16, seventeen |-> 17, eighteen |-> 18,
          nineteen |-> 19]
TENS == [twenty |-> 20, thirty |-> 30, forty |-> 40, fifty |-> 50, sixty |-> 60,
         seventy |-> 70, eighty |-> 80, ninety |-> 90]
SCALES == [hundred |-> 100, thousand |-> 1000, million |-> 1000000,
           billion |-> 1000000000]
\* The table's last key, "thirty first", is two words: no token is equal to it.
ORDINALS == [first |-> 1, second |-> 2, third |-> 3, fourth |-> 4, fifth |-> 5,
             sixth |-> 6, seventh |-> 7, eighth |-> 8, ninth |-> 9, tenth |-> 10,
             eleventh |-> 11, twelfth |-> 12, thirteenth |-> 13,
             fourteenth |-> 14, fifteenth |-> 15, sixteenth |-> 16,
             seventeenth |-> 17, eighteenth |-> 18, nineteenth |-> 19,
             twentieth |-> 20, thirtieth |-> 30]
MONTHS == {"january", "february", "march", "april", "may", "june", "july",
           "august", "september", "october", "november", "december"}
NUMBER_WORDS == UNION {DOMAIN UNITS, DOMAIN TENS, DOMAIN SCALES, {"and"}}

UNIT_FOLLOWERS == {"percent", "dollar", "dollars", "pound", "pounds", "euro", "euros"}

-----------------------------------------------------------------------------
(* Tokens. *)
Cardinal == "#"
Ordinal  == "#th"

Word(w) == [word |-> w, cased |-> FALSE, figure |-> 0, signs |-> {}, mark |-> ""]
Figure(kind, n, mark) ==
  [word |-> kind, cased |-> FALSE, figure |-> n, signs |-> {}, mark |-> mark]
Words(ws) == [i \in DOMAIN ws |-> Word(ws[i])]

IsFigure(t) == t.word \in {Cardinal, Ordinal}

-----------------------------------------------------------------------------
(* The value a run of number words spells, if it spells one. *)
NoValue == -1

\* Some word of a run, after what precedes it, begins another number.
Several(v, w) ==
  \/ w \in DOMAIN UNITS /\ v.previous \in DOMAIN UNITS
  \/ w \in DOMAIN UNITS /\ v.previous \in DOMAIN TENS /\ UNITS[w] >= 10
  \/ w \in DOMAIN TENS /\ v.previous \in DOMAIN UNITS \cup DOMAIN TENS
  \/ w \in DOMAIN SCALES /\ v.current = 0 /\ ~v.scaled

Counted(v, w) ==
  CASE w \in DOMAIN UNITS -> [v EXCEPT !.current = @ + UNITS[w]]
    [] w \in DOMAIN TENS -> [v EXCEPT !.current = @ + TENS[w]]
    [] w = "hundred" -> [v EXCEPT !.current = @ * 100, !.scaled = TRUE]
    [] w \in DOMAIN SCALES \ {"hundred"} ->
         [v EXCEPT !.total = @ + (IF v.current = 0 THEN 1 ELSE v.current) * SCALES[w],
                   !.current = 0, !.scaled = TRUE]
    [] w = "and" -> v

Value(run) ==
  LET start == [total |-> 0, current |-> 0, scaled |-> FALSE, previous |-> "", one |-> TRUE]
      count(v, w) == IF ~v.one \/ Several(v, w)
                     THEN [v EXCEPT !.one = FALSE]
                     ELSE [Counted(v, w) EXCEPT !.previous = w]
      v == FoldLeft(count, start, run)
  IN  IF run = <<>> \/ Head(run) = "and" \/ ~v.one THEN NoValue ELSE v.total + v.current

-----------------------------------------------------------------------------
(* Where the run of number words from i ends: at its last word that is not *)
(* "and", the words popped off its end being given back to the text.       *)
MutRunEnd(text, i) ==
  CHOOSE j \in i .. Len(text) :
    /\ \A k \in i .. j : text[k].word \in NUMBER_WORDS
    /\ j = Len(text) \/ text[j + 1].word \notin NUMBER_WORDS

RunEnd(text, i) ==
  Max({j \in i .. Len(text) :
         text[j].word # "and" /\ \A k \in i .. j : text[k].word \in NUMBER_WORDS})

ConvertNumbers(text) ==
  LET from[i \in 1 .. Len(text) + 1] ==
        IF i > Len(text) THEN <<>>
        ELSE IF text[i].word \notin NUMBER_WORDS \ {"and"} THEN <<text[i]>> \o from[i + 1]
        ELSE LET j == RunEnd(text, i)
                 run == SubSeq(text, i, j)
                 value == Value([k \in DOMAIN run |-> run[k].word])
             IN  (IF value = NoValue \/ Len(run) < 2
                  THEN run ELSE <<Figure(Cardinal, value, text[j].mark)>>) \o from[j + 1]
  IN  from[1]

(* An ordinal beside a month is a date. *)
ConvertDates(text) ==
  LET dated(i) == /\ text[i].word \in DOMAIN ORDINALS
                  /\ \E j \in {i - 1, i + 1} \cap DOMAIN text : text[j].word \in MONTHS
  IN  [i \in DOMAIN text |->
         IF dated(i) THEN Figure(Ordinal, ORDINALS[text[i].word], text[i].mark) ELSE text[i]]

(* A unit after a number turns even a single word into a figure. *)
DigitsBeforeUnits(text) ==
  LET counted(i) == /\ text[i].word \in DOMAIN UNITS
                    /\ i < Len(text) /\ text[i + 1].word \in UNIT_FOLLOWERS
  IN  [i \in DOMAIN text |->
         IF counted(i) THEN Figure(Cardinal, UNITS[text[i].word], text[i].mark) ELSE text[i]]

(* One of the four substitutions: a cardinal in digits, followed by the    *)
(* unit, takes its sign.  The pattern wants the two side by side and the   *)
(* unit in lower case: a mark other than a comma, a percent sign or a      *)
(* capital stands in the way.                                              *)
Attached(text, names, sign) ==
  LET fits(i) == /\ text[i].word = Cardinal /\ "%" \notin text[i].signs
                 /\ text[i].mark \in {"", ","}
                 /\ i < Len(text) /\ text[i + 1].word \in names /\ ~text[i + 1].cased
      from[i \in 1 .. Len(text) + 2] ==
        IF i > Len(text) THEN <<>>
        ELSE IF fits(i)
        THEN <<[text[i] EXCEPT !.signs = @ \cup {sign}, !.mark = text[i + 1].mark]>> \o from[i + 2]
        ELSE <<text[i]>> \o from[i + 1]
  IN  from[1]

ConvertUnits(text) ==
  LET percent == Attached(text, {"percent"}, "%")
      dollars == Attached(percent, {"dollar", "dollars"}, "$")
      pounds  == Attached(dollars, {"pound", "pounds"}, "GBP")
  IN  Attached(pounds, {"euro", "euros"}, "EUR")

Normalise(text) ==
  ConvertUnits(DigitsBeforeUnits(ConvertDates(ConvertNumbers(text))))

=============================================================================
