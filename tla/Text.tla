-------------------------------- MODULE Text --------------------------------
(***************************************************************************)
(* What happens to words once they are committed: they are polished for    *)
(* display (PolishChain), and a finished transcript is scored, its words   *)
(* (Wer) and its speakers (Measurement).  `task` picks one; the fourth     *)
(* scores what is shown of a text against the text itself.                 *)
(*                                                                         *)
(* Bounds: references and hypotheses of up to MaxWords words of three, and *)
(* texts to show of up to MaxFigures words of Vocabulary.                  *)
(***************************************************************************)
EXTENDS PolishChain

CONSTANTS Labels, Truth, Middles, Exhaustive, MaxEvents, MaxWords, Vocabulary, MaxFigures

VARIABLES task, events, ref, hyp

Log == INSTANCE Measurement WITH Null <- None

ASSUME TextAssumption == Log!MeasurementAssumption

-----------------------------------------------------------------------------
(* Wer: a reference and a hypothesis, word by word. *)
Dictate ==
  \E w \in {"yes", "no", "and"} :
    \/ Len(ref) < MaxWords /\ ref' = Append(ref, w) /\ hyp' = hyp
    \/ Len(hyp) < MaxWords /\ hyp' = Append(hyp, w) /\ ref' = ref

(* A reference whose display is the hypothesis. *)
Spell ==
  \E w \in Vocabulary : Len(ref) < MaxFigures /\ ref' = Append(ref, w) /\ hyp' = hyp

(* What may be shown of a text: figures for its numbers, after a           *)
(* punctuation stage that was kept or left it alone.                       *)
Displayed(text) ==
  {Normalise(p) : p \in {q \in {text} \cup Punctuated(text) : PreservesWords(text, q)}}

-----------------------------------------------------------------------------
textVars == <<task, chainVars, events, ref, hyp>>

TextInit ==
  /\ task \in {"polish", "score", "diarize", "figures"}
  /\ Init
  /\ task # "polish" => backends = CHOOSE b \in Offered : TRUE
  /\ task # "polish" => built
  /\ Log!Init /\ ref = <<>> /\ hyp = <<>>

TextNext ==
  \/ task = "polish" /\ Next /\ UNCHANGED <<task, events, ref, hyp>>
  \/ task = "diarize" /\ Log!Next /\ UNCHANGED <<task, chainVars, ref, hyp>>
  \/ task = "score" /\ Dictate /\ UNCHANGED <<task, chainVars, events>>
  \/ task = "figures" /\ Spell /\ UNCHANGED <<task, chainVars, events>>

TextSpec == TextInit /\ [][TextNext]_textVars

-----------------------------------------------------------------------------
(* wer.py:181-216.  The three kinds of error the walk tells apart add up   *)
(* to the edit distance, and account for the difference in length.         *)
ErrorsAreTheDistance ==
  task = "score" =>
    LET e == Scorer!Walked(ref, hyp) IN
    /\ Scorer!Errors(e) = Scorer!EditDistance(ref, hyp)
    /\ e.deletions - e.insertions = Len(ref) - Len(hyp)

\* The metric says a number one way, a sum of money the other way round, and
\* three of the ordinals wrong.
SaidAsScored(words) ==
  LET number(i, j) == /\ i <= j /\ "and" \notin {words[i], words[j]}
                      /\ \A k \in i .. j : words[k] \in NUMBER_WORDS
      whole(i, j) == \A k, l \in DOMAIN words :
                       number(k, l) /\ k <= i /\ j <= l => k = i /\ l = j
      asScored(run) == \/ Value(run) = NoValue
                       \/ Scorer!DropNumberAnd(run) = Scorer!SayNumber(Value(run))
  IN  /\ \A i, j \in DOMAIN words :
           number(i, j) /\ whole(i, j) => asScored(SubSeq(words, i, j))
      /\ Range(words) \cap (UNIT_FOLLOWERS \ {"percent"}) = {}
      /\ Range(words) \cap {"fifteenth", "eighteenth", "nineteenth"} = {}

(* wer.py:14-18.  "Digits are spoken back out before comparison, and the   *)
(* feature that improves the transcript stops being punished by the        *)
(* metric": where every number is said the way the metric would say it,    *)
(* writing it in figures costs no word error, whatever the punctuation     *)
(* stage did before.                                                       *)
FiguresAreForgiven ==
  task = "figures" /\ ref # <<>> /\ SaidAsScored(ref) =>
    \A shown \in Displayed(Words(ref)) : Scorer!Errors(Scorer!Compare(Words(ref), shown)) = 0

(* Measurement: no other reading of the labels agrees with more words.     *)
AgreementIsBest == task = "diarize" => Log!AgreementIsBest

(* Measurement: a name given late fills what was null and nothing else: it *)
(* outranks no label a word was given itself and makes no latency longer.  *)
NamesOnlyFill == Log!NamesOnlyFill

=============================================================================
