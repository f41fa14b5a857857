---------------------------- MODULE PolishChain ----------------------------
(***************************************************************************)
(* The display text of finished utterances: polish/base.py (Chain.run over *)
(* its stages), the two stages it is built with, and the builder that      *)
(* decides which (Pipeline).  The punctuation model is not in the          *)
(* repository: it is given lower case, and may mark or capitalise any      *)
(* token, lose or change a word, or raise.                                 *)
(*                                                                         *)
(* Bounds: MaxUtterances utterances, each after the polished text of the   *)
(* one before it, which the Coordinator hands over as context; the model   *)
(* renders one token of what it is given anew, or loses or changes the     *)
(* last.                                                                   *)
(***************************************************************************)
EXTENDS Itn, Pipeline

CONSTANTS
  Offered,       \* the backends records to build from
  Texts,         \* utterances, as sequences of words
  ContextWords,  \* CONTEXT_WORDS
  MaxUtterances

ASSUME PolishAssumption ==
  /\ Offered \subseteq Backends
  /\ \A words \in Texts : words \in Seq(STRING) /\ words # <<>>
  /\ ContextWords \in Nat /\ MaxUtterances \in Nat

VARIABLES
  backends, built,   \* what the session was built from; FALSE: a chain of the caller's own
  utterances,        \* how many have been polished
  said, context,     \* this utterance, and the tail of the last
  current, present,  \* Chain.run's locals
  at,                \* which stage is next; 0 between utterances
  rejected,          \* Chain.rejected
  marked             \* how often this utterance was punctuated, and by whom

chainVars == <<backends, built, utterances, said, context, current, present, at, rejected, marked>>

Scorer == INSTANCE Wer

-----------------------------------------------------------------------------
(* The stages. *)
PunctuationStage == [order |-> 10, produces |-> {"punctuation", "casing"}]
NormalisationStage == [order |-> 90, produces |-> {"digits"}]

Order == [punctuation |-> PunctuationStage.order, normalisation |-> NormalisationStage.order]
Produces == [punctuation |-> PunctuationStage.produces,
             normalisation |-> NormalisationStage.produces]

\* The stages given, in the order they declare.
Place(given, i) ==
  Cardinality({j \in DOMAIN given : \/ Order[given[j]] < Order[given[i]]
                                    \/ Order[given[j]] = Order[given[i]] /\ j <= i})

Stages ==
  LET given == IF built THEN Build(FALSE, backends).polish
                        ELSE <<"normalisation", "punctuation", "punctuation">>
  IN  [k \in DOMAIN given |-> given[CHOOSE i \in DOMAIN given : Place(given, i) = k]]

\* A chain of one's own says what the recogniser provides; the builder asks
\* for no stage instead.
AlreadyPresent ==
  IF ~built /\ Writes(backends) THEN Produces["punctuation"] ELSE {}

\* The words alone: marks and signs are rendering.
WordsOf(text) == [i \in DOMAIN text |-> <<text[i].word, text[i].figure>>]

NonNumeric(text) ==
  LET skip == NUMBER_WORDS \cup DOMAIN ORDINALS \cup UNIT_FOLLOWERS
  IN  WordsOf(SelectSeq(text, LAMBDA t : ~IsFigure(t) /\ t.word \notin skip))

MutPreservesWords(before, after) == Len(before) = Len(after)

PreservesWords(before, after) == WordsOf(before) = WordsOf(after)

Verified(stage, before, after) ==
  IF stage = "punctuation" THEN PreservesWords(before, after)
  ELSE NonNumeric(before) = NonNumeric(after)

(* What the punctuation model may make of a text. *)
Punctuated(text) ==
  {[text EXCEPT ![i].mark = @ \o m, ![i].cased = c] :
     i \in DOMAIN text, m \in {"", ".", ","}, c \in BOOLEAN}
  \cup {Front(text), [text EXCEPT ![Len(text)].word = "misheard"]}

(* PunctuationStage.apply: the last words of the context go in front, all  *)
(* of it in lower case, and as many words are taken off again.             *)
Rendered(text) ==
  LET from == Max({1, Len(context) - ContextWords + 1})
      lead == SubSeq(context, from, Len(context))
      joined == lead \o text
      lower == [i \in DOMAIN joined |-> [joined[i] EXCEPT !.cased = FALSE]]
  IN  {SubSeq(p, Len(lead) + 1, Len(p)) : p \in Punctuated(lower)}

Applied(stage, text) ==
  IF stage = "punctuation" THEN Rendered(text) ELSE {Normalise(text)}

-----------------------------------------------------------------------------
(* Chain.run. *)
Init ==
  /\ backends \in Offered /\ built \in BOOLEAN
  /\ utterances = 0 /\ at = 0 /\ rejected = 0 /\ marked = 0
  /\ said = <<>> /\ context = <<>> /\ current = <<>> /\ present = {}

\* Whether the recogniser has punctuated the text already.
FromRecogniser == IF Writes(backends) THEN 1 ELSE 0

Begin(words) ==
  LET bare == Words(words)
      heard == IF Writes(backends) THEN [bare EXCEPT ![Len(bare)].mark = "."] ELSE bare
  IN  /\ at = 0 /\ utterances < MaxUtterances
      /\ said' = heard /\ current' = heard /\ context' = current
      /\ present' = AlreadyPresent /\ at' = 1
      /\ marked' = FromRecogniser
      /\ UNCHANGED <<backends, built, utterances, rejected>>

Running(stage) == at \in DOMAIN Stages /\ stage = Stages[at] /\ at' = at + 1

Skip(stage) ==
  /\ Produces[stage] \cap present # {}
  /\ UNCHANGED <<backends, built, utterances, said, context, current, present, rejected, marked>>

Runs(stage) == Produces[stage] \cap present = {}

Raises(stage) ==
  /\ stage = "punctuation"
  /\ rejected' = rejected + 1
  /\ UNCHANGED <<backends, built, utterances, said, context, current, present, marked>>

Discard(stage, candidate) ==
  /\ candidate # current /\ ~Verified(stage, current, candidate)
  /\ rejected' = rejected + 1
  /\ UNCHANGED <<backends, built, utterances, said, context, current, present, marked>>

Unchanged(candidate) ==
  /\ candidate = current
  /\ UNCHANGED <<backends, built, utterances, said, context, current, present, rejected, marked>>

Keep(stage, candidate) ==
  /\ candidate # current /\ Verified(stage, current, candidate)
  /\ current' = candidate /\ present' = present \cup Produces[stage]
  /\ marked' = IF stage = "punctuation" THEN marked + 1 ELSE marked
  /\ UNCHANGED <<backends, built, utterances, said, context, rejected>>

Polished == at = Len(Stages) + 1

End ==
  /\ Polished
  /\ at' = 0 /\ utterances' = utterances + 1
  /\ UNCHANGED <<backends, built, said, context, current, present, rejected, marked>>

Next ==
  \/ \E words \in Texts : Begin(words)
  \/ \E stage \in DOMAIN Order :
       /\ Running(stage)
       /\ \/ Skip(stage)
          \/ /\ Runs(stage)
             /\ \/ Raises(stage)
                \/ \E candidate \in Applied(stage, current) :
                     Discard(stage, candidate) \/ Unchanged(candidate) \/ Keep(stage, candidate)
  \/ End

Spec == Init /\ [][Next]_chainVars

-----------------------------------------------------------------------------
(* turn/textual.py: the semantic gate the builder puts behind a recogniser *)
(* that punctuates.                                                        *)
Unknown == "unknown"
Confident == "confident"
Incomplete == "incomplete"

Completeness(text) ==
  IF text = <<>> THEN Unknown
  ELSE IF Last(text).mark \in {".", "?", "!", ".."} THEN Confident ELSE Incomplete

-----------------------------------------------------------------------------
\* What a text says, whichever way its units are written.
SignOf == [percent |-> "%", dollar |-> "$", dollars |-> "$",
           pound |-> "GBP", pounds |-> "GBP", euro |-> "EUR", euros |-> "EUR"]

Content(text) ==
  LET bare(t) == IF t.word \in DOMAIN SignOf THEN SignOf[t.word] ELSE t.word
      signs(t) == SelectSeq(<<"%", "$", "GBP", "EUR">>, LAMBDA s : s \in t.signs)
  IN  FlattenSeq([i \in DOMAIN text |->
        <<<<bare(text[i]), text[i].figure>>>>
        \o [k \in DOMAIN signs(text[i]) |-> <<signs(text[i])[k], 0>>]])

(* base.py:21-23.  "One bad stage degrades the output by exactly its own   *)
(* contribution": a punctuation stage that raised or failed its check      *)
(* leaves the display that the rest of the chain makes of what was said;   *)
(* one that was kept may decide whether a unit stands as a word or as a    *)
(* sign, and no word, figure or unit is lost, added or moved.              *)
BadStageCostsOnlyItself ==
  Polished =>
    LET figures == "normalisation" \in Range(Stages) IN
    /\ marked = FromRecogniser => current = IF figures THEN Normalise(said) ELSE said
    /\ Content(current) =
         Content(IF figures THEN DigitsBeforeUnits(ConvertDates(ConvertNumbers(said))) ELSE said)

(* pipeline.py:194-203 and textual.py:16-19.  Left to choose for itself,   *)
(* and with a recogniser the registry knows, the builder never has a text  *)
(* punctuated twice, and asks the transcript for its full stops only where *)
(* there are any: otherwise the gate would veto every endpoint.            *)
PunctuationHasOneSource ==
  Polished =>
    /\ \/ backends.punctuate # Automatic
       \/ backends.engine = "sherpa" /\ Model(backends) \notin Registry
       \/ marked <= 1
    /\ backends.turnDetector = Automatic /\ Build(FALSE, backends).turn = "punctuation"
         => Completeness(said) = Confident

(* itn.py:14-16.  "Separate values are left alone": two words from zero to *)
(* nineteen with no scale between them are two values, so the words from   *)
(* one to the other are shown as they were said.                           *)
SeparateValuesStay ==
  Polished =>
    \A i, j \in DOMAIN said :
      (/\ i < j /\ {said[i].word, said[j].word} \subseteq DOMAIN UNITS
       /\ \A k \in i + 1 .. j - 1 : said[k].word \in NUMBER_WORDS \ DOMAIN SCALES
       /\ j < Len(said) => said[j + 1].word \notin UNIT_FOLLOWERS)
      => LET shown == WordsOf(current)
         IN  \E k \in 1 .. Len(shown) - (j - i) :
               SubSeq(shown, k, k + j - i) = SubSeq(WordsOf(said), i, j)

=============================================================================
