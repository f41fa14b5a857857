------------------------------- MODULE MCText -------------------------------
(***************************************************************************)
(* An instance of Text for TLC.                                            *)
(*                                                                         *)
(* Bounds.  For the chain, a percentage, a count and a date, two           *)
(* utterances so that there is a context, and every choice of backends.    *)
(* For the figures, every text of up to four words of a vocabulary that    *)
(* has each kind of number word.  References and hypotheses of up to       *)
(* three words.  Logs of five events, three labels and three speakers,     *)
(* with every arrangement tried up to two of each and the greedy mapping   *)
(* past that.                                                              *)
(***************************************************************************)
EXTENDS Text

CONSTANTS nemotron, zipformer, path

MCTruth == <<[speaker |-> "ann", start |-> 0, end |-> 2],
             [speaker |-> "ben", start |-> 2, end |-> 4],
             [speaker |-> "cy", start |-> 6, end |-> 8]>>

\* `path` is a model of the user's own, which the registry knows nothing of.
MCModels      == {nemotron, zipformer, path}
MCRegistry    == {nemotron, zipformer}
MCPunctuating == {nemotron, path}
MCDefault     == nemotron

MCChoices ==
  {b \in Backends : /\ b.vad /\ b.turn /\ b.turnDetector # "smart"
                    /\ b.engine = "whisper" => b.model \in {None, path}}

MCSpoken == {<<"twenty", "five", "percent">>, <<"one", "two", "three">>, <<"third", "of", "may">>}

MCVocabulary == {"one", "nineteen", "twenty", "hundred", "thousand", "and",
                 "percent", "may", "third", "fifteenth", "rate"}

MCLooseTexts == {<<"between", w, "and", "two">> : w \in {"one", "nice", "twenty"}}

=============================================================================
