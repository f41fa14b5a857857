------------------------------ MODULE Pipeline ------------------------------
(***************************************************************************)
(* pipeline.py: which components a policy and a choice of backends are     *)
(* built into.  A backends record says `engine`, `model`, `vad`, `turn`,   *)
(* `turnDetector` and `punctuate` (either may be Automatic) and            *)
(* `normalise`; what a component is built from (paths, threads, providers) *)
(* is left out.                                                            *)
(***************************************************************************)
EXTENDS Sequences

CONSTANTS
  Models,        \* names a backends record may ask for
  Registry,      \* the names models.REGISTRY knows
  Punctuating,   \* the recognisers that write punctuation, known or not
  DefaultModel,  \* DEFAULT_SHERPA_MODEL
  None           \* no component, no model named

ASSUME PipelineAssumption ==
  /\ DefaultModel \in Registry /\ Registry \subseteq Models
  /\ None \notin Models \cup {"silero", "sherpa", "punctuation", "smart"}

Automatic == "auto"

Backends == [engine : {"sherpa", "whisper"}, model : Models \cup {None},
             vad : BOOLEAN, turn : BOOLEAN,
             turnDetector : {Automatic, "punctuation", "smart"},
             punctuate : {Automatic, "yes", "no"}, normalise : BOOLEAN]

Model(b) == IF b.model = None THEN DefaultModel ELSE b.model

(* The builder asks the registry: a model it does not know is taken for    *)
(* one that writes bare words.                                             *)
MutPunctuates(b) == Model(b) \in Registry \cap Punctuating

RecogniserPunctuates(b) ==
  b.engine = "whisper" \/ Model(b) \in Registry \cap Punctuating

WantsPunctuation(b) ==
  IF b.punctuate # Automatic THEN b.punctuate = "yes" ELSE ~RecogniserPunctuates(b)

TurnDetector(b) ==
  IF b.turnDetector # Automatic THEN b.turnDetector
  ELSE IF RecogniserPunctuates(b) THEN "punctuation" ELSE "smart"

(* The stages of the chain; Chain's constructor sorts them by `order`, and *)
(* with none there is no chain.                                            *)
PolishStages(b) ==
  (IF WantsPunctuation(b) THEN <<"punctuation">> ELSE <<>>)
  \o (IF b.normalise THEN <<"normalisation">> ELSE <<>>)

Build(solo, b) ==
  [engine |-> b.engine,
   vad |-> IF b.vad THEN "silero" ELSE None,
   speakers |-> IF solo THEN None ELSE "sherpa",
   turn |-> IF b.turn THEN TurnDetector(b) ELSE None,
   polish |-> PolishStages(b)]

-----------------------------------------------------------------------------
(* What the recogniser in front really does. *)
Writes(b) == b.engine = "whisper" \/ Model(b) \in Punctuating

=============================================================================
