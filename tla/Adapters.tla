------------------------------ MODULE Adapters -----------------------------
(***************************************************************************)
(* The adapters between a stream of chunks and the models, each on a       *)
(* stream of its own: the session below drives one `device`, chosen at the *)
(* start, and what all of them keep (the position, the length of a buffer, *)
(* the hypothesis last returned) is shared.                                *)
(***************************************************************************)
EXTENDS SpeakerRegions, Sequences, SequencesExt

CONSTANTS TokenTail, Padding, MaxNew, MaxPieces, SherpaSteps, SherpaMaxAt,
          SpokenFrom, SpokenTo, Jitter, Interval, Context, MaxBuffer, WhisperSteps, WhisperMaxAt,
          VadWindow, VadSteps, VadMaxAt

VARIABLES
  device,
  said,
  decoded, seen, words, pending,
  offset, fresh, previous, stable, settled, agreed, lost, moved,
  verdicts, speaking, since, started, given, slice

regionVars  == <<region, silence, segments, spoken, dropped>>
sherpaVars  == <<decoded, seen, words, pending>>
whisperVars == <<offset, fresh, previous, stable, settled, agreed, lost, moved>>
vadVars     == <<verdicts, speaking, since, started, given, slice>>

allVars == <<device, at, held, ended, said, regionVars, sherpaVars, whisperVars, vadVars>>

Sherpa  == INSTANCE SherpaEngine WITH consumed <- at, Steps <- SherpaSteps, MaxAt <- SherpaMaxAt
Whisper == INSTANCE WhisperEngine WITH Steps <- WhisperSteps, MaxAt <- WhisperMaxAt
Vad     == INSTANCE SileroVad WITH
             buffered <- held, Window <- VadWindow, Steps <- VadSteps, MaxAt <- VadMaxAt
Stream  == INSTANCE HypothesisStream

ASSUME AdaptersAssumption ==
  Sherpa!EngineAssumption /\ Whisper!WhisperAssumption /\ Vad!VadAssumption

SomeVerdicts == [n \in 1 .. (VadMaxAt \div VadWindow) |-> FALSE]

AdaptersInit ==
  /\ device \in {"regions", "sherpa", "whisper", "vad"}
  /\ Init /\ Sherpa!Init /\ Whisper!Init
  /\ Vad!Init /\ (device # "vad" => verdicts = SomeVerdicts)

AdaptersNext ==
  \/ /\ device = "regions" /\ Next
     /\ UNCHANGED <<device, said, sherpaVars, whisperVars, vadVars>>
  \/ /\ device = "sherpa" /\ Sherpa!Next
     /\ UNCHANGED <<device, held, regionVars, whisperVars, vadVars>>
  \/ /\ device = "whisper" /\ Whisper!Next
     /\ UNCHANGED <<device, regionVars, sherpaVars, vadVars>>
  \/ /\ device = "vad" /\ Vad!Next
     /\ UNCHANGED <<device, said, regionVars, sherpaVars, whisperVars>>

AdaptersSpec == AdaptersInit /\ [][AdaptersNext]_allVars

-----------------------------------------------------------------------------
(* Both engines keep the contract of engines/base.py (HypothesisStream),   *)
(* whatever their models answer.                                           *)
KeepsContract == Stream!Spec

(* SherpaEngine: the words of a hypothesis are made of every piece         *)
(* decoded, once and in order.                                             *)
EveryPieceIsSaid == device = "sherpa" => Sherpa!EveryPieceIsSaid

(* SherpaEngine: no word ends past the audio, but for what flush dates in  *)
(* its padding.                                                            *)
EndsWithinTheAudio == device = "sherpa" => Sherpa!EndsWithinTheAudio

(* SherpaEngine: a word called tentative keeps its start from then on.     *)
StartsAreFinal == [][device = "sherpa" => Sherpa!StartsKept]_allVars

(* WhisperEngine: over any passes and trims each word is promoted once, as *)
(* long as no pass moves a boundary.                                       *)
EachWordOnce == device = "whisper" => Whisper!EachWordOnce

(* WhisperEngine: what two consecutive passes agree on is stable from then *)
(* on.                                                                     *)
AgreedIsSaid == device = "whisper" => Whisper!AgreedIsSaid

(* SileroVad: the same decisions however the audio is sliced.              *)
DecisionsAreTheAudios == device = "vad" => Vad!DecisionsAreTheAudios

=============================================================================
