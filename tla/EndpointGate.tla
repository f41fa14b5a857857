---------------------------- MODULE EndpointGate ----------------------------
(***************************************************************************)
(* The conjunctive endpoint gate of coordinator/endpoint.py and the        *)
(* throttle the Coordinator puts in front of its semantic score            *)
(* (coordinator.py, _maybe_score), as operators on their state.            *)
(*                                                                         *)
(* A gate is a record                                                      *)
(*   since   position of the first silent reading of this pause, or None   *)
(*   fired   the value of `since` the last endpoint was fired for, or None *)
(*   had     speech has been heard since the last endpoint                 *)
(* and a scorer is a record                                                *)
(*   at      position of the last run of the turn detector                 *)
(*   value   the completeness it reported                                  *)
(* Positions are integer ticks of the stream clock.                        *)
(***************************************************************************)
EXTENDS Integers

CONSTANTS
  None,              \* Python's None
  SilenceTicks,      \* EndpointPolicy.silence_seconds
  MaxSilenceTicks,   \* EndpointPolicy.max_silence_seconds
  Threshold,         \* EndpointPolicy.completeness_threshold
  FullScore,         \* a completeness of 1.0
  TurnInterval,      \* Policy.turn_interval
  OneSecond,         \* ticks per second: the detector starts as if run at -1.0
  HasTurn            \* a turn detector is installed

Completeness == 0 .. FullScore

Reason == {"complete", "timeout", "flush"}

ASSUME EndpointAssumption ==
  /\ None \notin Int \cup Reason
  /\ SilenceTicks \in Nat
  /\ MaxSilenceTicks \in Nat \ {0}
  /\ FullScore \in Nat
  /\ Threshold \in Int
  /\ TurnInterval \in Nat
  /\ OneSecond \in Nat
  /\ HasTurn \in BOOLEAN

Gate   == [since : Nat \cup {None}, fired : Nat \cup {None}, had : BOOLEAN]
Scorer == [at : Int, value : Completeness]

FreshGate   == [since |-> None, fired |-> None, had |-> FALSE]
FreshScorer == [at |-> 0 - OneSecond, value |-> 0]

-----------------------------------------------------------------------------
(* How long the current run of silence has lasted, 0 if speaking.          *)
SilenceHeld(g, at) ==
  IF g.since = None \/ ~ g.had \/ at < g.since THEN 0 ELSE at - g.since

(* A pause after speech that no endpoint has been fired for.               *)
OpenPause(g) == g.had /\ g.since # None /\ g.fired # g.since

(* The reason observe() would fire for on a silent reading, None if it     *)
(* would not: the timeout first, then the conjunction of both gates.       *)
MutVerdictNoTimeout(g, at, score) ==
  IF /\ OpenPause(g)
     /\ at - g.since >= SilenceTicks
     /\ score >= Threshold
  THEN "complete"
  ELSE None

Verdict(g, at, score) ==
  IF OpenPause(g) /\ at - g.since >= MaxSilenceTicks THEN "timeout"
  ELSE IF /\ OpenPause(g)
          /\ at - g.since >= SilenceTicks
          /\ score >= Threshold
  THEN "complete"
  ELSE None

(* _fire: this pause is spent and the next utterance starts from nothing.  *)
MutFiredRearms(g) == [g EXCEPT !.fired = g.since, !.since = None]

Fired(g) == [g EXCEPT !.fired = g.since, !.had = FALSE]

(* The gate after observe() has seen one reading.                          *)
MutObservedKeepsPause(g, speaking, at, score) ==
  IF speaking THEN [g EXCEPT !.fired = None, !.had = TRUE]
  ELSE IF Verdict(g, at, score) # None THEN Fired(g)
  ELSE IF g.had /\ g.since = None THEN [g EXCEPT !.since = at]
  ELSE g

MutObservedBackdates(g, speaking, at, score) ==
  IF speaking THEN [since |-> None, fired |-> None, had |-> TRUE]
  ELSE IF Verdict(g, at, score) # None THEN Fired(g)
  ELSE IF g.had /\ g.since = None THEN [g EXCEPT !.since = at - SilenceTicks]
  ELSE g

Observed(g, speaking, at, score) ==
  IF speaking THEN [since |-> None, fired |-> None, had |-> TRUE]
  ELSE IF Verdict(g, at, score) # None THEN Fired(g)
  ELSE IF g.had /\ g.since = None THEN [g EXCEPT !.since = at]
  ELSE g

(* The reason flush() closes an open utterance for, None when there is     *)
(* nothing left to close.                                                  *)
FlushVerdict(g) ==
  IF g.had /\ ~ (g.fired # None /\ g.since = g.fired) THEN "flush" ELSE None

-----------------------------------------------------------------------------
(* _maybe_score: run the detector (whose answer is `measured`) only when   *)
(* the acoustic gate is satisfied and the last run is TurnInterval old.    *)
MutDueUntilAgreed(g, scorer, at) ==
  /\ HasTurn
  /\ g.since # None /\ g.had
  /\ SilenceHeld(g, at) >= SilenceTicks
  /\ scorer.value < Threshold

Due(g, scorer, at) ==
  /\ HasTurn
  /\ g.since # None /\ g.had
  /\ SilenceHeld(g, at) >= SilenceTicks
  /\ at - scorer.at >= TurnInterval

MaybeScore(g, scorer, at, measured) ==
  IF ~ HasTurn THEN FullScore
  ELSE IF g.since = None \/ ~ g.had \/ SilenceHeld(g, at) < SilenceTicks THEN 0
  ELSE IF Due(g, scorer, at) THEN measured
  ELSE scorer.value

Scored(g, scorer, at, measured) ==
  IF Due(g, scorer, at) THEN [at |-> at, value |-> measured] ELSE scorer

(* finish() runs the detector itself: the score is kept, its time is not.  *)
FinalScore(measured) == IF HasTurn THEN measured ELSE FullScore

FinallyScored(scorer, measured) ==
  IF HasTurn THEN [scorer EXCEPT !.value = measured] ELSE scorer

=============================================================================
