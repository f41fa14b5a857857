------------------------------ MODULE SileroVad ------------------------------
(***************************************************************************)
(* vad/silero.py (SileroVAD): chunks of any length buffered into the       *)
(* windows the model insists on.  "Buffering is what keeps the decision    *)
(* sequence identical regardless of how the caller sliced its audio."      *)
(*                                                                         *)
(* The model is outside: its verdict on the n-th window of the stream is   *)
(* verdicts[n].  `given` and `slice` are history.                          *)
(***************************************************************************)
EXTENDS Integers, Sequences, SequencesExt

CONSTANTS
  Window,     \* _window, in ticks
  Steps,      \* chunk lengths
  MaxAt       \* bound on the length of the stream

VadAssumption == Window \in Nat \ {0} /\ Steps \subseteq Nat \ {0} /\ MaxAt \in Nat

VARIABLES
  verdicts,   \* the model's verdict on each window of the stream
  at,         \* the stream's position, the argument of push
  buffered,   \* len(_buffer)
  speaking,   \* _speaking
  since,      \* _since
  started,    \* _started
  ended,      \* the stream is over
  given,      \* the verdicts the model has given on this stream
  slice       \* the length of the chunk that brought the first window of the run

vars == <<verdicts, at, buffered, speaking, since, started, ended, given, slice>>

Verdicts == [1 .. (MaxAt \div Window) -> BOOLEAN]

Init ==
  /\ verdicts \in Verdicts
  /\ at = 0 /\ buffered = 0
  /\ speaking = FALSE /\ since = 0 /\ started = FALSE
  /\ ended = FALSE
  /\ given = << >> /\ slice = 0

-----------------------------------------------------------------------------
(* The windows the buffer yields, and what it keeps. *)
MutComplete(length) == IF length >= Window THEN 1 ELSE 0

Complete(length) == length \div Window

Kept(length) == length - Window * Complete(length)

(* push, one window: a run begins with the first window, and with one that *)
(* differs from the last.                                                  *)
Heard(state, verdict) ==
  IF verdict # state.speaking \/ ~ state.started
  THEN [state EXCEPT !.speaking = verdict, !.since = state.now, !.started = TRUE, !.slice = state.chunk]
  ELSE state

Push(d) ==
  LET windows == SubSeq(verdicts, Len(given) + 1, Len(given) + Complete(buffered + d))
      state   == FoldLeft(Heard, [speaking |-> speaking, since |-> since, started |-> started,
                                  slice |-> slice, now |-> at + d, chunk |-> d], windows)
  IN  /\ ~ ended /\ at + d <= MaxAt
      /\ at' = at + d
      /\ buffered' = Kept(buffered + d)
      /\ given' = given \o windows
      /\ speaking' = state.speaking /\ since' = state.since
      /\ started' = state.started /\ slice' = state.slice
      /\ UNCHANGED <<verdicts, ended>>

Finish ==
  /\ ~ ended
  /\ ended' = TRUE
  /\ UNCHANGED <<verdicts, at, buffered, speaking, since, started, given, slice>>

(* reset: the VAD on another stream. *)
MutReset ==
  /\ ended
  /\ verdicts' \in Verdicts
  /\ at' = 0 /\ UNCHANGED buffered
  /\ speaking' = FALSE /\ since' = 0 /\ started' = FALSE
  /\ ended' = FALSE
  /\ given' = << >> /\ slice' = 0

Reset ==
  /\ ended
  /\ verdicts' \in Verdicts
  /\ at' = 0 /\ buffered' = 0
  /\ speaking' = FALSE /\ since' = 0 /\ started' = FALSE
  /\ ended' = FALSE
  /\ given' = << >> /\ slice' = 0

Next == (\E d \in Steps : Push(d)) \/ Finish \/ Reset

Spec == Init /\ [][Next]_vars

-----------------------------------------------------------------------------
(* "The decision sequence [is] identical regardless of how the caller      *)
(* sliced its audio": after t ticks, in whatever chunks and on whatever    *)
(* stream before this one, the model has judged the windows of those t     *)
(* ticks, the reading is the last verdict, and "where the current run      *)
(* began" (SpeechState.since) is late by the slicing alone: it is the end  *)
(* of the chunk that completed the run's first window.                     *)
DecisionsAreTheAudios ==
  LET heard == at \div Window
      runs  == {n \in 1 .. heard : \A k \in n .. heard : verdicts[k] = verdicts[heard]}
      first == CHOOSE n \in runs : \A k \in runs : n <= k
  IN  /\ given = SubSeq(verdicts, 1, heard)
      /\ speaking = (heard > 0 /\ verdicts[heard])
      /\ heard > 0 => since \in first * Window .. (first * Window + slice - 1)

=============================================================================
