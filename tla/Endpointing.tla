----------------------------- MODULE Endpointing -----------------------------
(***************************************************************************)
(* One stream of VAD readings through the endpoint gate, driven the way    *)
(* Coordinator.push and Coordinator.finish drive it: the score is asked    *)
(* for with the gate as the PREVIOUS reading left it, and only then does   *)
(* the gate observe the reading.  The words released on the way (settle,   *)
(* _emit_endpoint) do not touch this state; Coordinator.tla has them.      *)
(*                                                                         *)
(* `spoke`, `quiet`, `begun`, `closed` and `last` are history: what a      *)
(* listener of the readings and the endpoints would have written down.     *)
(***************************************************************************)
EXTENDS EndpointGate

CONSTANTS
  Steps,    \* chunk lengths, in ticks; an empty chunk is a legal push
  MaxAt     \* bound on the length of the stream

ASSUME StreamAssumption == Steps \subseteq Nat /\ MaxAt \in Nat

VARIABLES
  at,       \* StreamClock.position
  gate,     \* Coordinator._endpoint
  scorer,   \* Coordinator._scored_at and _last_completeness
  ended,    \* finish() has been called
  spoke,    \* the last speech reading no endpoint has closed, or None
  quiet,    \* the first silent reading after the last speech reading, or None
  begun,    \* utterances begun
  closed,   \* endpoints emitted
  last      \* the last endpoint emitted, or None

code    == <<at, gate, scorer, ended>>
history == <<spoke, quiet, begun, closed, last>>
vars    == <<at, gate, scorer, ended, spoke, quiet, begun, closed, last>>

Endpoint == [at : Nat, reason : Reason, spoke : Nat \cup {None},
             quiet : Nat \cup {None}, scored : Int]

TypeOK ==
  /\ at \in Nat
  /\ gate \in Gate
  /\ scorer \in Scorer
  /\ ended \in BOOLEAN
  /\ spoke \in Nat \cup {None}
  /\ quiet \in Nat \cup {None}
  /\ begun \in Nat
  /\ closed \in Nat
  /\ last \in Endpoint \cup {None}

Init ==
  /\ at = 0
  /\ gate = FreshGate
  /\ scorer = FreshScorer
  /\ ended = FALSE
  /\ spoke = None
  /\ quiet = None
  /\ begun = 0
  /\ closed = 0
  /\ last = None

-----------------------------------------------------------------------------
(* History of an endpoint for `reason`, and of the reading that caused it. *)
Note(now, reason) ==
  [at |-> now, reason |-> reason, spoke |-> spoke, quiet |-> quiet,
   scored |-> scorer'.at]

HearSpeech(now) ==
  /\ spoke' = now
  /\ quiet' = None
  /\ begun' = IF spoke = None THEN begun + 1 ELSE begun
  /\ UNCHANGED <<closed, last>>

HearSilence(now, reason) ==
  /\ quiet' = IF quiet = None /\ spoke # None THEN now ELSE quiet
  /\ IF reason = None
     THEN UNCHANGED <<spoke, begun, closed, last>>
     ELSE /\ spoke' = None
          /\ closed' = closed + 1
          /\ last' = Note(now, reason)
          /\ UNCHANGED begun

(* push: a chunk of d ticks, the VAD's reading and the detector's answer.  *)
Push(d, speaking, measured) ==
  LET now   == at + d
      score == MaybeScore(gate, scorer, now, measured)
  IN  /\ ~ ended
      /\ now <= MaxAt
      /\ at' = now
      /\ scorer' = Scored(gate, scorer, now, measured)
      /\ gate' = Observed(gate, speaking, now, score)
      /\ IF speaking THEN HearSpeech(now)
         ELSE HearSilence(now, Verdict(gate, now, score))
      /\ UNCHANGED ended

(* finish: close the utterance still open.                                 *)
Finish(measured) ==
  /\ ~ ended
  /\ ended' = TRUE
  /\ scorer' = FinallyScored(scorer, measured)
  /\ IF FlushVerdict(gate) = None
     THEN UNCHANGED <<gate, spoke, closed, last>>
     ELSE /\ gate' = Fired(gate)
          /\ spoke' = None
          /\ closed' = closed + 1
          /\ last' = Note(at, "flush")
  /\ UNCHANGED <<at, quiet, begun>>

Next ==
  \/ \E d \in Steps, speaking \in BOOLEAN, measured \in Completeness :
       Push(d, speaking, measured)
  \/ \E measured \in Completeness : Finish(measured)

Spec == Init /\ [][Next]_vars

-----------------------------------------------------------------------------
(* A speaker who trails off cannot hang the session: between pushes, no    *)
(* pause after unclosed speech is MaxSilenceTicks old, whatever the        *)
(* semantic gate keeps answering (policy.py, max_silence_seconds).         *)
BoundedSilence ==
  (~ ended /\ spoke # None /\ quiet # None) => at - quiet < MaxSilenceTicks

(* An endpoint closes speech heard since the previous endpoint, and a gate *)
(* that fires does so only after the silence its policy asks for, counted  *)
(* from the first silent reading after that speech.                        *)
EndpointClosesAPause ==
  last # None =>
    /\ last.spoke # None
    /\ last.reason # "flush" => last.quiet # None /\ last.spoke <= last.quiet
    /\ last.reason = "complete" => last.at - last.quiet >= SilenceTicks
    /\ last.reason = "timeout" => last.at - last.quiet >= MaxSilenceTicks

(* The score a COMPLETE endpoint rests on was measured inside the pause it *)
(* ends, never carried over from an earlier one by the throttle.  It takes *)
(* TurnInterval <= SilenceTicks, which every preset satisfies.             *)
FreshScore ==
  (last # None /\ HasTurn /\ last.reason = "complete") => last.scored >= last.quiet

(* Once the stream has ended no speech is left without its endpoint.       *)
EndClosesEverything == ended => spoke = None

(* The inductive invariant: the gate's own fields say what the readings    *)
(* said, and the history lies behind the clock in the order it was made.   *)
GateKnowsTheReadings ==
  ~ ended =>
    /\ gate.had <=> spoke # None
    /\ gate.had => gate.since = quiet /\ gate.fired = None

HistoryInOrder ==
  /\ spoke # None => spoke <= at
  /\ quiet # None => quiet <= at
  /\ spoke # None /\ quiet # None => spoke <= quiet

IInv ==
  /\ TypeOK
  /\ GateKnowsTheReadings
  /\ HistoryInOrder
  /\ BoundedSilence
  /\ EndpointClosesAPause
  /\ EndClosesEverything

(* The stream of readings and endpoints is one of Utterances.              *)
Phase ==
  IF ended THEN "over"
  ELSE IF ~ gate.had THEN "quiet"
  ELSE IF gate.since = None THEN "speaking" ELSE "pausing"

Promise == INSTANCE Utterances WITH phase <- Phase, begun <- begun, closed <- closed

PromiseKept == Promise!Spec

=============================================================================
