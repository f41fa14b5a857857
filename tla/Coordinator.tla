---------------------------- MODULE Coordinator ----------------------------
(***************************************************************************)
(* coordinator/coordinator.py (Coordinator): the whole of push() and       *)
(* finish(), each as one action, composed of the endpoint gate, the commit *)
(* policy, the speaker tracker and the event log.                          *)
(*                                                                         *)
(* The models around it are inputs: the VAD reads anything, the engine     *)
(* keeps EngineContract, the speaker frontend closes Segments in order (at *)
(* most one per chunk) with any voice, the turn detector answers anything, *)
(* the polish chain may or may not change an utterance, and the caller may *)
(* or may not be lagging.                                                  *)
(***************************************************************************)
EXTENDS EventLog, EngineContract

CONSTANTS
  SilenceTicks, MaxSilenceTicks, Threshold, FullScore, TurnInterval, OneSecond,
  HasTurn,                                    \* see EndpointGate
  FullConfidence, ConfidenceGate, SlowTicks, EarlyConfidence,   \* see CommitPolicy
  HasVad,     \* a VAD is installed
  CanLag,     \* the caller may fall behind real time
  Segments,   \* the segments of the stream, a sequence of [start, end]
  Steps,      \* chunk lengths, in ticks
  MaxAt       \* bound on the length of the stream

Gate == INSTANCE EndpointGate
Words == INSTANCE CommitPolicy

ASSUME CoordinatorAssumption ==
  /\ HasVad \in BOOLEAN /\ CanLag \in BOOLEAN
  /\ SilenceTicks \in Nat /\ MaxSilenceTicks \in Nat \ {0} /\ TurnInterval \in Nat
  /\ OneSecond \in Nat /\ FullScore \in Nat /\ FullConfidence \in Nat
  /\ Steps \subseteq Nat /\ MaxAt \in Nat
  /\ Segments \in Seq([start : Nat, end : Nat])
  /\ \A i \in DOMAIN Segments : Segments[i].start < Segments[i].end
  /\ \A i, j \in DOMAIN Segments : i < j => Segments[i].end <= Segments[j].start

VARIABLES
  at,         \* StreamClock.position
  gate,       \* _endpoint
  scorer,     \* _scored_at, _last_completeness
  policy,     \* _commit
  tracker,    \* _tracker
  doc,        \* log, _turn_index, _turn_speaker, _unlabeled, _utterance
  latest,     \* _latest
  degraded,   \* _backpressure
  spokeYet,   \* _spoke_yet
  ended,      \* finish() has been called
  stable,     \* the engine: what it has called stable, in order
  closed,     \* the frontend: segments it has closed
  speaking    \* the VAD: its last reading, or None

vars == <<at, gate, scorer, policy, tracker, doc, latest, degraded, spokeYet, ended,
          stable, closed, speaking>>

TypeOK ==
  /\ at \in Nat
  /\ gate \in Gate!Gate
  /\ scorer \in Gate!Scorer
  /\ latest \in Words!Hypothesis \cup {None}
  /\ policy.frontier \in 0 .. at
  /\ doc.lastEnd = policy.frontier
  /\ degraded \in BOOLEAN /\ spokeYet \in BOOLEAN /\ ended \in BOOLEAN
  /\ stable \in Seq(Renderings)
  /\ closed \in 0 .. Len(Segments)
  /\ speaking \in BOOLEAN \cup {None}

Init ==
  /\ at = 0
  /\ gate = Gate!FreshGate
  /\ scorer = Gate!FreshScorer
  /\ policy = Words!FreshCommit
  /\ tracker = EmptyTracker
  /\ doc = EmptyDoc
  /\ latest = None
  /\ degraded = FALSE
  /\ spokeYet = FALSE
  /\ ended = FALSE
  /\ stable = << >>
  /\ closed = 0
  /\ speaking = None

-----------------------------------------------------------------------------
(* Steps of push() and finish().                                           *)

(* _observe_lag: tell the client when falling behind starts or stops.      *)
ObserveLag(d, lagging, now) ==
  IF lagging = degraded THEN d
  ELSE Emit(d, [kind |-> "degraded", at |-> now, degraded |-> lagging])

Onset(d, reading, now) ==
  IF reading = TRUE /\ ~ spokeYet THEN Emit(d, [kind |-> "speech_onset", at |-> now]) ELSE d

(* The commit policy's state after committing words.                       *)
Advanced(c, ws, held) ==
  [frontier |-> CHOOSE f \in Words!FrontierAfter(c.frontier, ws) : TRUE, held |-> held]

(* A hypothesis: take, then show what is still tentative.                  *)
HearWords(d, tr, h, lagging, now) ==
  LET taken    == Words!Taken(h, policy, now)
      frontier == Advanced(policy, taken, None).frontier
      pending  == Words!Pending(h.tentative, frontier)
  IN  EmitPartial(EmitWords(d, tr, taken, now), pending, lagging, now)

PolicyAfter(h, now) ==
  IF h = None THEN policy
  ELSE Advanced(policy, Words!Taken(h, policy, now), Words!HeldAfter(h, policy, now))

(* _close_endpoint releases the latest hypothesis when the silence the     *)
(* gate had recorded BEFORE this chunk's reading has lasted long enough.   *)
Releases(h, reading, now) ==
  reading # None /\ h # None /\ Gate!SilenceHeld(gate, now) >= SilenceTicks

-----------------------------------------------------------------------------
(* push: a chunk of `size` ticks, and what every model makes of it.        *)
Push(size, reading, segment, h, measured, rewrites, lagging) ==
  LET now      == at + size
      trained  == IF segment = None THEN tracker
                  ELSE Taught(tracker, Segments[closed + 1], segment.voice, segment.pairs)
      heardH   == IF h = None THEN latest ELSE h
      opened   == Onset(ObserveLag(doc, lagging, now), reading, now)
      said     == IF h = None THEN opened ELSE HearWords(opened, trained, h, lagging, now)
      filled   == FillUnlabeled(said, trained, FALSE, now)
      policyT  == PolicyAfter(h, now)
      settled  == IF Releases(heardH, reading, now)
                  THEN Words!Settled(heardH, policyT) ELSE {}
      released == EmitWords(filled, trained, settled, now)
      score    == Gate!MaybeScore(gate, scorer, now, measured)
      verdict  == IF reading = FALSE THEN Gate!Verdict(gate, now, score) ELSE None
  IN  /\ at' = now
      /\ speaking' = reading
      /\ degraded' = lagging
      /\ spokeYet' = (spokeYet \/ reading = TRUE)
      /\ closed' = IF segment = None THEN closed ELSE closed + 1
      /\ tracker' = trained
      /\ latest' = heardH
      /\ policy' = IF Releases(heardH, reading, now)
                   THEN Advanced(policyT, settled, None) ELSE policyT
      /\ IF reading = None THEN UNCHANGED <<gate, scorer>>
         ELSE /\ scorer' = Gate!Scored(gate, scorer, now, measured)
              /\ gate' = Gate!Observed(gate, reading, now, score)
      /\ doc' = IF verdict = None THEN released
                ELSE EmitEndpoint(released, trained, verdict, rewrites, now)

(* finish: the frontend's last segment, the engine's last words, a last    *)
(* chance for labels, and the endpoint of the utterance still open.        *)
Finish(segment, h, measured, rewrites) ==
  LET trained == IF segment = None THEN tracker
                 ELSE Taught(tracker, Segments[closed + 1], segment.voice, segment.pairs)
      rest    == Words!Flushed(h, policy)
      said    == EmitWords(doc, trained, rest, at)
      filled  == FillUnlabeled(said, trained, TRUE, at)
      verdict == Gate!FlushVerdict(gate)
  IN  /\ ended' = TRUE
      /\ closed' = IF segment = None THEN closed ELSE closed + 1
      /\ tracker' = trained
      /\ policy' = Advanced(policy, rest, None)
      /\ scorer' = Gate!FinallyScored(scorer, measured)
      /\ gate' = IF verdict = None THEN gate ELSE Gate!Fired(gate)
      /\ doc' = IF verdict = None THEN Polish(filled, rewrites, at)
                ELSE EmitEndpoint(filled, trained, verdict, rewrites, at)
      /\ UNCHANGED <<at, latest, degraded, spokeYet, speaking>>

-----------------------------------------------------------------------------
(* What the models can answer when the stream is `now` long.               *)
Readings == IF HasVad THEN BOOLEAN ELSE {None}

Closing(now) ==
  IF Solo \/ closed = Len(Segments) \/ Segments[closed + 1].end > now THEN {None}
  ELSE {None} \cup
       UNION {[voice : {voice},
               pairs : SUBSET MergePairs(Assigned(tracker, Segments[closed + 1], voice), voice)]
              : voice \in Voices(tracker)}

Confidences == [1 .. MostWords -> 0 .. FullConfidence]

Running == ~ ended /\ ~ doc.error

PushChunk(size) ==
  \E reading \in Readings, segment \in Closing(at + size), measured \in Gate!Completeness,
     rewrites \in BOOLEAN, lagging \in {FALSE, CanLag} :
    /\ Running
    /\ at + size <= MaxAt
    /\ UNCHANGED ended
    /\ \/ /\ Push(size, reading, segment, None, measured, rewrites, lagging)
          /\ UNCHANGED stable
       \/ \E words \in Sayings, s \in 0 .. MostWords, fragment \in BOOLEAN, conf \in Confidences :
            /\ CanSay(stable, words, s, at + size)
            /\ Push(size, reading, segment, Heard(words, s, fragment, conf),
                    measured, rewrites, lagging)
            /\ stable' = SubSeq(words, 1, s)

EndStream ==
  \E segment \in Closing(at), words \in Sayings, conf \in Confidences,
     measured \in Gate!Completeness, rewrites \in BOOLEAN :
    /\ Running
    /\ CanSay(stable, words, Len(words), at)
    /\ Finish(segment, Heard(words, Len(words), FALSE, conf), measured, rewrites)
    /\ stable' = words

Next == (\E size \in Steps : PushChunk(size)) \/ EndStream

Spec == Init /\ [][Next]_vars

-----------------------------------------------------------------------------
Events == DOMAIN doc.log

OfKind(kind) == {i \in Events : doc.log[i].kind = kind}

(* An engine, frontend and VAD that keep their contracts never make the    *)
(* Coordinator raise.                                                      *)
NothingRaised == ~ doc.error

(* A turn belongs to one speaker: every labelled word of a turn carries    *)
(* the one label the turn was announced with, at its start or later        *)
(* (_maybe_open_turn), and the announcement comes before the word.         *)
Announced(i) == doc.log[i].kind \in {"turn_start", "turn_speaker"} /\ doc.log[i].speaker # None

TurnsAreOneVoice ==
  \A i \in OfKind("commit") :
    LET word == doc.log[i]
        says == {j \in 1 .. i : Announced(j) /\ doc.log[j].turn = word.turn}
    IN  word.speaker # None => {doc.log[j].speaker : j \in says} = {word.speaker}

(* The committed and the display transcript have the same content: every   *)
(* commit is shown once, in order, whatever was polished (transcript.py).  *)
SameContent == Displayed(doc.log) = Committed(doc.log)

(* "Unlabeled words get one last chance at a label" at an endpoint, "which *)
(* bounds memory": no word waits past the endpoint after it, or past the   *)
(* end of the stream.                                                      *)
NullsAreAbandoned ==
  /\ ended => doc.unlabeled = << >>
  /\ \A u \in DOMAIN doc.unlabeled, i \in OfKind("endpoint") : i < doc.unlabeled[u].seq

(* THE ONE RULE: once a commit is emitted, nothing may contradict it; a    *)
(* null speaker may be filled in, once, by a later event.                  *)
Line(i) ==
  LET fills == {j \in OfKind("speaker") : doc.log[j].seq = i}
  IN  [word    |-> <<doc.log[i].text, doc.log[i].start, doc.log[i].end>>,
       speaker |-> IF fills = {} THEN doc.log[i].speaker
                   ELSE doc.log[CHOOSE j \in fills : \A k \in fills : k <= j].speaker]

Lines == [i \in OfKind("commit") |-> Line(i)]

OneRule == INSTANCE Transcript WITH lines <- Lines

NeverContradicted == OneRule!Spec

(* "It is not safe mid utterance" (commit.py, settle): a word the engine   *)
(* is still in the middle of, one that may be a fragment and reaches into  *)
(* the chunk just heard, becomes permanent only while the VAD reports      *)
(* silence, or at the end of the stream.                                   *)
MidWord(event) == event.kind = "commit" /\ ~ event.whole /\ event.end > at

NothingSettledMidWord ==
  [][\A i \in DOMAIN doc'.log \ DOMAIN doc.log :
       MidWord(doc'.log[i]) => speaking' # TRUE \/ ended']_vars

=============================================================================
