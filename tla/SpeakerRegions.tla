--------------------------- MODULE SpeakerRegions ---------------------------
(***************************************************************************)
(* speakers/sherpa.py (SherpaSpeakerFrontend): cutting the stream into the *)
(* segments the SpeakerTracker clusters.  Speech opens a region, a region  *)
(* is cut into windows as it grows, and it closes after enough silence or  *)
(* at the end of the stream, where its tail is a segment if it is long     *)
(* enough to embed and is dropped if not.                                  *)
(*                                                                         *)
(* A tick is a number of samples; embeddings are left out.  `spoken` and   *)
(* `dropped` are history.                                                  *)
(***************************************************************************)
EXTENDS Integers

CONSTANTS
  None,         \* Python's None
  Window,       \* window * sample_rate
  MinRegion,    \* min_region * sample_rate
  MinSilence,   \* min_silence * sample_rate
  MaxRegion,    \* max_region * sample_rate
  Steps,        \* chunk lengths, in ticks
  MaxAt         \* bound on the length of the stream

ASSUME RegionAssumption ==
  /\ None \notin Int
  /\ Window \in Nat \ {0}
  /\ MinRegion \in Nat \ {0} /\ MinSilence \in Nat /\ MaxRegion \in Nat
  /\ Steps \subseteq Nat /\ MaxAt \in Nat

VARIABLES
  at,        \* _position
  region,    \* _region_start
  held,      \* len(_samples)
  silence,   \* _silence_run, in samples
  segments,  \* the segments returned so far
  ended,     \* flush() has been called
  spoken,    \* the chunks the VAD read as speech
  dropped    \* the tails nobody embedded

vars == <<at, region, held, silence, segments, ended, spoken, dropped>>

Span == [start : Nat, end : Nat]

TypeOK ==
  /\ at \in Nat
  /\ region \in Nat \cup {None}
  /\ held \in Nat
  /\ silence \in Nat
  /\ segments \subseteq Span
  /\ ended \in BOOLEAN
  /\ spoken \subseteq Span
  /\ dropped \subseteq Span

Init ==
  /\ at = 0
  /\ region = None
  /\ held = 0
  /\ silence = 0
  /\ segments = {}
  /\ ended = FALSE
  /\ spoken = {}
  /\ dropped = {}

-----------------------------------------------------------------------------
(* _drain_windows: the complete windows of `count` samples from `from` on. *)
MutWindows(from, count) ==
  {[start |-> from + i * Window, end |-> from + (i + 1) * Window + 1] : i \in 0 .. (count \div Window - 1)}

Windows(from, count) ==
  {[start |-> from + i * Window, end |-> from + (i + 1) * Window] : i \in 0 .. (count \div Window - 1)}

(* What is left after the last of them. *)
MutRest(from, count) == [start |-> from, end |-> from + (count % Window)]

Rest(from, count) == [start |-> from + Window * (count \div Window), end |-> from + count]

Length(span) == span.end - span.start

(* Carry on: the windows go, the remainder stays. *)
Drain(from, count, run) ==
  /\ segments' = segments \cup Windows(from, count)
  /\ region' = Rest(from, count).start
  /\ held' = Length(Rest(from, count))
  /\ silence' = run
  /\ UNCHANGED dropped

(* _close: the windows, then the tail if it is long enough. *)
LongEnough(tail) == Length(tail) >= MinRegion

Close(from, count) ==
  LET tail == Rest(from, count)
  IN  /\ segments' = segments \cup Windows(from, count)
                     \cup (IF LongEnough(tail) THEN {tail} ELSE {})
      /\ dropped' = IF LongEnough(tail) THEN dropped ELSE dropped \cup {tail}
      /\ region' = None
      /\ held' = 0
      /\ silence' = 0

(* Silence this long is the end of a region. *)
MutBreaks(run) == run > MinSilence

Breaks(run) == run >= MinSilence

-----------------------------------------------------------------------------
MutOpensAt(now, d) == now

(* push is given the time of the chunk's end; speech began d ticks before. *)
OpensAt(now, d) == now - d

Speech(d) ==
  LET from == IF region = None THEN OpensAt(at + d, d) ELSE region
  IN  IF held + d >= MaxRegion THEN Close(from, held + d) ELSE Drain(from, held + d, 0)

Pause(d) ==
  IF Breaks(silence + d) \/ held + d >= MaxRegion
  THEN Close(region, held + d)
  ELSE Drain(region, held + d, silence + d)

(* push: a chunk of d ticks and the reading of the frontend's own VAD. *)
Push(d, speaking) ==
  /\ ~ ended
  /\ at + d <= MaxAt
  /\ at' = at + d
  /\ spoken' = IF speaking THEN spoken \cup {[start |-> at, end |-> at + d]} ELSE spoken
  /\ \/ speaking /\ Speech(d)
     \/ ~ speaking /\ region # None /\ Pause(d)
     \/ /\ ~ speaking /\ region = None
        /\ UNCHANGED <<region, held, silence, segments, dropped>>
  /\ UNCHANGED ended

Flush ==
  /\ ~ ended
  /\ ended' = TRUE
  /\ IF region = None THEN UNCHANGED <<region, held, silence, segments, dropped>>
     ELSE Close(region, held)
  /\ UNCHANGED <<at, spoken>>

(* reset: the frontend on another stream. *)
Reset ==
  /\ ended
  /\ at' = 0
  /\ region' = None /\ held' = 0 /\ silence' = 0
  /\ segments' = {} /\ spoken' = {} /\ dropped' = {}
  /\ ended' = FALSE

Next == (\E d \in Steps, speaking \in BOOLEAN : Push(d, speaking)) \/ Flush \/ Reset

Spec == Init /\ [][Next]_vars

-----------------------------------------------------------------------------
(* What the SpeakerTracker takes for granted ("Segments arrive in order",  *)
(* speakers.py, _remember): no two segments share audio, and none claims   *)
(* audio that has not arrived.                                             *)
SegmentsAreDisjoint ==
  /\ \A s \in segments : s.start < s.end /\ s.end <= at
  /\ \A s, t \in segments : s = t \/ s.end <= t.start \/ t.end <= s.start

(* "Segments shorter than this give embeddings too noisy to cluster on"    *)
(* (policy.py, min_duration): a segment is a window or a long enough tail. *)
SegmentsAreLongEnough == \A s \in segments : Length(s) >= MinRegion \/ Length(s) = Window

(* "Someone who talks without pausing cannot grow the buffer without       *)
(* bound": between two pushes it holds less than a window, a pause too     *)
(* short to end the region, and ends exactly at the stream's position, so  *)
(* the spans of the segments are those of their samples.                   *)
BufferIsTheTail ==
  region # None =>
    /\ region + held = at
    /\ held < Window
    /\ silence = 0 \/ silence < MinSilence

(* Everything spoken is in a segment, in the buffer, or in a tail too      *)
(* short to embed.                                                         *)
In(t, spans) == \E s \in spans : s.start <= t /\ t < s.end

SpeechIsAccountedFor ==
  \A chunk \in spoken : \A t \in chunk.start .. (chunk.end - 1) :
    \/ In(t, segments)
    \/ region # None /\ region <= t
    \/ In(t, dropped)

(* "A region survives a pause shorter than this", and only that: the pause *)
(* between two neighbouring spoken chunks of one segment is a short one.   *)
NoSegmentSpansAPause ==
  \A s \in segments, c, l \in spoken :
    /\ s.start < c.end /\ c.end < l.start /\ l.start < s.end
    /\ ~ \E b \in spoken : c.end <= b.start /\ b.start < l.start
    => l.start - c.end < MinSilence

=============================================================================
