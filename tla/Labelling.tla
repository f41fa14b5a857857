------------------------------ MODULE Labelling ------------------------------
(***************************************************************************)
(* One session of the SpeakerTracker: the segments the speaker frontend    *)
(* closes, in order, each with whatever voice and merges cosine similarity *)
(* finds, and the words the Coordinator asks a label for.  A word can be   *)
(* asked about before or after any segment (the engine and the frontend    *)
(* lag the audio differently), and is asked about again for as long as the *)
(* answer is None (_speaker_for, then _fill_unlabeled).                    *)
(*                                                                         *)
(* `spans`, `evicted` and `answers` are history.                           *)
(***************************************************************************)
EXTENDS SpeakerTracker

CONSTANTS
  Segments,   \* the segments of the stream, a sequence of [start, end]
  Spoken      \* the words of the stream, a set of [start, end]

ASSUME LabellingAssumption ==
  /\ Segments \in Seq([start : Nat, end : Nat])
  /\ Spoken \subseteq [start : Nat, end : Nat]
  /\ \A i \in DOMAIN Segments : Segments[i].start < Segments[i].end
  /\ \A i, j \in DOMAIN Segments : i < j => Segments[i].end <= Segments[j].start

VARIABLES
  heard,     \* segments delivered so far
  tracker,   \* Coordinator._tracker
  spans,     \* every span ever remembered, pruned or not
  evicted,   \* labels whose cluster was evicted
  answers    \* word |-> the label it was given, for good

vars == <<heard, tracker, spans, evicted, answers>>

TypeOK ==
  /\ heard \in 0 .. Len(Segments)
  /\ tracker.next \in 0 .. heard
  /\ tracker.clusters \in [Live(tracker) -> Nat]
  /\ Live(tracker) \cup evicted \cup Absorbed(tracker) = 0 .. (tracker.next - 1)
  /\ DOMAIN answers \subseteq Spoken

Init ==
  /\ heard = 0
  /\ tracker = EmptyTracker
  /\ spans = << >>
  /\ evicted = {}
  /\ answers = << >>

(* A segment closes: assign, then merge. *)
Hear(voice) ==
  /\ heard < Len(Segments)
  /\ voice \in Voices(tracker)
  /\ LET segment  == Segments[heard + 1]
         assigned == Assigned(tracker, segment, voice)
     IN  \E pairs \in SUBSET MergePairs(assigned, voice) :
           /\ tracker' = Taught(tracker, segment, voice, pairs)
           /\ spans' = IF voice = None THEN spans
                       ELSE Append(spans, assigned.resolved[Len(assigned.resolved)])
           /\ evicted' = evicted \cup (Live(tracker) \ Live(assigned))
  /\ heard' = heard + 1
  /\ UNCHANGED answers

(* The Coordinator asks for a word's label, and keeps one it is given. *)
Ask(word) ==
  LET label == LabelFor(tracker, word.start, word.end)
  IN  /\ word \notin DOMAIN answers
      /\ label # None
      /\ answers' = [w \in DOMAIN answers \cup {word} |->
                      IF w = word THEN label ELSE answers[w]]
      /\ UNCHANGED <<heard, tracker, spans, evicted>>

Next ==
  \/ \E voice \in Voices(tracker) : Hear(voice)
  \/ \E word \in Spoken : Ask(word)

Spec == Init /\ [][Next]_vars

-----------------------------------------------------------------------------
Minted == 0 .. (tracker.next - 1)

(* Merging only ever brings labels together: two labels that stand for one *)
(* person go on standing for one person, through every later merge and     *)
(* eviction (speakers.py, merge: "open and future turns only").            *)
SameVoiceStaysSame ==
  [][\A a, b \in Minted :
       Resolve(tracker, a) = Resolve(tracker, b)
         => Resolve(tracker', a) = Resolve(tracker', b)]_vars

(* A label is handed out for a voice that is live or was evicted, never for *)
(* one absorbed into another; and a label a word was given long ago still   *)
(* leads, through every merge since, to such a voice.                       *)
Standing == (Live(tracker) \cup evicted) \ Absorbed(tracker)

NobodyIsAbsorbed ==
  /\ \A word \in Spoken : LabelFor(tracker, word.start, word.end) \in Standing \cup {None}
  /\ \A word \in DOMAIN answers : Resolve(tracker, answers[word]) \in Standing

(* max_speakers bounds the clusters at every step. *)
MemoryIsBounded == Cardinality(Live(tracker)) <= MaxSpeakers

(* Forgetting old spans changes no answer about a word recent enough that  *)
(* nothing it could reach has been forgotten.                              *)
ForgettingIsInvisible ==
  \A word \in Spoken :
    (spans # << >> /\ word.start >= spans[Len(spans)].end - SegmentMemory + MaxGap) =>
      LabelFor(tracker, word.start, word.end)
        = LabelFor([tracker EXCEPT !.resolved = spans], word.start, word.end)

=============================================================================
