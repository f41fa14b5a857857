--------------------------- MODULE SpeakerTracker ---------------------------
(***************************************************************************)
(* Who said a word: coordinator/speakers.py (SpeakerTracker), as operators *)
(* on its state, a record                                                  *)
(*   clusters   live label |-> when that voice was last heard              *)
(*   resolved   the labelled spans, in time order                          *)
(*   next       labels minted so far                                       *)
(*   merged     absorbed label |-> its survivor                            *)
(* A label is the number of its minting; the string the code spells for it *)
(* matters only where labels are sorted.  Embeddings are left out: which   *)
(* cluster a segment is closest to, and which clusters have come close to  *)
(* each other, is an input (`voice`, `pairs`), restricted to what cosine   *)
(* similarity can answer.                                                  *)
(***************************************************************************)
EXTENDS Integers, Sequences, FiniteSets, SequencesExt

CONSTANTS
  None,            \* Python's None
  Stranger,        \* a segment nobody's centroid is close enough to
  Letters,         \* letters in a label's alphabet: 26
  MaxSpeakers,     \* SpeakerPolicy.max_speakers
  MaxGap,          \* SpeakerPolicy.max_gap
  SegmentMemory    \* SpeakerPolicy.segment_memory

ASSUME TrackerAssumption ==
  /\ None \notin Nat /\ Stranger \notin Nat /\ None # Stranger
  /\ Letters \in Nat \ {0}
  /\ MaxSpeakers \in Nat \ {0}
  /\ MaxGap \in Nat
  /\ SegmentMemory \in Nat

Label == Nat

EmptyTracker == [clusters |-> << >>, resolved |-> << >>, next |-> 0, merged |-> << >>]

Live(tr) == DOMAIN tr.clusters

Absorbed(tr) == DOMAIN tr.merged

-----------------------------------------------------------------------------
(* _mint_label: A, B, ... Z, AA, AB, ... as sequences of letters.          *)
Spelling[n \in Nat] ==
  IF n < Letters THEN <<n>>
  ELSE Append(Spelling[n \div Letters - 1], n % Letters)

(* The string order sorted() puts labels in: "AA" comes before "B".        *)
SortsBefore(a, b) ==
  LET s == Spelling[a]
      t == Spelling[b]
  IN  \E k \in 0 .. Len(s) :
        /\ k <= Len(t)
        /\ SubSeq(s, 1, k) = SubSeq(t, 1, k)
        /\ \/ k = Len(s) /\ k < Len(t)
           \/ k < Len(s) /\ k < Len(t) /\ s[k + 1] < t[k + 1]

-----------------------------------------------------------------------------
(* _remember: add the span and drop the leading ones behind the horizon.   *)
MutRemembered(tr, span, label) ==
  <<[start |-> span.start, end |-> span.end, label |-> label]>>

Remembered(tr, span, label) ==
  LET all     == Append(tr.resolved, [start |-> span.start, end |-> span.end, label |-> label])
      stale(i) == all[i].end < span.end - SegmentMemory
      kept    == CHOOSE i \in 1 .. Len(all) : ~ stale(i) /\ \A j \in 1 .. (i - 1) : stale(j)
  IN  SubSeq(all, kept, Len(all))

(* _evict_least_recent: the voice heard longest ago, the older label first.*)
LeastRecent(tr) ==
  CHOOSE v \in Live(tr) : \A u \in Live(tr) :
    \/ tr.clusters[v] < tr.clusters[u]
    \/ tr.clusters[v] = tr.clusters[u] /\ v <= u

(* _new_cluster: mint a label for a new voice, evicting if there is no room.*)
MutStayingLive(tr) ==
  IF Cardinality(Live(tr)) > MaxSpeakers THEN Live(tr) \ {LeastRecent(tr)} ELSE Live(tr)

StayingLive(tr) ==
  IF Cardinality(Live(tr)) >= MaxSpeakers THEN Live(tr) \ {LeastRecent(tr)} ELSE Live(tr)

MutWithNewCluster(tr, span) ==
  [tr EXCEPT
    !.clusters = [l \in StayingLive(tr) \cup {tr.next} |->
                    IF l = tr.next THEN span.end ELSE tr.clusters[l]],
    !.resolved = Remembered(tr, span, tr.next),
    !.next     = tr.next + 1,
    !.merged   = RestrictValues(tr.merged, LAMBDA l : l \in StayingLive(tr))]

WithNewCluster(tr, span) ==
  [tr EXCEPT
    !.clusters = [l \in StayingLive(tr) \cup {tr.next} |->
                    IF l = tr.next THEN span.end ELSE tr.clusters[l]],
    !.resolved = Remembered(tr, span, tr.next),
    !.next     = tr.next + 1]

(* assign: `voice` is None for a segment that overlaps, is too short or is *)
(* ambiguous, Stranger for one below the threshold of every cluster, or    *)
(* the one cluster it clearly belongs to.                                  *)
Voices(tr) == {None, Stranger} \cup Live(tr)

Assigned(tr, span, voice) ==
  IF voice = None THEN tr
  ELSE IF voice = Stranger THEN WithNewCluster(tr, span)
  ELSE [tr EXCEPT !.clusters[voice] = span.end,
                  !.resolved = Remembered(tr, span, voice)]

-----------------------------------------------------------------------------
(* merge_candidates: any pairs of live clusters, sorted survivor first;    *)
(* a cluster minted for a stranger is below the threshold of all others.   *)
MergePairs(tr, voice) ==
  {p \in Live(tr) \X Live(tr) :
     /\ SortsBefore(p[1], p[2])
     /\ voice = Stranger => tr.next - 1 \notin {p[1], p[2]}}

PairOrder(p, q) ==
  \/ SortsBefore(p[1], q[1])
  \/ p[1] = q[1] /\ SortsBefore(p[2], q[2])

LastPair(pairs) == CHOOSE p \in pairs : \A q \in pairs : q = p \/ PairOrder(q, p)

(* merge: nothing if either cluster is gone by now.                        *)
Merged(tr, survivor, absorbed) ==
  IF {survivor, absorbed} \subseteq Live(tr)
  THEN LET heard == {tr.clusters[survivor], tr.clusters[absorbed]}
           last  == CHOOSE t \in heard : \A u \in heard : u <= t
       IN  [tr EXCEPT
             !.clusters = [l \in Live(tr) \ {absorbed} |->
                             IF l = survivor THEN last ELSE tr.clusters[l]],
             !.merged   = [l \in Absorbed(tr) \cup {absorbed} |->
                             IF l = absorbed THEN survivor ELSE tr.merged[l]]]
  ELSE tr

(* Coordinator._assign: the segment, then every merge, one after another.  *)
Taught(tr, span, voice, pairs) ==
  MapThenFoldSet(LAMBDA p, t : Merged(t, p[1], p[2]),
                 Assigned(tr, span, voice), LAMBDA p : p, LastPair, pairs)

-----------------------------------------------------------------------------
(* resolve: follow merges to the end of the chain, by a step for each      *)
(* merge, since the chain is never longer than that.                       *)
Follow(tr, label) == IF label \in Absorbed(tr) THEN tr.merged[label] ELSE label

Resolve(tr, label) == FoldSet(LAMBDA merge, l : Follow(tr, l), label, Absorbed(tr))

(* label_for: the span that overlaps the word most, the earlier one if two *)
(* overlap it alike ...                                                    *)
Overlap(span, start, end) ==
  (IF span.end < end THEN span.end ELSE end)
    - (IF span.start > start THEN span.start ELSE start)

Overlapping(tr, start, end) ==
  {i \in DOMAIN tr.resolved : Overlap(tr.resolved[i], start, end) > 0}

MostOverlapping(tr, start, end) ==
  CHOOSE i \in Overlapping(tr, start, end) :
    \A j \in Overlapping(tr, start, end) :
      \/ Overlap(tr.resolved[j], start, end) < Overlap(tr.resolved[i], start, end)
      \/ Overlap(tr.resolved[j], start, end) = Overlap(tr.resolved[i], start, end) /\ i <= j

(* ... or else the spans on either side, each at most MaxGap away (at most *)
(* one voice each), unless they belong to two different voices.            *)
Neighbours(tr, start, end) ==
  LET ends   == {i \in DOMAIN tr.resolved : tr.resolved[i].end <= start}
      starts == {i \in DOMAIN tr.resolved : tr.resolved[i].start >= end} \ ends
      near   == {i \in ends : /\ start - tr.resolved[i].end <= MaxGap
                              /\ \A j \in ends : j <= i}
                \cup {i \in starts : /\ tr.resolved[i].start - end <= MaxGap
                                     /\ \A j \in starts : i <= j}
  IN  {Resolve(tr, tr.resolved[i].label) : i \in near}

MutLabelFor(tr, start, end) ==
  IF Overlapping(tr, start, end) # {}
  THEN tr.resolved[MostOverlapping(tr, start, end)].label
  ELSE IF Cardinality(Neighbours(tr, start, end)) = 1
  THEN CHOOSE label \in Neighbours(tr, start, end) : TRUE
  ELSE None

LabelFor(tr, start, end) ==
  IF Overlapping(tr, start, end) # {}
  THEN Resolve(tr, tr.resolved[MostOverlapping(tr, start, end)].label)
  ELSE IF Cardinality(Neighbours(tr, start, end)) = 1
  THEN CHOOSE label \in Neighbours(tr, start, end) : TRUE
  ELSE None

=============================================================================
