------------------------------ MODULE EventLog ------------------------------
(***************************************************************************)
(* What the Coordinator writes: the append-only log of events.py and the   *)
(* state coordinator.py keeps to write turns, labels and polish into it,   *)
(* as operators on a record                                                *)
(*   log         the events, in order; an event's seq is its place here    *)
(*   turn        _turn_index, 0 until a turn is open                       *)
(*   speaker     _turn_speaker                                             *)
(*   unlabeled   _unlabeled: commits waiting for a label                   *)
(*   utterance   _utterance: commits since the last polish                 *)
(*   lastEnd     EventLog.last_commit_end                                  *)
(*   error       EngineTimestampError or AppendOnlyViolation was raised    *)
(* An exception leaves the handler, so every operator does nothing once    *)
(* `error` is set.                                                         *)
(***************************************************************************)
EXTENDS SpeakerTracker

CONSTANTS
  Solo,       \* Policy.is_solo: one speaker, no tracker
  HasPolish   \* a polish chain is installed

ASSUME LogAssumption == Solo \in BOOLEAN /\ HasPolish \in BOOLEAN

SoloLabel == 0

EmptyDoc ==
  [log |-> << >>, turn |-> 0, speaker |-> None, unlabeled |-> << >>,
   utterance |-> << >>, lastEnd |-> 0, error |-> FALSE]

Raise(doc) == [doc EXCEPT !.error = TRUE]

(* EventLog.emit, for every kind of event; time never goes backwards.      *)
Emit(doc, event) ==
  IF doc.error THEN doc
  ELSE IF doc.log # << >> /\ event.at < Last(doc.log).at THEN Raise(doc)
  ELSE [doc EXCEPT !.log = Append(doc.log, event)]

-----------------------------------------------------------------------------
(* _maybe_open_turn: a turn belongs to a speaker.                          *)
MutOpenTurn(doc, speaker, now, start) ==
  IF doc.turn > 0 /\ speaker \in {None, doc.speaker} THEN doc
  ELSE IF doc.turn > 0 /\ doc.speaker = None
  THEN [doc EXCEPT !.speaker = speaker]
  ELSE Emit([doc EXCEPT !.turn = doc.turn + 1, !.speaker = speaker],
            [kind |-> "turn_start", at |-> now, turn |-> doc.turn + 1,
             speaker |-> speaker, start |-> start])

OpenTurn(doc, speaker, now, start) ==
  IF doc.turn > 0 /\ speaker \in {None, doc.speaker} THEN doc
  ELSE IF doc.turn > 0 /\ doc.speaker = None
  THEN Emit([doc EXCEPT !.speaker = speaker],
            [kind |-> "turn_speaker", at |-> now, turn |-> doc.turn, speaker |-> speaker])
  ELSE Emit([doc EXCEPT !.turn = doc.turn + 1, !.speaker = speaker],
            [kind |-> "turn_start", at |-> now, turn |-> doc.turn + 1,
             speaker |-> speaker, start |-> start])

SpeakerFor(tr, word) ==
  IF Solo THEN SoloLabel ELSE LabelFor(tr, word.start, word.end)

(* One word of _emit_words: the timestamp check, the turn, then the log's  *)
(* own check that commits tile the audio forward.                          *)
CommitWord(doc, tr, word, now) ==
  LET speaker == SpeakerFor(tr, word)
      opened  == OpenTurn(doc, speaker, now, word.start)
      seq     == Len(opened.log) + 1
  IN  IF doc.error THEN doc
      ELSE IF word.end > now THEN Raise(doc)
      ELSE IF opened.error \/ word.start < opened.lastEnd THEN Raise(opened)
      ELSE [Emit(opened, [kind |-> "commit", at |-> now, text |-> word.text,
                          whole |-> word.whole, start |-> word.start, end |-> word.end,
                          speaker |-> speaker, turn |-> opened.turn])
            EXCEPT !.lastEnd = word.end,
                   !.utterance = Append(doc.utterance, seq),
                   !.unlabeled =
                     IF speaker = None
                     THEN Append(doc.unlabeled,
                                 [seq |-> seq, start |-> word.start, end |-> word.end])
                     ELSE doc.unlabeled]

(* _emit_words: every word of a set, in time order; the order of the       *)
(* hypothesis breaks ties.                                                 *)
Sooner(v, w) == v.start < w.start \/ (v.start = w.start /\ v.id < w.id)

LastOf(words) == CHOOSE w \in words : \A v \in words : v = w \/ Sooner(v, w)

EmitWords(doc, tr, words, now) ==
  MapThenFoldSet(LAMBDA word, d : CommitWord(d, tr, word, now),
                 doc, LAMBDA word : word, LastOf, words)

(* _emit_partial: the tentative words past the commit frontier, unless the *)
(* pipeline is behind.                                                     *)
MutEmitPartial(doc, words, degraded, now) ==
  IF degraded \/ words = {} THEN doc
  ELSE Emit(OpenTurn(doc, None, now, Min({w.start : w \in words})),
            [kind |-> "partial", at |-> now, texts |-> {w.text : w \in words}])

EmitPartial(doc, words, degraded, now) ==
  IF degraded \/ words = {} THEN doc
  ELSE Emit(doc, [kind |-> "partial", at |-> now, texts |-> {w.text : w \in words}])

-----------------------------------------------------------------------------
(* _fill_unlabeled: a label for every waiting commit that has one by now;  *)
(* the others go on waiting, unless this was their last chance.            *)
MutFillKeeps(doc, tr, final, now) ==
  LET Fill(d, u) ==
        LET label == LabelFor(tr, u.start, u.end)
        IN  IF label # None
            THEN Emit(d, [kind |-> "speaker", at |-> now, seq |-> u.seq,
                          speaker |-> label, turn |-> d.turn])
            ELSE d
      filled == FoldLeft(Fill, doc, doc.unlabeled)
  IN  IF Solo THEN doc ELSE [filled EXCEPT !.unlabeled = IF final THEN << >> ELSE @]

MutFillForever(doc, tr, final, now) ==
  LET Fill(d, u) ==
        LET label == LabelFor(tr, u.start, u.end)
        IN  IF label # None
            THEN Emit(d, [kind |-> "speaker", at |-> now, seq |-> u.seq,
                          speaker |-> label, turn |-> d.turn])
            ELSE [d EXCEPT !.unlabeled = Append(d.unlabeled, u)]
  IN  IF Solo THEN doc ELSE FoldLeft(Fill, [doc EXCEPT !.unlabeled = << >>], doc.unlabeled)

FillUnlabeled(doc, tr, final, now) ==
  LET Fill(d, u) ==
        LET label == LabelFor(tr, u.start, u.end)
        IN  IF label # None
            THEN Emit(d, [kind |-> "speaker", at |-> now, seq |-> u.seq,
                          speaker |-> label, turn |-> d.turn])
            ELSE IF final THEN d
            ELSE [d EXCEPT !.unlabeled = Append(d.unlabeled, u)]
  IN  IF Solo \/ doc.error THEN doc
      ELSE FoldLeft(Fill, [doc EXCEPT !.unlabeled = << >>], doc.unlabeled)

(* _polish: the utterance is over; `rewrites` says whether the chain       *)
(* changed it.  `words` is what the new text renders.                      *)
Polish(doc, rewrites, now) ==
  LET done == [doc EXCEPT !.utterance = << >>]
  IN  IF doc.error THEN doc
      ELSE IF HasPolish /\ rewrites /\ doc.utterance # << >>
      THEN Emit(done, [kind |-> "polished", at |-> now, from |-> Head(doc.utterance),
                       to |-> Last(doc.utterance), words |-> doc.utterance,
                       turn |-> doc.turn])
      ELSE done

(* _emit_endpoint: the event, a last chance for labels, then polish.       *)
EmitEndpoint(doc, tr, reason, rewrites, now) ==
  LET closed == Emit(doc, [kind |-> "endpoint", at |-> now, reason |-> reason,
                           turn |-> doc.turn])
  IN  Polish(FillUnlabeled(closed, tr, TRUE, now), rewrites, now)

-----------------------------------------------------------------------------
(* What a consumer of the log makes of it.                                 *)
Committed(log) ==
  MapThenFoldSet(LAMBDA i, said : Append(said, i), << >>, LAMBDA i : i, Max,
                 {i \in DOMAIN log : log[i].kind = "commit"})

(* transcript.py, display_text: the commits shown, each polished utterance *)
(* in place of the commits it covers.                                      *)
MutDisplayed(log) ==
  LET Show(d, i) ==
        LET from == {p \in DOMAIN log : log[p].kind = "polished" /\ log[p].from = i}
        IN  IF i < d.skip THEN d
            ELSE IF from = {} THEN [skip |-> 0, shown |-> Append(d.shown, i)]
            ELSE LET p == CHOOSE p \in from : \A q \in from : q <= p
                 IN  [skip |-> log[p].to, shown |-> d.shown \o log[p].words]
  IN  FoldLeft(Show, [skip |-> 0, shown |-> << >>], Committed(log)).shown

Displayed(log) ==
  LET Show(d, i) ==
        LET from == {p \in DOMAIN log : log[p].kind = "polished" /\ log[p].from = i}
        IN  IF i <= d.skip THEN d
            ELSE IF from = {} THEN [skip |-> 0, shown |-> Append(d.shown, i)]
            ELSE LET p == CHOOSE p \in from : \A q \in from : q <= p
                 IN  [skip |-> log[p].to, shown |-> d.shown \o log[p].words]
  IN  FoldLeft(Show, [skip |-> 0, shown |-> << >>], Committed(log)).shown

=============================================================================
