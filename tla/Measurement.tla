---------------------------- MODULE Measurement ----------------------------
(***************************************************************************)
(* metrics.py: committed words scored against ground truth turns.  The log *)
(* grows as the Coordinator's does: commits, labelled or not, and later    *)
(* speaker events that name one commit by its seq, or a whole turn.        *)
(*                                                                         *)
(* Times are in half ticks, so that the middle of a word is one.  The      *)
(* code reads a finished log; here it is read after every event.           *)
(***************************************************************************)
EXTENDS Integers, SequencesExt

CONSTANTS
  Labels,         \* what the Coordinator calls the voices
  Truth,          \* ground truth turns, a sequence of [speaker, start, end]
  Middles,        \* where a committed word may lie
  Exhaustive,     \* up to how many labels _best_mapping tries every arrangement
  MaxEvents,
  Null

MeasurementAssumption ==
  /\ Null \notin Labels /\ Null \notin Int
  /\ Exhaustive \in Nat /\ MaxEvents \in Nat
  /\ Middles \subseteq Int
  /\ \A i \in DOMAIN Truth :
       Truth[i].start \in Int /\ Truth[i].end \in Int /\ Truth[i].start <= Truth[i].end

VARIABLE events

Covers(turn, middle) == turn.start <= middle /\ middle <= turn.end

IsCommit(e) == e.kind = "commit"

\* _apply_speaker_events: the last event that names a commit, or its turn.
BySeq(log, seq) ==
  LET named == {i \in DOMAIN log : log[i].kind = "speaker" /\ log[i].seq = seq}
  IN  IF named = {} THEN Null ELSE log[Max(named)].speaker

ByTurn(log, turn) ==
  LET named == {i \in DOMAIN log :
                  log[i].kind = "speaker" /\ log[i].seq = Null /\ log[i].turn = turn}
  IN  IF named = {} THEN Null ELSE log[Max(named)].speaker

Or(label, other) == IF label # Null THEN label ELSE other

MutResolved(log, seq) ==
  Or(log[seq].speaker, Or(ByTurn(log, log[seq].turn), BySeq(log, seq)))

Resolved(log, seq) ==
  Or(log[seq].speaker, Or(BySeq(log, seq), ByTurn(log, log[seq].turn)))

\* The speaker of the first ground truth turn over the word.
TrueSpeaker(middle) ==
  LET over == {i \in DOMAIN Truth : Covers(Truth[i], middle)}
  IN  IF over = {} THEN Null ELSE Truth[Min(over)].speaker

-----------------------------------------------------------------------------
(* _best_mapping: labels onto true speakers, so that agreement is largest. *)
(* Its pairs are the words to be scored, each with its seq, its label and  *)
(* its true speaker.                                                       *)
Agreement(pairs, g) ==
  Cardinality({p \in pairs : p.label \in DOMAIN g /\ g[p.label] = p.speaker})

\* Every way to match the shorter list into the longer, read label to speaker.
MutArrangements(predicted, truth) == Injection(predicted, truth)

Arrangements(predicted, truth) ==
  IF Cardinality(truth) >= Cardinality(predicted)
  THEN Injection(predicted, truth)
  ELSE {AntiFunction(f) : f \in Injection(truth, predicted)}

Empty == [x \in {} |-> Null]

ExhaustiveMapping(pairs, predicted, truth) ==
  LET better(g, best) ==
        IF best = Empty \/ Agreement(pairs, g) > Agreement(pairs, best) THEN g ELSE best
  IN  FoldSet(better, Empty, Arrangements(predicted, truth))

\* The label and speaker of a pair, how often they come together, and where
\* they first do.
Kinds(pairs) ==
  LET alike(p) == {q \in pairs : q.label = p.label /\ q.speaker = p.speaker}
  IN  {[label |-> p.label, speaker |-> p.speaker,
        count |-> Cardinality(alike(p)), first |-> Min({q.seq : q \in alike(p)})] : p \in pairs}

Precedes(k, m) == k.count > m.count \/ (k.count = m.count /\ k.first < m.first)

LastKind(kinds) == CHOOSE k \in kinds : \A m \in kinds \ {k} : Precedes(m, k)

Take(k, g) ==
  IF k.label \in DOMAIN g \/ k.speaker \in Range(g) THEN g
  ELSE [l \in DOMAIN g \cup {k.label} |-> IF l = k.label THEN k.speaker ELSE g[l]]

GreedyMapping(pairs) == MapThenFoldSet(Take, Empty, LAMBDA k : k, LastKind, Kinds(pairs))

Predicted(pairs) == {p.label : p \in pairs}
Spoken(pairs)    == {p.speaker : p \in pairs}

Small(pairs) == Cardinality(Predicted(pairs)) <= Exhaustive /\ Cardinality(Spoken(pairs)) <= Exhaustive

BestMapping(pairs) ==
  IF pairs = {} THEN Empty
  ELSE IF Small(pairs) THEN ExhaustiveMapping(pairs, Predicted(pairs), Spoken(pairs))
  ELSE GreedyMapping(pairs)

-----------------------------------------------------------------------------
(* evaluate. *)
\* The commits a ground truth turn covers, and those of them with a label.
Scorable(log) ==
  {i \in DOMAIN log : IsCommit(log[i]) /\ TrueSpeaker(log[i].middle) # Null}

Labelled(log) == {i \in Scorable(log) : Resolved(log, i) # Null}

Pairs(log) ==
  {[seq |-> i, label |-> Resolved(log, i), speaker |-> TrueSpeaker(log[i].middle)] :
     i \in Labelled(log)}

Report(log) ==
  LET scorable == Cardinality(Scorable(log))
      labelled == Cardinality(Labelled(log))
      pairs    == Pairs(log)
      correct  == Agreement(pairs, BestMapping(pairs))
  IN  [words |-> scorable, labelled |-> labelled, unlabelled |-> scorable - labelled,
       correct |-> correct, confused |-> labelled - correct]

(* _turn_latencies: how long after each turn begins its first word with a  *)
(* label was committed, Null when none was.                                *)
TurnLatency(log, turn) ==
  LET known == {i \in DOMAIN log : /\ IsCommit(log[i]) /\ Covers(turn, log[i].middle)
                                   /\ Resolved(log, i) # Null}
  IN  IF known = {} THEN Null ELSE Max({0, log[Min(known)].at - turn.start})

-----------------------------------------------------------------------------
(* The log. *)
Init == events = <<>>

\* Commits come in time order, and a turn of the log is one stretch of them.
Commit(speaker, middle) ==
  LET earlier == {i \in DOMAIN events : IsCommit(events[i])}
      turn == IF earlier = {} THEN 0
              ELSE LET last == events[Max(earlier)] IN
                   IF Null \in {speaker, last.speaker} \/ speaker = last.speaker
                   THEN last.turn ELSE last.turn + 1
  IN  /\ Len(events) < MaxEvents
      /\ \A i \in earlier : events[i].middle <= middle
      /\ events' = Append(events, [kind |-> "commit", seq |-> Null, speaker |-> speaker,
                                   middle |-> middle, at |-> middle + 1, turn |-> turn])

Name(seq, speaker) ==
  /\ Len(events) < MaxEvents
  /\ IsCommit(events[seq]) /\ events[seq].speaker = Null
  /\ BySeq(events, seq) = Null
  /\ events' = Append(events, [kind |-> "speaker", seq |-> seq, speaker |-> speaker,
                               turn |-> events[seq].turn])

NameTurn(turn, speaker) ==
  /\ Len(events) < MaxEvents
  /\ ByTurn(events, turn) = Null
  /\ events' = Append(events, [kind |-> "speaker", seq |-> Null, speaker |-> speaker,
                               turn |-> turn])

Next ==
  \/ \E speaker \in Labels \cup {Null}, middle \in Middles : Commit(speaker, middle)
  \/ \E seq \in DOMAIN events, speaker \in Labels :
       \/ Name(seq, speaker)
       \/ IsCommit(events[seq]) /\ NameTurn(events[seq].turn, speaker)

Spec == Init /\ [][Next]_events

-----------------------------------------------------------------------------
(* metrics.py:173-179.  "A wrong mapping would report a perfect system as  *)
(* broken": no one-to-one reading of the labels agrees with more words     *)
(* than the one scored; past the exhaustive limit, with more than twice as *)
(* many.                                                                   *)
AgreementIsBest ==
  LET pairs   == Pairs(events)
      counted == Report(events).correct
  IN  \A P \in SUBSET Predicted(pairs) : \A g \in Injection(P, Spoken(pairs)) :
        Agreement(pairs, g) <= IF Small(pairs) THEN counted ELSE 2 * counted

(* The label a word was given itself, at its commit or by its seq. *)
OwnLabel(log, seq) == Or(log[seq].speaker, BySeq(log, seq))

(* metrics.py:149-159.  Naming a voice late fills what was left null and   *)
(* nothing else.  A word that was given a label itself is scored with that *)
(* one, whatever is said of its turn before or after; the words scored     *)
(* stay the same, and the share that is unlabelled never rises; a turn     *)
(* that had a latency keeps one, and no longer one.                        *)
NamesOnlyFill ==
  [][Len(events') > Len(events) /\ ~IsCommit(Last(events')) =>
       /\ \A i \in DOMAIN events :
            IsCommit(events[i]) /\ OwnLabel(events, i) # Null
              => Resolved(events', i) = OwnLabel(events, i)
       /\ LET before == Report(events)
              after  == Report(events')
          IN  after.words = before.words /\ after.unlabelled <= before.unlabelled
       /\ \A t \in DOMAIN Truth :
            LET before == TurnLatency(events, Truth[t])
                after  == TurnLatency(events', Truth[t])
            IN  before # Null => after # Null /\ after <= before]_events

=============================================================================
