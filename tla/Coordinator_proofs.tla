------------------------- MODULE Coordinator_proofs -------------------------
(***************************************************************************)
(* The Coordinator, for every set of renderings, every policy, every       *)
(* stream of segments and whatever its models answer.                      *)
(*                                                                         *)
(* One predicate on the document, Sound, is kept by each thing the code    *)
(* writes into the log: by an event, by a word, by the loops that commit   *)
(* several words and label several (Folding), by an endpoint.  An action   *)
(* is a composition of those, so what it keeps follows by composing.       *)
(***************************************************************************)
EXTENDS LagTwin, FiniteSetTheorems, SequenceTheorems, TLAPS

IsSeq(s) == \E T : s \in Seq(T)

IsDoc(d) ==
  d = [log |-> d.log, turn |-> d.turn, speaker |-> d.speaker, unlabeled |-> d.unlabeled,
       utterance |-> d.utterance, lastEnd |-> d.lastEnd, error |-> d.error]

(* Nothing was raised, and nothing in the log lies in the future. *)
Shape(d, now) ==
  /\ IsDoc(d)
  /\ d.error = FALSE
  /\ IsSeq(d.log) /\ IsSeq(d.unlabeled) /\ IsSeq(d.utterance)
  /\ d.log # << >> => Last(d.log).at \in Int /\ Last(d.log).at <= now
  /\ d.lastEnd \in Nat /\ d.lastEnd <= now

(* An event that tells whose turn it is. *)
Says(log, j) == log[j].kind \in {"turn_start", "turn_speaker"} /\ log[j].speaker # None

(* The open turn has been announced for its speaker and for nobody else,   *)
(* and so has the turn of every labelled word before that word.            *)
Turns(d) ==
  /\ d.turn \in Nat
  /\ d.speaker # None => \E j \in DOMAIN d.log : Says(d.log, j) /\ d.log[j].turn = d.turn
  /\ \A j \in DOMAIN d.log : Says(d.log, j) =>
       /\ d.log[j].turn \in Nat /\ d.log[j].turn <= d.turn
       /\ d.log[j].turn = d.turn => d.log[j].speaker = d.speaker
  /\ \A i \in DOMAIN d.log : d.log[i].kind = "commit" /\ d.log[i].speaker # None =>
       /\ \E j \in 1 .. i : Says(d.log, j) /\ d.log[j].turn = d.log[i].turn
       /\ \A j \in 1 .. i : Says(d.log, j) /\ d.log[j].turn = d.log[i].turn =>
            d.log[j].speaker = d.log[i].speaker

(* A commit without a speaker. *)
Null(log, i) == i \in DOMAIN log /\ log[i].kind = "commit" /\ log[i].speaker = None

(* A commit that was given a speaker had none, and is given one once; one  *)
(* that waits has not been given any.                                      *)
Fills(d) ==
  /\ \A j \in DOMAIN d.log : d.log[j].kind = "speaker" => Null(d.log, d.log[j].seq)
  /\ \A j, k \in DOMAIN d.log :
       d.log[j].kind = "speaker" /\ d.log[k].kind = "speaker" /\ d.log[j].seq = d.log[k].seq
         => j = k
  /\ \A u \in DOMAIN d.unlabeled : Null(d.log, d.unlabeled[u].seq)
  /\ \A u, v \in DOMAIN d.unlabeled : u < v => d.unlabeled[u].seq < d.unlabeled[v].seq
  /\ \A u \in DOMAIN d.unlabeled, j \in DOMAIN d.log :
       d.log[j].kind = "speaker" => d.log[j].seq # d.unlabeled[u].seq

(* The commits ws, with none left out between the first and the last.      *)
Spells(log, ws) ==
  /\ IsSeq(ws) /\ ws # << >>
  /\ \A k \in DOMAIN ws : ws[k] \in DOMAIN log /\ log[ws[k]].kind = "commit"
  /\ \A k, l \in DOMAIN ws : k < l => ws[k] < ws[l]
  /\ \A i \in DOMAIN log :
       log[i].kind = "commit" /\ ws[1] <= i /\ i <= ws[Len(ws)] => \E k \in DOMAIN ws : ws[k] = i

(* A polish renders such a stretch of commits, and what is still to be     *)
(* polished is one that reaches the last commit.                           *)
Renders(d) ==
  /\ \A p \in DOMAIN d.log : d.log[p].kind = "polished" =>
       /\ Spells(d.log, d.log[p].words)
       /\ d.log[p].from = d.log[p].words[1]
       /\ d.log[p].to = d.log[p].words[Len(d.log[p].words)]
  /\ d.utterance # << >> =>
       /\ Spells(d.log, d.utterance)
       /\ \A i \in DOMAIN d.log : d.log[i].kind = "commit" => i <= d.utterance[Len(d.utterance)]

Sound(d, now) ==
  /\ Shape(d, now)
  /\ Turns(d)
  /\ Fills(d)
  /\ Renders(d)
  /\ Solo => d.unlabeled = << >>

(* The log of e goes on where that of d ends ... *)
GoesOn(d, e) ==
  /\ Len(d.log) <= Len(e.log)
  /\ \A i \in DOMAIN d.log : e.log[i] = d.log[i]

(* ... without an endpoint, and only words of its own have begun to wait.  *)
Later(d, e) ==
  /\ GoesOn(d, e)
  /\ \A i \in DOMAIN e.log \ DOMAIN d.log : e.log[i].kind # "endpoint"
  /\ \A u \in DOMAIN e.unlabeled :
       \/ \E v \in DOMAIN d.unlabeled : e.unlabeled[u] = d.unlabeled[v]
       \/ Len(d.log) < e.unlabeled[u].seq

(* EmitWords, with what the words in s have made of the document p.doc.    *)
Say(p, word, d) == CommitWord(d, p.tr, word, p.now)

Said(p, s, d) ==
  /\ Sound(d, p.now)
  /\ Later(p.doc, d)
  /\ p.doc.lastEnd <= d.lastEnd
  /\ d.lastEnd = p.doc.lastEnd \/ \E w \in s : d.lastEnd = w.end
  /\ \A w \in s : w.end <= d.lastEnd

Committing == INSTANCE Folding WITH Op <- Say, Pick <- LastOf, Keeps <- Said

(* FillUnlabeled, when the first n words that waited in p.doc have been    *)
(* looked up: the others have still not been given a speaker.              *)
Top(S) == Max(S)

Fill(p, i, d) ==
  LET u     == p.doc.unlabeled[i]
      label == LabelFor(p.tr, u.start, u.end)
  IN  IF label # None
      THEN Emit(d, [kind |-> "speaker", at |-> p.now, seq |-> u.seq,
                    speaker |-> label, turn |-> d.turn])
      ELSE IF p.final THEN d
      ELSE [d EXCEPT !.unlabeled = Append(d.unlabeled, u)]

Unfilled(log, u) == \A j \in DOMAIN log : log[j].kind = "speaker" => log[j].seq # u.seq

FilledTo(p, n, d) ==
  /\ Sound(d, p.now)
  /\ Later(p.doc, d)
  /\ d.lastEnd = p.doc.lastEnd
  /\ p.final => d.unlabeled = << >>
  /\ \A v \in DOMAIN d.unlabeled : \E u \in 1 .. n : d.unlabeled[v] = p.doc.unlabeled[u]
  /\ \A u \in DOMAIN p.doc.unlabeled : n < u => Unfilled(d.log, p.doc.unlabeled[u])

Filled(p, s, d) == \A n \in Nat : s = 1 .. n => FilledTo(p, n, d)

Filling == INSTANCE Folding WITH Op <- Fill, Pick <- Top, Keeps <- Filled

-----------------------------------------------------------------------------
(* Sequences and documents.                                                *)
LEMMA Longer ==
  ASSUME NEW s, IsSeq(s), NEW e
  PROVE  /\ IsSeq(Append(s, e))
         /\ Len(s) \in Nat /\ DOMAIN s = 1 .. Len(s)
         /\ Append(s, e) # << >>
         /\ Len(Append(s, e)) = Len(s) + 1
         /\ DOMAIN Append(s, e) = 1 .. (Len(s) + 1)
         /\ \A i \in 1 .. Len(s) : Append(s, e)[i] = s[i]
         /\ Append(s, e)[Len(s) + 1] = e
         /\ Last(Append(s, e)) = e
<1>1. PICK T : s \in Seq(T)
  BY DEF IsSeq
<1>2. s \in Seq(T \cup {e})
  <2>1. Len(s) \in Nat /\ DOMAIN s = 1 .. Len(s) /\ \A i \in 1 .. Len(s) : s[i] \in T
    BY <1>1
  <2> QED
    BY <1>1, <2>1, SeqDef
<1>3. Append(s, e) \in Seq(T \cup {e})
  BY <1>2
<1>4. Len(Append(s, e)) = Len(s) + 1 /\ Append(s, e)[Len(s) + 1] = e
  BY <1>2
<1>5. Last(Append(s, e)) = e
  BY <1>4 DEF Last
<1>6. IsSeq(Append(s, e))
  BY <1>3 DEF IsSeq
<1>7. \A i \in 1 .. Len(s) : Append(s, e)[i] = s[i]
  BY <1>2
<1> QED
  BY <1>2, <1>3, <1>4, <1>5, <1>6, <1>7

LEMMA EmptyIsSeq ==
  ASSUME NEW s, s = << >>
  PROVE  IsSeq(s) /\ DOMAIN s = {} /\ Len(s) = 0
<1>1. s \in Seq({}) /\ Len(s) = 0
  OBVIOUS
<1>2. IsSeq(s)
  BY <1>1 DEF IsSeq
<1>3. DOMAIN s = 1 .. Len(s)
  BY <1>1, LenProperties
<1> QED
  BY <1>1, <1>2, <1>3

Plus(d, event) == [d EXCEPT !.log = Append(d.log, event)]

LEMMA PlusFields ==
  ASSUME NEW d, IsDoc(d), NEW event, NEW f, f = Plus(d, event)
  PROVE  /\ IsDoc(f)
         /\ f.log = Append(d.log, event) /\ f.turn = d.turn /\ f.speaker = d.speaker
         /\ f.unlabeled = d.unlabeled /\ f.utterance = d.utterance
         /\ f.lastEnd = d.lastEnd /\ f.error = d.error
  BY DEF IsDoc, Plus

LEMMA EmitIsPlus ==
  ASSUME NEW d, NEW now \in Nat, Shape(d, now), NEW event, event.at = now
  PROVE  Emit(d, event) = Plus(d, event) /\ Shape(Plus(d, event), now)
<1>1. Emit(d, event) = Plus(d, event)
  BY DEF Emit, Plus, Shape
<1>2. IsDoc(d) /\ IsSeq(d.log)
  BY DEF Shape
<1> DEFINE f == Plus(d, event)
<1>3. /\ IsDoc(f)
      /\ f.log = Append(d.log, event) /\ f.turn = d.turn /\ f.speaker = d.speaker
      /\ f.unlabeled = d.unlabeled /\ f.utterance = d.utterance
      /\ f.lastEnd = d.lastEnd /\ f.error = d.error
  BY <1>2, PlusFields
<1>4. IsSeq(Append(d.log, event)) /\ Last(Append(d.log, event)) = event
  BY <1>2, Longer
<1> HIDE DEF f
<1>5. Shape(f, now)
  BY <1>3, <1>4 DEF Shape
<1> QED
  BY <1>1, <1>5 DEF f
-----------------------------------------------------------------------------
(* Going on.                                                               *)
LEMMA GoesOnAfter ==
  ASSUME NEW d, NEW e, NEW f, GoesOn(d, e), GoesOn(e, f),
         IsSeq(d.log), IsSeq(e.log), IsSeq(f.log)
  PROVE  GoesOn(d, f) /\ DOMAIN d.log \subseteq DOMAIN e.log
<1>1. /\ Len(d.log) \in Nat /\ DOMAIN d.log = 1 .. Len(d.log)
      /\ Len(e.log) \in Nat /\ DOMAIN e.log = 1 .. Len(e.log)
      /\ Len(f.log) \in Nat
  BY Longer
<1> QED
  BY <1>1 DEF GoesOn

LEMMA LaterAfter ==
  ASSUME NEW d, NEW e, NEW f, Later(d, e), Later(e, f),
         IsSeq(d.log), IsSeq(e.log), IsSeq(f.log),
         \A u \in DOMAIN f.unlabeled : f.unlabeled[u].seq \in Nat
  PROVE  Later(d, f)
<1>1. GoesOn(d, e) /\ GoesOn(e, f)
  BY DEF Later
<1>2. GoesOn(d, f) /\ DOMAIN d.log \subseteq DOMAIN e.log
  BY <1>1, GoesOnAfter
<1>3. /\ Len(d.log) \in Nat /\ Len(e.log) \in Nat
      /\ Len(d.log) <= Len(e.log)
  BY <1>1, Longer DEF GoesOn
<1>4. ASSUME NEW i \in DOMAIN f.log \ DOMAIN d.log PROVE f.log[i].kind # "endpoint"
  <2>1. CASE i \in DOMAIN e.log
    BY <1>1, <1>4, <2>1 DEF Later, GoesOn
  <2>2. CASE i \notin DOMAIN e.log
    BY <1>4, <2>2 DEF Later
  <2> QED
    BY <2>1, <2>2
<1>5. ASSUME NEW u \in DOMAIN f.unlabeled
      PROVE  \/ \E v \in DOMAIN d.unlabeled : f.unlabeled[u] = d.unlabeled[v]
             \/ Len(d.log) < f.unlabeled[u].seq
  <2>1. CASE Len(e.log) < f.unlabeled[u].seq
    BY <1>3, <2>1
  <2>2. CASE \E v \in DOMAIN e.unlabeled : f.unlabeled[u] = e.unlabeled[v]
    BY <2>2 DEF Later
  <2> QED
    BY <2>1, <2>2 DEF Later
<1> QED
  BY <1>2, <1>4, <1>5 DEF Later

LEMMA SameIsLater == \A d : Later(d, d)
  BY DEF Later, GoesOn

(* A word that waits has its place in the log. *)
LEMMA WaitingPlace ==
  ASSUME NEW d, Fills(d), IsSeq(d.log)
  PROVE  \A u \in DOMAIN d.unlabeled :
           d.unlabeled[u].seq \in Nat /\ d.unlabeled[u].seq <= Len(d.log)
<1>1. DOMAIN d.log = 1 .. Len(d.log) /\ Len(d.log) \in Nat
  BY Longer
<1> QED
  BY <1>1 DEF Fills, Null

(* An event that neither speaks of a turn nor of a word. *)
Plain(event) ==
  event.kind \notin {"commit", "turn_start", "turn_speaker", "speaker", "polished"}

LEMMA PlainTurns ==
  ASSUME NEW d, IsDoc(d), IsSeq(d.log), Turns(d), NEW event,
         event.kind \notin {"commit", "turn_start", "turn_speaker"}
  PROVE  Turns(Plus(d, event))
<1> DEFINE f == Plus(d, event)
           n == Len(d.log)
<1>1. f.log = Append(d.log, event) /\ f.turn = d.turn /\ f.speaker = d.speaker
  BY PlusFields
<1>2. /\ n \in Nat /\ DOMAIN d.log = 1 .. n /\ DOMAIN f.log = 1 .. (n + 1)
      /\ \A i \in 1 .. n : f.log[i] = d.log[i]
      /\ f.log[n + 1] = event
  BY <1>1, Longer
<1> HIDE DEF f, n
<1>3. \A i \in 1 .. (n + 1) : i \in 1 .. n \/ i = n + 1
  BY <1>2
<1>4. \A j \in 1 .. n : Says(f.log, j) <=> Says(d.log, j)
  BY <1>2 DEF Says
<1>5. ~ Says(f.log, n + 1) /\ f.log[n + 1].kind # "commit"
  BY <1>2 DEF Says
<1>6. f.turn \in Nat
  BY <1>1 DEF Turns
<1>7. f.speaker # None => \E j \in DOMAIN f.log : Says(f.log, j) /\ f.log[j].turn = f.turn
  BY <1>1, <1>2, <1>4 DEF Turns
<1>8. ASSUME NEW j \in DOMAIN f.log, Says(f.log, j)
      PROVE  /\ f.log[j].turn \in Nat /\ f.log[j].turn <= f.turn
             /\ f.log[j].turn = f.turn => f.log[j].speaker = f.speaker
  <2>1. j \in 1 .. n
    BY <1>2, <1>3, <1>5, <1>8
  <2> QED
    BY <1>1, <1>2, <1>4, <1>8, <2>1 DEF Turns
<1>9. ASSUME NEW i \in DOMAIN f.log, f.log[i].kind = "commit", f.log[i].speaker # None
      PROVE  /\ \E j \in 1 .. i : Says(f.log, j) /\ f.log[j].turn = f.log[i].turn
             /\ \A j \in 1 .. i : Says(f.log, j) /\ f.log[j].turn = f.log[i].turn =>
                  f.log[j].speaker = f.log[i].speaker
  <2>1. i \in 1 .. n
    BY <1>2, <1>3, <1>5, <1>9
  <2>2. \A j \in 1 .. i : j \in 1 .. n
    BY <1>2, <2>1
  <2>3. /\ \E j \in 1 .. i : Says(d.log, j) /\ d.log[j].turn = d.log[i].turn
        /\ \A j \in 1 .. i : Says(d.log, j) /\ d.log[j].turn = d.log[i].turn =>
             d.log[j].speaker = d.log[i].speaker
    BY <1>2, <1>9, <2>1 DEF Turns
  <2> QED
    BY <1>2, <1>4, <2>1, <2>2, <2>3
<1> QED
  BY <1>6, <1>7, <1>8, <1>9 DEF Turns, f

(* The fills stay right while the log gets any event but a fill, and no    *)
(* other word begins to wait.                                              *)
LEMMA OtherFills ==
  ASSUME NEW d, IsSeq(d.log), Fills(d), NEW event, event.kind # "speaker",
         NEW f, f.log = Append(d.log, event), f.unlabeled = d.unlabeled
  PROVE  Fills(f)
<1> DEFINE n == Len(d.log)
<1>2. /\ n \in Nat /\ DOMAIN d.log = 1 .. n /\ DOMAIN f.log = 1 .. (n + 1)
      /\ \A i \in 1 .. n : f.log[i] = d.log[i]
      /\ f.log[n + 1] = event
  BY Longer
<1> HIDE DEF n
<1>3. \A j \in DOMAIN f.log : f.log[j].kind = "speaker" => j \in 1 .. n
  BY <1>2
<1>4. \A i : Null(d.log, i) => Null(f.log, i)
  BY <1>2 DEF Null
<1> QED
  BY <1>2, <1>3, <1>4 DEF Fills

LEMMA PlusGoesOn ==
  ASSUME NEW d, IsDoc(d), IsSeq(d.log), NEW event
  PROVE  /\ GoesOn(d, Plus(d, event))
         /\ event.kind # "endpoint" => Later(d, Plus(d, event))
<1> DEFINE f == Plus(d, event)
           n == Len(d.log)
<1>1. f.log = Append(d.log, event) /\ f.unlabeled = d.unlabeled
  BY PlusFields
<1>2. /\ n \in Nat /\ DOMAIN d.log = 1 .. n /\ DOMAIN f.log = 1 .. (n + 1)
      /\ Len(f.log) = n + 1
      /\ \A i \in 1 .. n : f.log[i] = d.log[i]
      /\ f.log[n + 1] = event
  BY <1>1, Longer
<1> HIDE DEF f
<1>3. GoesOn(d, f)
  BY <1>2 DEF GoesOn
<1>4. ASSUME event.kind # "endpoint" PROVE Later(d, f)
  BY <1>1, <1>2, <1>3, <1>4 DEF Later
<1> QED
  BY <1>3, <1>4 DEF f

(* Commits that follow one another still do when the log goes on. *)
LEMMA SpellsOn ==
  ASSUME NEW d, NEW e, IsSeq(d.log), IsSeq(e.log), GoesOn(d, e), NEW ws, Spells(d.log, ws)
  PROVE  Spells(e.log, ws)
<1>1. /\ Len(d.log) \in Nat /\ DOMAIN d.log = 1 .. Len(d.log)
      /\ Len(e.log) \in Nat /\ DOMAIN e.log = 1 .. Len(e.log)
      /\ Len(d.log) <= Len(e.log)
      /\ \A i \in 1 .. Len(d.log) : e.log[i] = d.log[i]
  BY Longer DEF GoesOn
<1>2. /\ IsSeq(ws) /\ ws # << >>
      /\ \A k \in DOMAIN ws : ws[k] \in DOMAIN d.log /\ d.log[ws[k]].kind = "commit"
      /\ \A k, l \in DOMAIN ws : k < l => ws[k] < ws[l]
      /\ \A i \in DOMAIN d.log :
           d.log[i].kind = "commit" /\ ws[1] <= i /\ i <= ws[Len(ws)]
             => \E k \in DOMAIN ws : ws[k] = i
  BY DEF Spells
<1>3. Len(ws) \in DOMAIN ws
  <2>1. PICK T : ws \in Seq(T)
    BY <1>2 DEF IsSeq
  <2> QED
    BY <1>2, <2>1
<1>4. \A k \in DOMAIN ws : ws[k] \in DOMAIN e.log /\ e.log[ws[k]].kind = "commit"
  BY <1>1, <1>2
<1>5. ASSUME NEW i \in DOMAIN e.log,
             e.log[i].kind = "commit", ws[1] <= i, i <= ws[Len(ws)]
      PROVE  \E k \in DOMAIN ws : ws[k] = i
  <2>1. i \in DOMAIN d.log
    BY <1>1, <1>2, <1>3, <1>5
  <2> QED
    BY <1>1, <1>2, <1>5, <2>1
<1> QED
  BY <1>2, <1>4, <1>5 DEF Spells

LEMMA SameRenders ==
  ASSUME NEW d, Renders(d), NEW e, e.log = d.log, e.utterance = d.utterance
  PROVE  Renders(e)
  BY DEF Renders

LEMMA OtherRenders ==
  ASSUME NEW d, IsSeq(d.log), Renders(d), NEW event, event.kind \notin {"commit", "polished"},
         NEW e, e.log = Append(d.log, event), e.utterance = d.utterance
  PROVE  Renders(e)
<1> DEFINE n == Len(d.log)
<1>1. /\ n \in Nat /\ DOMAIN d.log = 1 .. n /\ DOMAIN e.log = 1 .. (n + 1)
      /\ Len(e.log) = n + 1 /\ IsSeq(e.log)
      /\ \A i \in 1 .. n : e.log[i] = d.log[i]
      /\ e.log[n + 1] = event
  BY Longer
<1>2. GoesOn(d, e)
  BY <1>1 DEF GoesOn
<1> HIDE DEF n
<1>3. \A i \in DOMAIN e.log : i \in 1 .. n \/ i = n + 1
  BY <1>1
<1>4. \A ws : Spells(d.log, ws) => Spells(e.log, ws)
  BY <1>1, <1>2, SpellsOn
<1>5. ASSUME NEW p \in DOMAIN e.log, e.log[p].kind = "polished"
      PROVE  /\ Spells(e.log, e.log[p].words)
             /\ e.log[p].from = e.log[p].words[1]
             /\ e.log[p].to = e.log[p].words[Len(e.log[p].words)]
  <2>1. p \in DOMAIN d.log /\ e.log[p] = d.log[p]
    BY <1>1, <1>3, <1>5
  <2> QED
    BY <1>4, <1>5, <2>1 DEF Renders
<1>6. ASSUME e.utterance # << >>
      PROVE  /\ Spells(e.log, e.utterance)
             /\ \A i \in DOMAIN e.log :
                  e.log[i].kind = "commit" => i <= e.utterance[Len(e.utterance)]
  <2>1. /\ Spells(d.log, e.utterance)
        /\ \A i \in DOMAIN d.log :
             d.log[i].kind = "commit" => i <= e.utterance[Len(e.utterance)]
    BY <1>6 DEF Renders
  <2>2. \A i \in DOMAIN e.log : e.log[i].kind = "commit" => i \in 1 .. n
    BY <1>1, <1>3
  <2> QED
    BY <1>1, <1>4, <2>1, <2>2
<1> QED
  BY <1>5, <1>6 DEF Renders

(* An event of no consequence to turns and labels. *)
LEMMA EmitPlain ==
  ASSUME NEW d, NEW now \in Nat, Sound(d, now), NEW event, event.at = now, Plain(event)
  PROVE  /\ Sound(Emit(d, event), now)
         /\ GoesOn(d, Emit(d, event))
         /\ event.kind # "endpoint" => Later(d, Emit(d, event))
         /\ Emit(d, event).lastEnd = d.lastEnd
         /\ Emit(d, event).unlabeled = d.unlabeled
<1>1. Shape(d, now) /\ IsDoc(d) /\ IsSeq(d.log) /\ Turns(d) /\ Fills(d) /\ Renders(d)
  BY DEF Sound, Shape
<1> DEFINE f == Plus(d, event)
<1>2. Emit(d, event) = f /\ Shape(f, now)
  BY <1>1, EmitIsPlus
<1>3. /\ f.log = Append(d.log, event) /\ f.unlabeled = d.unlabeled /\ f.lastEnd = d.lastEnd
      /\ f.utterance = d.utterance
  BY <1>1, PlusFields
<1>4. Turns(f)
  BY <1>1, PlainTurns DEF Plain
<1>5. GoesOn(d, f) /\ (event.kind # "endpoint" => Later(d, f))
  BY <1>1, PlusGoesOn
<1> HIDE DEF f
<1>6. Fills(f)
  BY <1>1, <1>3, OtherFills DEF Plain
<1>8. Renders(f)
  BY <1>1, <1>3, OtherRenders DEF Plain
<1>7. Sound(f, now)
  BY <1>2, <1>3, <1>4, <1>6, <1>8 DEF Sound
<1> QED
  BY <1>2, <1>3, <1>5, <1>7
-----------------------------------------------------------------------------
(* A turn opened, or the open one given its speaker.                       *)
Announcement(event) == event.kind \in {"turn_start", "turn_speaker"}

Opened(d, t, s) == [d EXCEPT !.turn = t, !.speaker = s]

LEMMA OpenedShape ==
  ASSUME NEW d, NEW now, Shape(d, now), NEW t, NEW s
  PROVE  /\ Shape(Opened(d, t, s), now)
         /\ Opened(d, t, s).log = d.log /\ Opened(d, t, s).unlabeled = d.unlabeled
         /\ Opened(d, t, s).turn = t /\ Opened(d, t, s).speaker = s
         /\ Opened(d, t, s).lastEnd = d.lastEnd /\ Opened(d, t, s).utterance = d.utterance
<1> DEFINE f == Opened(d, t, s)
<1>1. IsDoc(d)
  BY DEF Shape
<1>0. f = [log |-> d.log, turn |-> t, speaker |-> s, unlabeled |-> d.unlabeled,
           utterance |-> d.utterance, lastEnd |-> d.lastEnd, error |-> d.error]
  <2>1. PICK a, b, c, g, h, i, j :
          d = [log |-> a, turn |-> b, speaker |-> c, unlabeled |-> g,
               utterance |-> h, lastEnd |-> i, error |-> j]
    BY <1>1, Zenon DEF IsDoc
  <2>2. [d EXCEPT !.turn = t] =
          [log |-> a, turn |-> t, speaker |-> c, unlabeled |-> g,
           utterance |-> h, lastEnd |-> i, error |-> j]
    BY ONLY <2>1
  <2>3. Opened(d, t, s) = [[d EXCEPT !.turn = t] EXCEPT !.speaker = s]
    BY ONLY TRUE DEF Opened
  <2>4. Opened(d, t, s) =
          [log |-> a, turn |-> t, speaker |-> s, unlabeled |-> g,
           utterance |-> h, lastEnd |-> i, error |-> j]
    BY ONLY <2>2, <2>3
  <2> QED
    BY <2>1, <2>4
<1> HIDE DEF f
<1>2. /\ IsDoc(f)
      /\ f.log = d.log /\ f.turn = t /\ f.speaker = s
      /\ f.unlabeled = d.unlabeled /\ f.utterance = d.utterance
      /\ f.lastEnd = d.lastEnd /\ f.error = d.error
  BY <1>0 DEF IsDoc
<1>3. Shape(f, now)
  BY <1>2 DEF Shape
<1> QED
  BY <1>2, <1>3 DEF f

LEMMA AnnouncedTurns ==
  ASSUME NEW d, IsSeq(d.log), Turns(d), NEW t, NEW s,
         \/ t = d.turn /\ d.speaker = None
         \/ t = d.turn + 1,
         NEW event, Announcement(event), event.turn = t, event.speaker = s,
         NEW f, f.log = Append(d.log, event), f.turn = t, f.speaker = s
  PROVE  Turns(f)
<1> DEFINE n == Len(d.log)
<1>2. /\ n \in Nat /\ DOMAIN d.log = 1 .. n /\ DOMAIN f.log = 1 .. (n + 1)
      /\ \A i \in 1 .. n : f.log[i] = d.log[i]
      /\ f.log[n + 1] = event
  BY Longer
<1> HIDE DEF n
<1>3. \A i \in 1 .. (n + 1) : i \in 1 .. n \/ i = n + 1
  BY <1>2
<1>4. \A j \in 1 .. n : Says(f.log, j) <=> Says(d.log, j)
  BY <1>2 DEF Says
<1>5. /\ Says(f.log, n + 1) <=> s # None
      /\ f.log[n + 1].kind # "commit"
      /\ f.log[n + 1].turn = t /\ f.log[n + 1].speaker = s
      /\ n + 1 \in DOMAIN f.log
  BY <1>2 DEF Says, Announcement
<1>6. d.turn \in Nat /\ t \in Nat /\ d.turn <= t
  BY DEF Turns
<1>7. ASSUME NEW j \in 1 .. n, Says(d.log, j)
      PROVE  /\ d.log[j].turn \in Nat /\ d.log[j].turn <= d.turn
             /\ d.log[j].turn # t
  <2>1. /\ d.log[j].turn \in Nat /\ d.log[j].turn <= d.turn
        /\ d.log[j].turn = d.turn => d.log[j].speaker = d.speaker
    BY <1>2, <1>7 DEF Turns
  <2>2. d.log[j].speaker # None
    BY <1>7 DEF Says
  <2>3. CASE t = d.turn /\ d.speaker = None
    BY <2>1, <2>2, <2>3
  <2>4. CASE t = d.turn + 1
    BY <1>6, <2>1, <2>4
  <2> QED
    BY <2>1, <2>3, <2>4
<1>8. ASSUME NEW j \in DOMAIN f.log, Says(f.log, j)
      PROVE  /\ f.log[j].turn \in Nat /\ f.log[j].turn <= f.turn
             /\ f.log[j].turn = f.turn => f.log[j].speaker = f.speaker
  <2>1. CASE j \in 1 .. n
    BY <1>2, <1>4, <1>6, <1>7, <1>8, <2>1
  <2>2. CASE j = n + 1
    BY <1>5, <1>6, <2>2
  <2> QED
    BY <1>2, <1>3, <2>1, <2>2
<1>9. ASSUME NEW i \in DOMAIN f.log, f.log[i].kind = "commit", f.log[i].speaker # None
      PROVE  /\ \E j \in 1 .. i : Says(f.log, j) /\ f.log[j].turn = f.log[i].turn
             /\ \A j \in 1 .. i : Says(f.log, j) /\ f.log[j].turn = f.log[i].turn =>
                  f.log[j].speaker = f.log[i].speaker
  <2>1. i \in 1 .. n
    BY <1>2, <1>3, <1>5, <1>9
  <2>2. \A j \in 1 .. i : j \in 1 .. n
    BY <1>2, <2>1
  <2>3. /\ \E j \in 1 .. i : Says(d.log, j) /\ d.log[j].turn = d.log[i].turn
        /\ \A j \in 1 .. i : Says(d.log, j) /\ d.log[j].turn = d.log[i].turn =>
             d.log[j].speaker = d.log[i].speaker
    BY <1>2, <1>9, <2>1 DEF Turns
  <2> QED
    BY <1>2, <1>4, <2>1, <2>2, <2>3
<1>10. f.speaker # None => \E j \in DOMAIN f.log : Says(f.log, j) /\ f.log[j].turn = f.turn
  BY <1>5
<1> QED
  BY <1>6, <1>8, <1>9, <1>10 DEF Turns

LEMMA Announces ==
  ASSUME NEW d, NEW now \in Nat, Sound(d, now), NEW t, NEW s,
         \/ t = d.turn /\ d.speaker = None
         \/ t = d.turn + 1,
         NEW event, Announcement(event), event.at = now, event.turn = t, event.speaker = s,
         NEW e, e = Emit(Opened(d, t, s), event)
  PROVE  /\ Sound(e, now)
         /\ Later(d, e)
         /\ e.speaker = s /\ e.turn = t
         /\ e.lastEnd = d.lastEnd /\ e.unlabeled = d.unlabeled /\ e.utterance = d.utterance
<1> DEFINE o == Opened(d, t, s)
<1>1. Shape(d, now) /\ IsDoc(d) /\ IsSeq(d.log) /\ Turns(d) /\ Fills(d) /\ Renders(d)
  BY DEF Sound, Shape
<1>2. /\ Shape(o, now)
      /\ o.log = d.log /\ o.unlabeled = d.unlabeled
      /\ o.turn = t /\ o.speaker = s
      /\ o.lastEnd = d.lastEnd /\ o.utterance = d.utterance
  BY <1>1, OpenedShape
<1> HIDE DEF o
<1>3. e = Plus(o, event) /\ Shape(e, now)
  BY <1>2, EmitIsPlus DEF o
<1>9. IsDoc(o)
  BY <1>2 DEF Shape
<1>4. /\ e.log = Append(d.log, event) /\ e.unlabeled = d.unlabeled
      /\ e.turn = t /\ e.speaker = s
      /\ e.lastEnd = d.lastEnd /\ e.utterance = d.utterance
  BY <1>2, <1>3, <1>9, PlusFields, SMTT(30)
<1>5. Turns(e)
  BY <1>1, <1>4, AnnouncedTurns, ZenonT(60)
<1>6. Fills(e)
  BY <1>1, <1>4, OtherFills DEF Announcement
<1>7. Later(o, e)
  BY <1>1, <1>2, <1>3, <1>9, PlusGoesOn DEF Announcement
<1>8. Later(d, e)
  BY <1>2, <1>7 DEF Later, GoesOn
<1>10. Renders(e)
  BY <1>1, <1>4, OtherRenders DEF Announcement
<1> QED
  BY <1>3, <1>4, <1>5, <1>6, <1>8, <1>10 DEF Sound

LEMMA OpenTurnKeeps ==
  ASSUME NEW d, NEW now \in Nat, Sound(d, now), NEW speaker, NEW start,
         NEW e, e = OpenTurn(d, speaker, now, start)
  PROVE  /\ Sound(e, now)
         /\ Later(d, e)
         /\ speaker # None => e.speaker = speaker
         /\ e.lastEnd = d.lastEnd /\ e.unlabeled = d.unlabeled /\ e.utterance = d.utterance
<1>1. d.turn \in Nat /\ IsDoc(d)
  BY DEF Sound, Turns, Shape
<1>2. CASE d.turn > 0 /\ speaker \in {None, d.speaker}
  BY <1>2, SameIsLater DEF OpenTurn
<1>3. CASE ~ (d.turn > 0 /\ speaker \in {None, d.speaker}) /\ d.turn > 0 /\ d.speaker = None
  <2> DEFINE event == [kind |-> "turn_speaker", at |-> now, turn |-> d.turn,
                       speaker |-> speaker]
  <2>1. [d EXCEPT !.speaker = speaker] = Opened(d, d.turn, speaker)
    BY <1>1 DEF Opened, IsDoc
  <2>2. e = Emit(Opened(d, d.turn, speaker), event)
    BY <1>3, <2>1 DEF OpenTurn
  <2>3. Announcement(event) /\ event.at = now /\ event.turn = d.turn /\ event.speaker = speaker
    BY DEF Announcement
  <2> HIDE DEF event
  <2> QED
    BY <1>3, <2>2, <2>3, Announces
<1>4. CASE /\ ~ (d.turn > 0 /\ speaker \in {None, d.speaker})
           /\ ~ (d.turn > 0 /\ d.speaker = None)
  <2> DEFINE event == [kind |-> "turn_start", at |-> now, turn |-> d.turn + 1,
                       speaker |-> speaker, start |-> start]
  <2>2. e = Emit(Opened(d, d.turn + 1, speaker), event)
    BY <1>4 DEF OpenTurn, Opened
  <2>3. /\ Announcement(event) /\ event.at = now /\ event.turn = d.turn + 1
        /\ event.speaker = speaker
    BY DEF Announcement
  <2> HIDE DEF event
  <2> QED
    BY <2>2, <2>3, Announces
<1> QED
  BY <1>2, <1>3, <1>4
-----------------------------------------------------------------------------
(* One word committed.                                                     *)
Counted(f, stop, said, waiting) ==
  [f EXCEPT !.lastEnd = stop, !.utterance = said, !.unlabeled = waiting]

LEMMA CountedShape ==
  ASSUME NEW f, NEW now, Shape(f, now), NEW stop \in Nat, stop <= now,
         NEW said, IsSeq(said), NEW waiting, IsSeq(waiting),
         NEW e, e = Counted(f, stop, said, waiting)
  PROVE  /\ Shape(e, now)
         /\ e.log = f.log /\ e.turn = f.turn /\ e.speaker = f.speaker
         /\ e.lastEnd = stop /\ e.utterance = said /\ e.unlabeled = waiting
<1>1. IsDoc(f)
  BY DEF Shape
<1>2. PICK a, b, c, g, h, i, j :
        f = [log |-> a, turn |-> b, speaker |-> c, unlabeled |-> g,
             utterance |-> h, lastEnd |-> i, error |-> j]
  BY <1>1, Zenon DEF IsDoc
<1>3. PICK x : x = [f EXCEPT !.lastEnd = stop]
  OBVIOUS
<1>4. PICK y : y = [x EXCEPT !.utterance = said]
  OBVIOUS
<1>5. e = [y EXCEPT !.unlabeled = waiting]
  BY <1>3, <1>4 DEF Counted
<1>6. e = [log |-> a, turn |-> b, speaker |-> c, unlabeled |-> waiting,
           utterance |-> said, lastEnd |-> stop, error |-> j]
  <2>1. x = [log |-> a, turn |-> b, speaker |-> c, unlabeled |-> g,
             utterance |-> h, lastEnd |-> stop, error |-> j]
    BY ONLY <1>2, <1>3
  <2>2. y = [log |-> a, turn |-> b, speaker |-> c, unlabeled |-> g,
             utterance |-> said, lastEnd |-> stop, error |-> j]
    BY ONLY <1>4, <2>1
  <2> QED
    BY ONLY <1>5, <2>2
<1>7. /\ IsDoc(e)
      /\ e.log = f.log /\ e.turn = f.turn /\ e.speaker = f.speaker /\ e.error = f.error
      /\ e.lastEnd = stop /\ e.utterance = said /\ e.unlabeled = waiting
  BY ONLY <1>2, <1>6 DEF IsDoc
<1>8. Shape(e, now)
  BY <1>7 DEF Shape
<1> QED
  BY <1>7, <1>8

LEMMA CommitTurns ==
  ASSUME NEW d, IsSeq(d.log), Turns(d), NEW event, event.kind = "commit",
         event.turn = d.turn, event.speaker # None => d.speaker = event.speaker,
         NEW e, e.log = Append(d.log, event), e.turn = d.turn, e.speaker = d.speaker
  PROVE  Turns(e)
<1> DEFINE n == Len(d.log)
<1>2. /\ n \in Nat /\ DOMAIN d.log = 1 .. n /\ DOMAIN e.log = 1 .. (n + 1)
      /\ \A i \in 1 .. n : e.log[i] = d.log[i]
      /\ e.log[n + 1] = event
  BY Longer
<1> HIDE DEF n
<1>3. \A i \in 1 .. (n + 1) : i \in 1 .. n \/ i = n + 1
  BY <1>2
<1>4. \A j \in 1 .. n : Says(e.log, j) <=> Says(d.log, j)
  BY <1>2 DEF Says
<1>5. ~ Says(e.log, n + 1)
  BY <1>2 DEF Says
<1>6. e.turn \in Nat
  BY DEF Turns
<1>7. ASSUME NEW j \in 1 .. n, Says(e.log, j)
      PROVE  /\ e.log[j].turn \in Nat /\ e.log[j].turn <= e.turn
             /\ e.log[j].turn = e.turn => e.log[j].speaker = e.speaker
  BY <1>2, <1>4, <1>7, SMTT(30) DEF Turns
<1>8. ASSUME e.speaker # None
      PROVE  \E j \in 1 .. n : Says(e.log, j) /\ e.log[j].turn = e.turn
  BY <1>2, <1>4, <1>8 DEF Turns
<1>9. ASSUME NEW i \in 1 .. n, e.log[i].kind = "commit", e.log[i].speaker # None
      PROVE  /\ \E j \in 1 .. i : Says(e.log, j) /\ e.log[j].turn = e.log[i].turn
             /\ \A j \in 1 .. i : Says(e.log, j) /\ e.log[j].turn = e.log[i].turn =>
                  e.log[j].speaker = e.log[i].speaker
  <2>1. \A j \in 1 .. i : j \in 1 .. n
    BY <1>2
  <2>2. /\ \E j \in 1 .. i : Says(d.log, j) /\ d.log[j].turn = d.log[i].turn
        /\ \A j \in 1 .. i : Says(d.log, j) /\ d.log[j].turn = d.log[i].turn =>
             d.log[j].speaker = d.log[i].speaker
    BY <1>2, <1>9, ZenonT(60) DEF Turns
  <2> QED
    BY <1>2, <1>4, <2>1, <2>2
<1>10. ASSUME event.speaker # None
       PROVE  /\ \E j \in 1 .. (n + 1) : Says(e.log, j) /\ e.log[j].turn = event.turn
              /\ \A j \in 1 .. (n + 1) : Says(e.log, j) /\ e.log[j].turn = event.turn =>
                   e.log[j].speaker = event.speaker
  <2>1. e.speaker = event.speaker /\ e.turn = event.turn
    BY <1>10
  <2>2. PICK j \in 1 .. n : Says(e.log, j) /\ e.log[j].turn = e.turn
    BY <1>8, <1>10, <2>1
  <2>3. j \in 1 .. (n + 1)
    BY <1>2
  <2> QED
    BY <1>3, <1>5, <1>7, <2>1, <2>2, <2>3
<1>11. \A j \in DOMAIN e.log : Says(e.log, j) =>
         /\ e.log[j].turn \in Nat /\ e.log[j].turn <= e.turn
         /\ e.log[j].turn = e.turn => e.log[j].speaker = e.speaker
  BY <1>2, <1>3, <1>5, <1>7
<1>12. e.speaker # None => \E j \in DOMAIN e.log : Says(e.log, j) /\ e.log[j].turn = e.turn
  <2>1. \A j \in 1 .. n : j \in DOMAIN e.log
    BY <1>2
  <2> QED
    BY <1>8, <2>1
<1>13. ASSUME NEW i \in DOMAIN e.log, e.log[i].kind = "commit", e.log[i].speaker # None
       PROVE  /\ \E j \in 1 .. i : Says(e.log, j) /\ e.log[j].turn = e.log[i].turn
              /\ \A j \in 1 .. i : Says(e.log, j) /\ e.log[j].turn = e.log[i].turn =>
                   e.log[j].speaker = e.log[i].speaker
  <2>1. CASE i \in 1 .. n
    BY <1>9, <1>13, <2>1
  <2>2. CASE i = n + 1
    BY <1>2, <1>10, <1>13, <2>2
  <2> QED
    BY <1>2, <1>3, <2>1, <2>2
<1> QED
  BY <1>6, <1>11, <1>12, <1>13 DEF Turns

LEMMA CommitFills ==
  ASSUME NEW d, IsSeq(d.log), IsSeq(d.unlabeled), Fills(d),
         NEW event, event.kind = "commit", event.speaker = None,
         NEW u, u.seq = Len(d.log) + 1,
         NEW e, e.log = Append(d.log, event), e.unlabeled = Append(d.unlabeled, u)
  PROVE  Fills(e)
<1> DEFINE n == Len(d.log)
           m == Len(d.unlabeled)
<1>2. /\ n \in Nat /\ DOMAIN d.log = 1 .. n /\ DOMAIN e.log = 1 .. (n + 1)
      /\ \A i \in 1 .. n : e.log[i] = d.log[i]
      /\ e.log[n + 1] = event
  BY Longer
<1>3. /\ m \in Nat /\ DOMAIN d.unlabeled = 1 .. m /\ DOMAIN e.unlabeled = 1 .. (m + 1)
      /\ \A i \in 1 .. m : e.unlabeled[i] = d.unlabeled[i]
      /\ e.unlabeled[m + 1] = u
  BY Longer
<1>4. u.seq = n + 1
  OBVIOUS
<1>5. \A v \in 1 .. m : d.unlabeled[v].seq \in Nat /\ d.unlabeled[v].seq <= n
  BY <1>3, WaitingPlace
<1> HIDE DEF n, m
<1>6. \A i \in 1 .. (m + 1) : i \in 1 .. m \/ i = m + 1
  BY <1>3
<1>7. \A i : Null(d.log, i) => Null(e.log, i)
  BY <1>2 DEF Null
<1>8. Null(e.log, n + 1)
  BY <1>2 DEF Null
<1>9. \A j \in DOMAIN e.log : e.log[j].kind = "speaker" =>
        j \in 1 .. n /\ d.log[j] = e.log[j] /\ e.log[j].seq \in 1 .. n
  <2>1. \A j \in DOMAIN e.log : e.log[j].kind = "speaker" => j \in 1 .. n /\ d.log[j] = e.log[j]
    BY <1>2
  <2> QED
    BY <1>2, <2>1 DEF Fills, Null
<1>10. \A j \in DOMAIN e.log : e.log[j].kind = "speaker" => Null(e.log, e.log[j].seq)
  BY <1>2, <1>7, <1>9 DEF Fills
<1>11. \A j, k \in DOMAIN e.log :
         e.log[j].kind = "speaker" /\ e.log[k].kind = "speaker" /\ e.log[j].seq = e.log[k].seq
           => j = k
  BY <1>2, <1>9 DEF Fills
<1>12. \A v \in DOMAIN e.unlabeled : Null(e.log, e.unlabeled[v].seq)
  <2>1. \A v \in 1 .. m : Null(e.log, e.unlabeled[v].seq)
    BY <1>3, <1>7 DEF Fills
  <2> QED
    BY <1>3, <1>4, <1>6, <1>8, <2>1
<1>13. \A v, w \in DOMAIN e.unlabeled : v < w => e.unlabeled[v].seq < e.unlabeled[w].seq
  <2> SUFFICES ASSUME NEW v \in 1 .. (m + 1), NEW w \in 1 .. (m + 1), v < w
               PROVE  e.unlabeled[v].seq < e.unlabeled[w].seq
    BY <1>3
  <2>1. v \in 1 .. m
    BY <1>3
  <2>2. CASE w \in 1 .. m
    BY <1>3, <2>1, <2>2 DEF Fills
  <2>3. CASE w = m + 1
    BY <1>2, <1>3, <1>4, <1>5, <2>1, <2>3, SMTT(30)
  <2> QED
    BY <1>6, <2>2, <2>3
<1>14. ASSUME NEW v \in DOMAIN e.unlabeled, NEW j \in DOMAIN e.log, e.log[j].kind = "speaker"
       PROVE  e.log[j].seq # e.unlabeled[v].seq
  <2>1. CASE v \in 1 .. m
    BY <1>2, <1>3, <1>9, <1>14, <2>1, SMTT(30) DEF Fills
  <2>2. CASE v = m + 1
    BY <1>2, <1>3, <1>4, <1>9, <1>14, <2>2, SMTT(30)
  <2> QED
    BY <1>3, <1>6, <2>1, <2>2
<1> QED
  BY <1>10, <1>11, <1>12, <1>13, <1>14 DEF Fills

(* A commit goes on with the stretch that is still to be polished, or      *)
(* begins one.                                                             *)
LEMMA CommitRenders ==
  ASSUME NEW d, IsSeq(d.log), IsSeq(d.utterance), Renders(d),
         NEW event, event.kind = "commit",
         NEW e, e.log = Append(d.log, event), e.utterance = Append(d.utterance, Len(d.log) + 1)
  PROVE  Renders(e)
<1> DEFINE n == Len(d.log)
           m == Len(d.utterance)
           ws == e.utterance
<1>1. /\ n \in Nat /\ DOMAIN d.log = 1 .. n /\ DOMAIN e.log = 1 .. (n + 1)
      /\ Len(e.log) = n + 1 /\ IsSeq(e.log)
      /\ \A i \in 1 .. n : e.log[i] = d.log[i]
      /\ e.log[n + 1] = event
  BY Longer
<1>2. /\ m \in Nat /\ DOMAIN d.utterance = 1 .. m /\ DOMAIN ws = 1 .. (m + 1)
      /\ Len(ws) = m + 1 /\ IsSeq(ws) /\ ws # << >>
      /\ \A k \in 1 .. m : ws[k] = d.utterance[k]
      /\ ws[m + 1] = n + 1
  BY Longer, SMTT(30)
<1>3. GoesOn(d, e)
  BY <1>1 DEF GoesOn
<1>4. m = 0 \/ d.utterance # << >>
  OBVIOUS
<1> HIDE DEF n, m, ws
<1>5. \A i \in DOMAIN e.log : i \in 1 .. n \/ i = n + 1
  BY <1>1
<1>6. \A k \in DOMAIN ws : k \in 1 .. m \/ k = m + 1
  BY <1>2
<1>7. ASSUME NEW p \in DOMAIN e.log, e.log[p].kind = "polished"
      PROVE  /\ Spells(e.log, e.log[p].words)
             /\ e.log[p].from = e.log[p].words[1]
             /\ e.log[p].to = e.log[p].words[Len(e.log[p].words)]
  <2>1. p \in DOMAIN d.log /\ e.log[p] = d.log[p]
    BY <1>1, <1>5, <1>7
  <2>2. Spells(d.log, d.log[p].words)
    BY <1>7, <2>1 DEF Renders
  <2>3. Spells(e.log, d.log[p].words)
    BY <1>1, <1>3, <2>2, SpellsOn, ZenonT(60)
  <2> QED
    BY <1>7, <2>1, <2>3 DEF Renders
<1>8. /\ \A k \in 1 .. m : d.utterance[k] \in 1 .. n /\ d.log[d.utterance[k]].kind = "commit"
      /\ \A k, l \in 1 .. m : k < l => d.utterance[k] < d.utterance[l]
      /\ \A i \in 1 .. n : d.log[i].kind = "commit" /\ m # 0 /\ d.utterance[1] <= i
           => \E k \in 1 .. m : d.utterance[k] = i
  <2>1. CASE m = 0
    BY <1>2, <2>1
  <2>2. CASE m # 0
    <3>1. /\ Spells(d.log, d.utterance)
          /\ \A i \in 1 .. n : d.log[i].kind = "commit" => i <= d.utterance[Len(d.utterance)]
      BY <1>1, <1>4, <2>2 DEF Renders
    <3> QED
      BY <1>1, <1>2, <3>1 DEF Spells
  <2> QED
    BY <2>1, <2>2
<1>9. \A k \in DOMAIN ws : ws[k] \in DOMAIN e.log /\ e.log[ws[k]].kind = "commit"
  <2>1. ASSUME NEW k \in 1 .. m PROVE ws[k] \in DOMAIN e.log /\ e.log[ws[k]].kind = "commit"
    <3>1. ws[k] = d.utterance[k]
      BY <1>2
    <3>2. d.utterance[k] \in 1 .. n /\ d.log[d.utterance[k]].kind = "commit"
      BY <1>8
    <3> QED
      BY <1>1, <3>1, <3>2
  <2>2. ws[m + 1] \in DOMAIN e.log /\ e.log[ws[m + 1]].kind = "commit"
    BY <1>1, <1>2
  <2> QED
    BY <1>6, <2>1, <2>2
<1>10. ASSUME NEW k \in DOMAIN ws, NEW l \in DOMAIN ws, k < l
       PROVE  ws[k] < ws[l]
  <2>1. k \in 1 .. m
    BY <1>2, <1>10
  <2>2. CASE l \in 1 .. m
    BY <1>2, <1>8, <1>10, <2>1, <2>2
  <2>3. CASE l = m + 1
    BY <1>1, <1>2, <1>8, <2>1, <2>3
  <2> QED
    BY <1>6, <2>2, <2>3
<1>11. ASSUME NEW i \in DOMAIN e.log, e.log[i].kind = "commit", ws[1] <= i
       PROVE  \E k \in DOMAIN ws : ws[k] = i
  <2>1. CASE i = n + 1
    BY <1>2, <2>1, SMTT(30)
  <2>2. CASE i \in 1 .. n
    <3>1. m # 0
      BY <1>1, <1>2, <1>11, <2>2
    <3>2. ws[1] = d.utterance[1]
      BY <1>2, <3>1
    <3>3. PICK k \in 1 .. m : d.utterance[k] = i
      BY <1>1, <1>8, <1>11, <2>2, <3>1, <3>2
    <3>4. ws[k] = i /\ k \in DOMAIN ws
      BY <1>2, <3>3
    <3> QED
      BY <3>4
  <2> QED
    BY <1>5, <2>1, <2>2
<1>12. Spells(e.log, ws)
  BY <1>2, <1>9, <1>10, <1>11 DEF Spells
<1>13. \A i \in DOMAIN e.log : i <= ws[Len(ws)]
  BY <1>1, <1>2
<1> QED
  BY <1>7, <1>12, <1>13 DEF Renders, ws

LEMMA SoloIsSomebody == SoloLabel # None
  BY TrackerAssumption DEF SoloLabel

LEMMA CommitWordKeeps ==
  ASSUME NEW d, NEW now \in Nat, Sound(d, now), NEW tr, NEW word,
         word.end \in Nat, word.end <= now, word.start \in Nat, d.lastEnd <= word.start,
         NEW e, e = CommitWord(d, tr, word, now)
  PROVE  /\ Sound(e, now)
         /\ Later(d, e)
         /\ e.lastEnd = word.end
<1> DEFINE speaker == SpeakerFor(tr, word)
           o == OpenTurn(d, speaker, now, word.start)
           seq == Len(o.log) + 1
           event == [kind |-> "commit", at |-> now, text |-> word.text,
                     whole |-> word.whole, start |-> word.start, end |-> word.end,
                     speaker |-> speaker, turn |-> o.turn]
           u == [seq |-> seq, start |-> word.start, end |-> word.end]
           said == Append(d.utterance, seq)
           waiting == IF speaker = None THEN Append(d.unlabeled, u) ELSE d.unlabeled
           f == Plus(o, event)
<1>1. /\ Sound(o, now) /\ Later(d, o)
      /\ speaker # None => o.speaker = speaker
      /\ o.lastEnd = d.lastEnd /\ o.unlabeled = d.unlabeled /\ o.utterance = d.utterance
  <2> HIDE DEF speaker
  <2> QED
    BY OpenTurnKeeps
<1> HIDE DEF o, speaker
<1>2. /\ Shape(d, now) /\ Shape(o, now) /\ Turns(o) /\ Fills(o) /\ Renders(o)
      /\ Solo => o.unlabeled = << >>
  BY <1>1 DEF Sound
<1>3. IsDoc(o) /\ IsSeq(o.log) /\ IsSeq(d.log) /\ IsSeq(d.unlabeled) /\ IsSeq(d.utterance)
      /\ o.error = FALSE /\ d.error = FALSE /\ d.lastEnd \in Nat
  BY <1>2 DEF Shape
<1>4. e = Counted(Emit(o, event), word.end, said, waiting)
  <2>1. ~ (word.end > now) /\ ~ (o.error \/ word.start < o.lastEnd)
    BY <1>1, <1>3
  <2> QED
    BY <1>3, <2>1 DEF CommitWord, Counted, o, speaker
<1>5. /\ event.kind = "commit" /\ event.at = now /\ event.turn = o.turn
      /\ event.speaker = speaker
  OBVIOUS
<1>6. u.seq = Len(o.log) + 1
  OBVIOUS
<1> HIDE DEF event, u, f
<1>7. Emit(o, event) = f /\ Shape(f, now)
  BY <1>2, <1>5, EmitIsPlus DEF f
<1>8. f.log = Append(o.log, event) /\ f.turn = o.turn /\ f.speaker = o.speaker
  BY <1>3, PlusFields DEF f
<1>9. IsSeq(said) /\ IsSeq(waiting)
  BY <1>3, Longer
<1>10. e = Counted(f, word.end, said, waiting)
  BY <1>4, <1>7
<1> HIDE DEF said
<1>11. /\ Shape(e, now)
       /\ e.log = f.log /\ e.turn = f.turn /\ e.speaker = f.speaker
       /\ e.lastEnd = word.end /\ e.unlabeled = waiting /\ e.utterance = said
  <2> HIDE DEF waiting
  <2> QED
    BY <1>7, <1>9, <1>10, CountedShape
<1>12. Turns(e)
  <2>1. /\ e.log = Append(o.log, event) /\ e.turn = o.turn /\ e.speaker = o.speaker
        /\ event.speaker # None => o.speaker = event.speaker
    BY <1>1, <1>5, <1>8, <1>11
  <2> QED
    BY <1>2, <1>3, <1>5, <2>1, CommitTurns
<1>13. Fills(e)
  <2>1. CASE speaker = None
    <3>1. e.log = Append(o.log, event) /\ e.unlabeled = Append(o.unlabeled, u)
      BY <1>1, <1>8, <1>11, <2>1
    <3>2. event.kind = "commit" /\ event.speaker = None
      BY <1>5, <2>1
    <3>3. IsSeq(o.unlabeled)
      BY <1>1, <1>3
    <3> QED
      BY <1>2, <1>3, <1>6, <3>1, <3>2, <3>3, CommitFills
  <2>2. CASE speaker # None
    <3>1. e.log = Append(o.log, event) /\ e.unlabeled = o.unlabeled
      BY <1>1, <1>8, <1>11, <2>2
    <3>2. event.kind # "speaker"
      BY <1>5
    <3> QED
      BY <1>2, <1>3, <3>1, <3>2, OtherFills
  <2> QED
    BY <2>1, <2>2
<1>14. Solo => e.unlabeled = << >>
  <2>1. Solo => speaker # None
    BY SoloIsSomebody DEF SpeakerFor, speaker
  <2> QED
    BY <1>1, <1>2, <1>11, <2>1
<1>18. Renders(e)
  <2>1. /\ e.log = Append(o.log, event) /\ event.kind = "commit"
        /\ e.utterance = Append(o.utterance, Len(o.log) + 1)
    BY <1>1, <1>5, <1>8, <1>11 DEF said
  <2>2. IsSeq(o.utterance)
    BY <1>1, <1>3
  <2> QED
    BY <1>2, <1>3, <2>1, <2>2, CommitRenders
<1>15. Sound(e, now)
  BY <1>11, <1>12, <1>13, <1>14, <1>18 DEF Sound
<1>16. Later(o, e)
  <2>1. GoesOn(o, f) /\ Later(o, f)
    BY <1>3, <1>5, PlusGoesOn DEF f
  <2>2. ASSUME NEW v \in DOMAIN e.unlabeled
        PROVE  \/ \E w \in DOMAIN o.unlabeled : e.unlabeled[v] = o.unlabeled[w]
               \/ Len(o.log) < e.unlabeled[v].seq
    <3>1. CASE speaker # None
      BY <1>1, <1>11, <2>2, <3>1
    <3>2. CASE speaker = None
      <4>1. e.unlabeled = Append(o.unlabeled, u) /\ IsSeq(o.unlabeled)
        BY <1>1, <1>3, <1>11, <3>2
      <4>2. /\ DOMAIN o.unlabeled = 1 .. Len(o.unlabeled) /\ Len(o.unlabeled) \in Nat
            /\ DOMAIN e.unlabeled = 1 .. (Len(o.unlabeled) + 1)
            /\ \A i \in 1 .. Len(o.unlabeled) : e.unlabeled[i] = o.unlabeled[i]
            /\ e.unlabeled[Len(o.unlabeled) + 1] = u
            /\ Len(o.log) \in Nat
        BY <1>3, <4>1, Longer
      <4>3. v \in 1 .. Len(o.unlabeled) \/ v = Len(o.unlabeled) + 1
        BY <2>2, <4>2
      <4> QED
        BY <1>6, <4>2, <4>3, SMTT(30)
    <3> QED
      BY <3>1, <3>2
  <2> QED
    BY <1>11, <2>1, <2>2 DEF Later, GoesOn
<1>17. Later(d, e)
  <2>1. IsSeq(e.log)
    BY <1>11 DEF Shape
  <2>2. \A v \in DOMAIN e.unlabeled : e.unlabeled[v].seq \in Nat
    BY <1>13, <2>1, WaitingPlace
  <2> QED
    BY ONLY <1>1, <1>3, <1>16, <2>1, <2>2, LaterAfter
<1> QED
  BY <1>11, <1>15, <1>17
-----------------------------------------------------------------------------
(* Words that follow one another in time, as those of one hypothesis do.   *)
Tiling(ws, now) ==
  /\ IsFiniteSet(ws)
  /\ \A w \in ws : /\ w.id \in Nat /\ w.start \in Nat /\ w.end \in Nat
                   /\ w.start <= w.end /\ w.end <= now
  /\ \A v, w \in ws : \/ v = w
                      \/ v.id < w.id /\ v.end <= w.start
                      \/ w.id < v.id /\ w.end <= v.start

LEMMA PartTiles ==
  ASSUME NEW ws, NEW now, Tiling(ws, now), NEW s \in SUBSET ws
  PROVE  Tiling(s, now)
<1>1. IsFiniteSet(s)
  BY FS_Subset DEF Tiling
<1> QED
  BY <1>1 DEF Tiling

LEMMA StillFinite ==
  ASSUME NEW S, IsFiniteSet(S)
  PROVE  Committing!IsFiniteSet(S) /\ Filling!IsFiniteSet(S)
  BY DEF IsFiniteSet, Committing!IsFiniteSet, Filling!IsFiniteSet

(* The last of them begins where the others have ended. *)
LEMMA LastWord ==
  ASSUME NEW ws, NEW now, Tiling(ws, now), ws # {}
  PROVE  LastOf(ws) \in ws /\ \A v \in ws \ {LastOf(ws)} : v.end <= LastOf(ws).start
<1> DEFINE R == {z \in ws \X ws : z[1].id < z[2].id}
<1>1. Committing!IsFiniteSet(ws)
  BY StillFinite DEF Tiling
<1>2. \A v, w \in ws : <<v, w>> \in R <=> v.id < w.id
  OBVIOUS
<1>3. \A w \in ws : w.id \in Nat /\ w.start \in Nat /\ w.end \in Nat /\ w.start <= w.end
  BY DEF Tiling
<1>4. /\ \A v, w \in ws : v = w \/ <<v, w>> \in R \/ <<w, v>> \in R
      /\ \A u, v, w \in ws : <<u, v>> \in R /\ <<v, w>> \in R => <<u, w>> \in R
  <2>1. \A v, w \in ws : v = w \/ v.id < w.id \/ w.id < v.id
    BY DEF Tiling
  <2>2. \A u, v, w \in ws : u.id < v.id /\ v.id < w.id => u.id < w.id
    BY <1>3
  <2> HIDE DEF R
  <2> QED
    BY <1>2, <2>1, <2>2
<1> HIDE DEF R
<1>9. ws # {}
  OBVIOUS
<1>5. PICK x \in ws : \A v \in ws : v = x \/ <<v, x>> \in R
  BY ONLY <1>1, <1>4, <1>9, Committing!LastMember
<1>6. \A v \in ws : v = x \/ Sooner(v, x)
  <2> SUFFICES ASSUME NEW v \in ws, v # x PROVE Sooner(v, x)
    OBVIOUS
  <2>2. v.id < x.id /\ v \in ws /\ x \in ws
    BY <1>2, <1>5
  <2>3. \/ v = x
        \/ v.id < x.id /\ v.end <= x.start
        \/ x.id < v.id /\ x.end <= v.start
    BY <2>2 DEF Tiling
  <2>4. v.id \in Nat /\ x.id \in Nat
    BY <1>3, <2>2
  <2>1. v.id < x.id /\ v.end <= x.start
    BY <2>2, <2>3, <2>4
  <2> QED
    BY <1>3, <2>1 DEF Sooner
<1> DEFINE l == LastOf(ws)
<1>7. l \in ws /\ \A v \in ws : v = l \/ Sooner(v, l)
  BY <1>6 DEF LastOf
<1> HIDE DEF l
<1>8. ASSUME NEW v \in ws, v # l PROVE v.end <= l.start
  <2>1. Sooner(v, l)
    BY <1>7, <1>8
  <2>2. CASE v.id < l.id /\ v.end <= l.start
    BY <2>2
  <2>3. CASE l.id < v.id /\ l.end <= v.start
    BY <1>3, <1>7, <2>1, <2>3 DEF Sooner
  <2> QED
    BY <1>7, <1>8, <2>2, <2>3 DEF Tiling
<1> QED
  BY <1>7, <1>8 DEF l

LEMMA EmitWordsIsAFold ==
  ASSUME NEW d, NEW tr, NEW ws, NEW now, NEW p, p.tr = tr, p.now = now
  PROVE  EmitWords(d, tr, ws, now) = Committing!Fold(p, d, ws)
  BY DEF EmitWords, MapThenFoldSet, Committing!Fold, Committing!Folds, Say

(* The next word of a fold over the words ws: none of it is in the future  *)
(* and none behind the end of the log.                                     *)
Follows(p, ws) ==
  /\ p.now \in Nat /\ Sound(p.doc, p.now)
  /\ Tiling(ws, p.now)
  /\ \A w \in ws : p.doc.lastEnd <= w.start

LEMMA NextWord ==
  ASSUME NEW p, NEW ws, Follows(p, ws), NEW s \in SUBSET ws, s # {},
         NEW acc, Said(p, s \ {LastOf(s)}, acc), NEW w, w = LastOf(s)
  PROVE  /\ w \in ws /\ w \in s
         /\ w.start \in Nat /\ w.end \in Nat /\ w.start <= w.end /\ w.end <= p.now
         /\ acc.lastEnd <= w.start
         /\ \A v \in s \ {w} : v.end <= w.start
<1>0. Tiling(ws, p.now) /\ \A v \in ws : p.doc.lastEnd <= v.start
  BY DEF Follows
<1>1. w \in s /\ \A v \in s \ {w} : v.end <= w.start
  BY <1>0, PartTiles, LastWord
<1>2. /\ w.start \in Nat /\ w.end \in Nat /\ w.start <= w.end /\ w.end <= p.now
      /\ w \in ws
  BY <1>0, <1>1 DEF Tiling
<1>3. acc.lastEnd = p.doc.lastEnd \/ \E v \in s \ {w} : acc.lastEnd = v.end
  BY DEF Said
<1>4. acc.lastEnd <= w.start
  BY <1>0, <1>1, <1>2, <1>3
<1> QED
  BY <1>1, <1>2, <1>4

LEMMA SayStep ==
  ASSUME NEW p, NEW ws, Follows(p, ws), NEW s \in SUBSET ws, s # {},
         NEW acc, Said(p, s \ {LastOf(s)}, acc)
  PROVE  Said(p, s, Say(p, LastOf(s), acc))
<1> DEFINE w == LastOf(s)
           r == s \ {w}
           now == p.now
           f == CommitWord(acc, p.tr, w, now)
<1>0. now \in Nat /\ Tiling(ws, now)
  BY DEF Follows
<1>1. /\ w \in ws /\ w \in s
      /\ w.start \in Nat /\ w.end \in Nat /\ w.start <= w.end /\ w.end <= now
      /\ acc.lastEnd <= w.start
      /\ \A v \in r : v.end <= w.start
  BY NextWord
<1>2. Say(p, w, acc) = f
  BY DEF Say
<1>3. /\ Sound(p.doc, now) /\ Sound(acc, now) /\ Later(p.doc, acc)
      /\ p.doc.lastEnd <= acc.lastEnd
  BY DEF Said, Follows
<1> HIDE DEF w, f
<1>4. Sound(f, now) /\ Later(acc, f) /\ f.lastEnd = w.end
  <2> HIDE DEF now
  <2> QED
    BY <1>0, <1>1, <1>3, CommitWordKeeps DEF f
<1>5. /\ IsSeq(p.doc.log) /\ IsSeq(acc.log) /\ IsSeq(f.log) /\ Fills(f)
      /\ acc.lastEnd \in Nat /\ p.doc.lastEnd \in Nat
  BY <1>3, <1>4 DEF Sound, Shape
<1>6. \A u \in DOMAIN f.unlabeled : f.unlabeled[u].seq \in Nat
  BY <1>5, WaitingPlace
<1>7. Later(p.doc, f)
  BY ONLY <1>3, <1>4, <1>5, <1>6, LaterAfter
<1>8. p.doc.lastEnd <= f.lastEnd /\ \A v \in s : v.end <= f.lastEnd
  <2>1. \A v \in r : v.end <= w.end
    <3>1. \A v \in r : v.end \in Nat
      BY <1>0 DEF Tiling
    <3> QED
      BY <1>1, <3>1
  <2>2. \A v \in s : v \in r \/ v = w
    OBVIOUS
  <2> HIDE DEF r
  <2> QED
    BY <1>1, <1>3, <1>4, <1>5, <2>1, <2>2
<1>9. Said(p, s, f)
  BY <1>1, <1>4, <1>7, <1>8 DEF Said
<1> QED
  BY <1>2, <1>9 DEF w

LEMMA WordsPick ==
  ASSUME NEW ws, NEW now, Tiling(ws, now)
  PROVE  Committing!Picks(ws)
<1>1. \A s \in SUBSET ws : s # {} => LastOf(s) \in s
  BY PartTiles, LastWord
<1>2. Committing!IsFiniteSet(ws)
  BY StillFinite DEF Tiling
<1> QED
  BY <1>1, <1>2 DEF Committing!Picks

(* All the words of a set committed: the log's end is now the end of the   *)
(* last of them.                                                           *)
LEMMA EmitWordsKeeps ==
  ASSUME NEW d, NEW now \in Nat, Sound(d, now), NEW tr,
         NEW ws, Tiling(ws, now), \A w \in ws : d.lastEnd <= w.start,
         NEW e, e = EmitWords(d, tr, ws, now)
  PROVE  /\ Sound(e, now)
         /\ Later(d, e)
         /\ d.lastEnd <= e.lastEnd
         /\ e.lastEnd = d.lastEnd \/ \E w \in ws : e.lastEnd = w.end
         /\ \A w \in ws : w.end <= e.lastEnd
<1> DEFINE p == [tr |-> tr, now |-> now, doc |-> d]
<1>0. p.tr = tr /\ p.now = now /\ p.doc = d
  OBVIOUS
<1> HIDE DEF p
<1>1. d.lastEnd \in Nat
  BY DEF Sound, Shape
<1>2. Said(p, {}, d)
  BY <1>0, <1>1, SameIsLater DEF Said
<1>3. Follows(p, ws)
  BY <1>0 DEF Follows
<1>4. Said(p, ws, Committing!Fold(p, d, ws))
  <2>1. /\ Committing!Picks(ws) /\ Said(p, {}, d)
        /\ \A acc : \A s \in SUBSET ws :
             s # {} /\ Said(p, s \ {LastOf(s)}, acc) => Said(p, s, Say(p, LastOf(s), acc))
    BY <1>2, <1>3, SayStep, WordsPick
  <2> QED
    BY ONLY <2>1, Committing!FoldKeeps
<1>5. Said(p, ws, e)
  BY <1>0, <1>4, EmitWordsIsAFold
<1> QED
  BY <1>0, <1>5 DEF Said
-----------------------------------------------------------------------------
(* A waiting word looked up.                                               *)
Waits(d, waiting) == [d EXCEPT !.unlabeled = waiting]

LEMMA WaitsShape ==
  ASSUME NEW d, NEW now, Shape(d, now), NEW waiting, IsSeq(waiting),
         NEW e, e = Waits(d, waiting)
  PROVE  /\ Shape(e, now)
         /\ e.log = d.log /\ e.turn = d.turn /\ e.speaker = d.speaker
         /\ e.lastEnd = d.lastEnd /\ e.unlabeled = waiting /\ e.utterance = d.utterance
<1>1. IsDoc(d)
  BY DEF Shape
<1>2. /\ IsDoc(e)
      /\ e.log = d.log /\ e.turn = d.turn /\ e.speaker = d.speaker /\ e.error = d.error
      /\ e.lastEnd = d.lastEnd /\ e.utterance = d.utterance /\ e.unlabeled = waiting
  BY <1>1 DEF IsDoc, Waits
<1>3. Shape(e, now)
  BY <1>2 DEF Shape
<1> QED
  BY <1>2, <1>3

LEMMA SameTurns ==
  ASSUME NEW d, Turns(d), NEW e, e.log = d.log, e.turn = d.turn, e.speaker = d.speaker
  PROVE  Turns(e)
  BY DEF Turns

LEMMA NobodyWaits ==
  ASSUME NEW d, NEW now, Sound(d, now), NEW e, e = Waits(d, << >>)
  PROVE  /\ Sound(e, now)
         /\ Later(d, e)
         /\ e.lastEnd = d.lastEnd /\ e.unlabeled = << >> /\ e.log = d.log
<1>1. Shape(d, now) /\ Turns(d) /\ Fills(d) /\ Renders(d)
  BY DEF Sound
<1>2. /\ Shape(e, now)
      /\ e.log = d.log /\ e.turn = d.turn /\ e.speaker = d.speaker
      /\ e.lastEnd = d.lastEnd /\ e.unlabeled = << >> /\ e.utterance = d.utterance
  BY <1>1, WaitsShape, EmptyIsSeq
<1>3. Turns(e)
  BY <1>1, <1>2, SameTurns
<1>4. DOMAIN e.unlabeled = {}
  BY <1>2, EmptyIsSeq
<1>5. Fills(e)
  BY <1>1, <1>2, <1>4 DEF Fills
<1>6. Later(d, e)
  BY <1>2, <1>4 DEF Later, GoesOn
<1>7. Renders(e)
  BY <1>1, <1>2, SameRenders
<1> QED
  BY <1>2, <1>3, <1>5, <1>6, <1>7 DEF Sound

(* It is given a speaker ... *)
LEMMA FillOne ==
  ASSUME NEW d, NEW now \in Nat, Sound(d, now), NEW u, Null(d.log, u.seq),
         Unfilled(d.log, u), \A v \in DOMAIN d.unlabeled : d.unlabeled[v].seq # u.seq,
         NEW event, event.kind = "speaker", event.at = now, event.seq = u.seq,
         NEW e, e = Emit(d, event)
  PROVE  /\ Sound(e, now)
         /\ Later(d, e)
         /\ e.lastEnd = d.lastEnd /\ e.unlabeled = d.unlabeled
         /\ \A w : Unfilled(d.log, w) /\ w.seq # u.seq => Unfilled(e.log, w)
<1>1. Shape(d, now) /\ IsDoc(d) /\ IsSeq(d.log) /\ Turns(d) /\ Fills(d) /\ Renders(d)
  BY DEF Sound, Shape
<1>2. e = Plus(d, event) /\ Shape(e, now)
  BY <1>1, EmitIsPlus
<1>3. /\ e.log = Append(d.log, event) /\ e.unlabeled = d.unlabeled /\ e.lastEnd = d.lastEnd
      /\ e.utterance = d.utterance
  BY <1>1, <1>2, PlusFields
<1>4. Turns(e)
  BY <1>1, <1>2, PlainTurns
<1>5. Later(d, e)
  BY <1>1, <1>2, PlusGoesOn
<1> DEFINE n == Len(d.log)
<1>6. /\ n \in Nat /\ DOMAIN d.log = 1 .. n /\ DOMAIN e.log = 1 .. (n + 1)
      /\ \A i \in 1 .. n : e.log[i] = d.log[i]
      /\ e.log[n + 1] = event
  BY <1>1, <1>3, Longer
<1> HIDE DEF n
<1>7. \A i \in DOMAIN e.log : i \in 1 .. n \/ i = n + 1
  BY <1>6
<1>8. \A i : Null(d.log, i) => Null(e.log, i)
  BY <1>6 DEF Null
<1>9. \A j \in DOMAIN e.log : e.log[j].kind = "speaker" => Null(e.log, e.log[j].seq)
  <2>1. \A j \in 1 .. n : e.log[j].kind = "speaker" => Null(d.log, e.log[j].seq)
    BY <1>1, <1>6 DEF Fills
  <2> QED
    BY <1>6, <1>7, <1>8, <2>1
<1>10. ASSUME NEW j \in DOMAIN e.log, NEW k \in DOMAIN e.log,
              e.log[j].kind = "speaker", e.log[k].kind = "speaker",
              e.log[j].seq = e.log[k].seq
       PROVE  j = k
  <2>1. CASE j \in 1 .. n /\ k \in 1 .. n
    BY <1>1, <1>6, <1>10, <2>1, SMTT(30) DEF Fills
  <2>2. CASE j \in 1 .. n /\ k = n + 1
    BY <1>6, <1>10, <2>2 DEF Unfilled
  <2>3. CASE j = n + 1 /\ k \in 1 .. n
    BY <1>6, <1>10, <2>3 DEF Unfilled
  <2> QED
    BY <1>7, <2>1, <2>2, <2>3
<1>11. \A v \in DOMAIN e.unlabeled : Null(e.log, e.unlabeled[v].seq)
  BY <1>1, <1>3, <1>8 DEF Fills
<1>12. \A v, w \in DOMAIN e.unlabeled : v < w => e.unlabeled[v].seq < e.unlabeled[w].seq
  BY <1>1, <1>3 DEF Fills
<1>13. ASSUME NEW v \in DOMAIN e.unlabeled, NEW j \in DOMAIN e.log, e.log[j].kind = "speaker"
       PROVE  e.log[j].seq # e.unlabeled[v].seq
  <2>1. CASE j \in 1 .. n
    BY <1>1, <1>3, <1>6, <1>13, <2>1 DEF Fills
  <2>2. CASE j = n + 1
    BY <1>3, <1>6, <1>13, <2>2
  <2> QED
    BY <1>7, <2>1, <2>2
<1>14. Fills(e)
  BY <1>9, <1>10, <1>11, <1>12, <1>13 DEF Fills
<1>17. Renders(e)
  BY <1>1, <1>3, OtherRenders
<1>15. Sound(e, now)
  BY <1>2, <1>3, <1>4, <1>14, <1>17 DEF Sound
<1>16. ASSUME NEW w, Unfilled(d.log, w), w.seq # u.seq PROVE Unfilled(e.log, w)
  BY <1>6, <1>7, <1>16 DEF Unfilled
<1> QED
  BY <1>3, <1>5, <1>15, <1>16

(* ... or goes on waiting. *)
WaitsToo(d, u) == Waits(d, Append(d.unlabeled, u))

LEMMA WaitOn ==
  ASSUME NEW d, NEW now \in Nat, Sound(d, now), ~ Solo, NEW u, Null(d.log, u.seq),
         Unfilled(d.log, u), \A v \in DOMAIN d.unlabeled : d.unlabeled[v].seq < u.seq,
         NEW e, e = WaitsToo(d, u)
  PROVE  /\ Sound(e, now)
         /\ e.log = d.log /\ e.lastEnd = d.lastEnd
         /\ \A v \in DOMAIN e.unlabeled :
              e.unlabeled[v] = u \/ \E w \in DOMAIN d.unlabeled : e.unlabeled[v] = d.unlabeled[w]
<1> DEFINE m == Len(d.unlabeled)
<1>1. /\ Shape(d, now) /\ IsSeq(d.unlabeled) /\ Turns(d) /\ Fills(d) /\ IsSeq(d.log)
      /\ Renders(d)
  BY DEF Sound, Shape
<1>2. IsSeq(Append(d.unlabeled, u))
  BY <1>1, Longer
<1>3. /\ Shape(e, now)
      /\ e.log = d.log /\ e.turn = d.turn /\ e.speaker = d.speaker
      /\ e.lastEnd = d.lastEnd /\ e.unlabeled = Append(d.unlabeled, u)
      /\ e.utterance = d.utterance
  <2>1. PICK waiting : waiting = Append(d.unlabeled, u)
    OBVIOUS
  <2>2. IsSeq(waiting) /\ e = Waits(d, waiting)
    BY <1>2, <2>1 DEF WaitsToo
  <2>3. /\ Shape(e, now)
        /\ e.log = d.log /\ e.turn = d.turn /\ e.speaker = d.speaker
        /\ e.lastEnd = d.lastEnd /\ e.unlabeled = waiting /\ e.utterance = d.utterance
    BY ONLY <1>1, <2>2, WaitsShape, SMTT(30)
  <2> QED
    BY ONLY <2>1, <2>3
<1>4. Turns(e)
  BY <1>1, <1>3, SameTurns
<1>5. /\ m \in Nat /\ DOMAIN d.unlabeled = 1 .. m /\ DOMAIN e.unlabeled = 1 .. (m + 1)
      /\ \A i \in 1 .. m : e.unlabeled[i] = d.unlabeled[i]
      /\ e.unlabeled[m + 1] = u
  BY <1>1, <1>3, Longer
<1> HIDE DEF m
<1>6. \A i \in DOMAIN e.unlabeled : i \in 1 .. m \/ i = m + 1
  BY <1>5
<1>7. \A v \in DOMAIN e.unlabeled : Null(e.log, e.unlabeled[v].seq)
  <2>1. \A v \in 1 .. m : Null(e.log, e.unlabeled[v].seq)
    BY <1>1, <1>3, <1>5 DEF Fills
  <2> QED
    BY <1>3, <1>5, <1>6, <2>1
<1>8. ASSUME NEW v \in DOMAIN e.unlabeled, NEW w \in DOMAIN e.unlabeled, v < w
      PROVE  e.unlabeled[v].seq < e.unlabeled[w].seq
  <2>1. v \in 1 .. m
    BY <1>5, <1>8
  <2>2. CASE w \in 1 .. m
    BY <1>1, <1>5, <1>8, <2>1, <2>2 DEF Fills
  <2>3. CASE w = m + 1
    BY <1>5, <2>1, <2>3
  <2> QED
    BY <1>6, <2>2, <2>3
<1>9. ASSUME NEW v \in DOMAIN e.unlabeled, NEW j \in DOMAIN e.log, e.log[j].kind = "speaker"
      PROVE  e.log[j].seq # e.unlabeled[v].seq
  <2>1. CASE v \in 1 .. m
    BY <1>1, <1>3, <1>5, <1>9, <2>1 DEF Fills
  <2>2. CASE v = m + 1
    BY <1>3, <1>5, <1>9, <2>2 DEF Unfilled
  <2> QED
    BY <1>6, <2>1, <2>2
<1>10. /\ \A j \in DOMAIN e.log : e.log[j].kind = "speaker" => Null(e.log, e.log[j].seq)
       /\ \A j, k \in DOMAIN e.log :
            e.log[j].kind = "speaker" /\ e.log[k].kind = "speaker"
              /\ e.log[j].seq = e.log[k].seq
              => j = k
  BY <1>1, <1>3 DEF Fills
<1>11. Fills(e)
  BY <1>7, <1>8, <1>9, <1>10 DEF Fills
<1>12. \A v \in DOMAIN e.unlabeled :
         e.unlabeled[v] = u \/ \E w \in DOMAIN d.unlabeled : e.unlabeled[v] = d.unlabeled[w]
  BY <1>5, <1>6
<1>13. Renders(e)
  BY <1>1, <1>3, SameRenders, SMTT(30)
<1> QED
  BY <1>3, <1>4, <1>11, <1>12, <1>13 DEF Sound
LEMMA FillIsAFold ==
  ASSUME NEW d, NEW tr, NEW final, NEW now, ~ Solo, d.error = FALSE,
         NEW p, p.doc = d, p.tr = tr, p.final = final, p.now = now
  PROVE  FillUnlabeled(d, tr, final, now)
           = Filling!Fold(p, Waits(d, << >>), DOMAIN d.unlabeled)
  BY DEF FillUnlabeled, FoldLeft, MapThenFoldSet, Filling!Fold, Filling!Folds, Fill, Top, Waits

(* The last of the first n is the n-th, and without it they are n - 1.     *)
LEMMA TopOfMany ==
  ASSUME NEW s, NEW n \in Nat, s = 1 .. n, s # {}
  PROVE  /\ n \in 1 .. n /\ n - 1 \in Nat
         /\ Top(s) = n
         /\ s \ {Top(s)} = 1 .. (n - 1)
<1>1. n \in s /\ \A y \in s : n >= y
  OBVIOUS
<1>2. \A x \in s : (\A y \in s : x >= y) => x = n
  BY <1>1
<1>3. Top(s) \in s /\ \A y \in s : Top(s) >= y
  BY <1>1 DEF Top, Max
<1>4. Top(s) = n
  BY <1>2, <1>3
<1> QED
  BY <1>4

LEMMA TopIsIn ==
  ASSUME NEW L \in Nat, NEW s \in SUBSET (1 .. L), s # {}
  PROVE  Top(s) \in s
<1>1. IsFiniteSet(1 .. L)
  BY FS_Interval
<1>2. IsFiniteSet(s)
  BY <1>1, FS_Subset
<1> DEFINE R == {z \in s \X s : z[1] < z[2]}
<1>3. \A x, y \in s : <<x, y>> \in R <=> x < y
  OBVIOUS
<1>4. /\ \A x, y \in s : x = y \/ <<x, y>> \in R \/ <<y, x>> \in R
      /\ \A x, y, z \in s : <<x, y>> \in R /\ <<y, z>> \in R => <<x, z>> \in R
  <2> HIDE DEF R
  <2> QED
    BY <1>3
<1> HIDE DEF R
<1>5. Committing!IsFiniteSet(s) /\ s # {}
  BY <1>2, StillFinite
<1>6. PICK x \in s : \A y \in s : y = x \/ <<y, x>> \in R
  BY ONLY <1>4, <1>5, Committing!LastMember, ZenonT(60)
<1>7. \A y \in s : x >= y
  <2>1. \A y \in s : y \in Nat
    OBVIOUS
  <2> SUFFICES ASSUME NEW y \in s PROVE x >= y
    OBVIOUS
  <2>2. y = x \/ y < x
    BY <1>3, <1>6
  <2> QED
    BY <2>1, <2>2
<1> QED
  BY <1>7 DEF Top, Max

LEMMA FillStep ==
  ASSUME NEW p, p.now \in Nat, ~ Solo, Sound(p.doc, p.now), p.final \in BOOLEAN,
         NEW n \in DOMAIN p.doc.unlabeled, NEW d, FilledTo(p, n - 1, d)
  PROVE  FilledTo(p, n, Fill(p, n, d))
<1> DEFINE u == p.doc.unlabeled[n]
           label == LabelFor(p.tr, u.start, u.end)
           event == [kind |-> "speaker", at |-> p.now, seq |-> u.seq,
                     speaker |-> label, turn |-> d.turn]
           queue == p.doc.unlabeled
           f == Fill(p, n, d)
<1>1. /\ Sound(d, p.now) /\ Later(p.doc, d) /\ d.lastEnd = p.doc.lastEnd
      /\ p.final => d.unlabeled = << >>
      /\ \A v \in DOMAIN d.unlabeled : \E w \in 1 .. (n - 1) : d.unlabeled[v] = queue[w]
      /\ \A w \in DOMAIN queue : n - 1 < w => Unfilled(d.log, queue[w])
  BY DEF FilledTo
<1>2. /\ IsSeq(p.doc.log) /\ IsSeq(queue) /\ Fills(p.doc) /\ IsSeq(d.log) /\ Fills(d)
      /\ IsSeq(d.unlabeled)
  BY <1>1 DEF Sound, Shape
<1>3. /\ Len(queue) \in Nat /\ DOMAIN queue = 1 .. Len(queue)
      /\ n \in Nat /\ n \in 1 .. Len(queue)
      /\ Len(p.doc.log) \in Nat /\ DOMAIN p.doc.log = 1 .. Len(p.doc.log)
      /\ Len(d.log) \in Nat /\ DOMAIN d.log = 1 .. Len(d.log)
  BY <1>2, Longer, SMTT(30)
<1>4. /\ \A w \in DOMAIN queue : Null(p.doc.log, queue[w].seq)
      /\ \A w, v \in DOMAIN queue : w < v => queue[w].seq < queue[v].seq
      /\ \A w \in DOMAIN queue : queue[w].seq \in Nat
  BY <1>2, WaitingPlace DEF Fills
<1>5. Null(d.log, u.seq)
  <2>1. GoesOn(p.doc, d)
    BY <1>1 DEF Later
  <2> HIDE DEF u
  <2>2. Null(p.doc.log, u.seq)
    BY <1>4 DEF u
  <2> QED
    BY <1>3, <2>1, <2>2, SMTT(30) DEF Null, GoesOn
<1>6. Unfilled(d.log, u)
  BY <1>1, <1>3
<1>7. \A v \in DOMAIN d.unlabeled : d.unlabeled[v].seq < u.seq /\ d.unlabeled[v].seq # u.seq
  <2> SUFFICES ASSUME NEW v \in DOMAIN d.unlabeled
               PROVE  d.unlabeled[v].seq < u.seq /\ d.unlabeled[v].seq # u.seq
    OBVIOUS
  <2>1. PICK w \in 1 .. (n - 1) : d.unlabeled[v] = queue[w]
    BY <1>1
  <2> HIDE DEF queue
  <2>2. w \in DOMAIN queue /\ n \in DOMAIN queue /\ w < n
    BY <1>3
  <2>3. queue[w].seq < queue[n].seq /\ queue[w].seq \in Nat /\ queue[n].seq \in Nat
    BY <1>4, <2>2
  <2>4. u = queue[n]
    BY DEF queue
  <2> QED
    BY <2>1, <2>3, <2>4
<1>8. /\ event.kind = "speaker" /\ event.at = p.now /\ event.seq = u.seq
  OBVIOUS
<1>9. /\ label # None => f = Emit(d, event)
      /\ label = None /\ p.final => f = d
      /\ label = None /\ ~ p.final => f = Waits(d, Append(d.unlabeled, u))
  BY DEF Fill, Waits
<1>10. /\ n - 1 < n /\ \A w \in 1 .. (n - 1) : w \in 1 .. n
       /\ \A w \in DOMAIN queue : n < w => n - 1 < w /\ queue[w].seq # u.seq
  BY <1>3, <1>4, SMTT(30)
<1> HIDE DEF event, label, queue, f
<1>11. CASE label # None
  <2>1. /\ Sound(f, p.now) /\ Later(d, f)
        /\ f.lastEnd = d.lastEnd /\ f.unlabeled = d.unlabeled
        /\ \A w : Unfilled(d.log, w) /\ w.seq # u.seq => Unfilled(f.log, w)
    <3> HIDE DEF u
    <3>1. f = Emit(d, event)
      BY <1>9, <1>11
    <3> QED
      BY <1>1, <1>5, <1>6, <1>7, <1>8, <3>1, FillOne
  <2>2. IsSeq(f.log) /\ Fills(f)
    BY <2>1 DEF Sound, Shape
  <2>3. \A v \in DOMAIN f.unlabeled : f.unlabeled[v].seq \in Nat
    BY <2>2, WaitingPlace
  <2>4. Later(p.doc, f)
    BY ONLY <1>1, <1>2, <2>1, <2>2, <2>3, LaterAfter
  <2>5. \A w \in DOMAIN queue : n < w => Unfilled(f.log, queue[w])
    BY <1>1, <1>10, <2>1
  <2>6. \A v \in DOMAIN f.unlabeled : \E w \in 1 .. n : f.unlabeled[v] = queue[w]
    BY <1>1, <1>10, <2>1
  <2> QED
    BY <1>1, <2>1, <2>4, <2>5, <2>6 DEF FilledTo, queue, f
<1>12. CASE label = None /\ p.final
  <2>1. f = d
    BY <1>9, <1>12
  <2> QED
    BY <1>1, <1>10, <2>1 DEF FilledTo, queue, f
<1>13. CASE label = None /\ ~ p.final
  <2>1. /\ Sound(f, p.now)
        /\ f.log = d.log /\ f.lastEnd = d.lastEnd
        /\ \A v \in DOMAIN f.unlabeled :
             f.unlabeled[v] = u \/ \E w \in DOMAIN d.unlabeled : f.unlabeled[v] = d.unlabeled[w]
    <3> HIDE DEF u
    <3>1. f = WaitsToo(d, u)
      BY <1>9, <1>13 DEF WaitsToo
    <3>2. ~ Solo /\ Sound(d, p.now) /\ p.now \in Nat
      BY <1>1
    <3>3. \A v \in DOMAIN d.unlabeled : d.unlabeled[v].seq < u.seq
      BY <1>7
    <3> QED
      BY ONLY <1>5, <1>6, <3>1, <3>2, <3>3, WaitOn
  <2>2. \A v \in DOMAIN f.unlabeled : \E w \in 1 .. n : f.unlabeled[v] = queue[w]
    BY <1>1, <1>3, <1>10, <2>1 DEF queue
  <2>3. \A w \in 1 .. n : w \in DOMAIN queue
    BY <1>3
  <2>4. Later(p.doc, f)
    BY <1>1, <2>1, <2>2, <2>3 DEF Later, GoesOn, queue
  <2> QED
    BY <1>1, <1>10, <1>13, <2>1, <2>2, <2>4 DEF FilledTo, queue, f
<1> QED
  BY <1>11, <1>12, <1>13

(* Before any is looked up nobody waits any more.                          *)
LEMMA FillStarts ==
  ASSUME NEW p, p.now \in Nat, Sound(p.doc, p.now),
         NEW base, base = Waits(p.doc, << >>)
  PROVE  FilledTo(p, 0, base)
<1>1. /\ Sound(base, p.now) /\ Later(p.doc, base) /\ base.lastEnd = p.doc.lastEnd
      /\ base.unlabeled = << >> /\ base.log = p.doc.log
  BY NobodyWaits
<1>2. DOMAIN base.unlabeled = {}
  BY <1>1, EmptyIsSeq
<1>3. \A u \in DOMAIN p.doc.unlabeled : Unfilled(base.log, p.doc.unlabeled[u])
  BY <1>1 DEF Sound, Fills, Unfilled
<1> QED
  BY <1>1, <1>2, <1>3 DEF FilledTo

LEMMA TopPicks == ASSUME NEW L \in Nat PROVE Filling!Picks(1 .. L)
<1>1. \A s \in SUBSET (1 .. L) : s # {} => Top(s) \in s
  BY TopIsIn
<1>2. IsFiniteSet(1 .. L)
  BY FS_Interval
<1>3. Filling!IsFiniteSet(1 .. L)
  BY <1>2, StillFinite
<1> QED
  BY <1>1, <1>3 DEF Filling!Picks

(* The whole of _fill_unlabeled. *)
Emptied(p, e) == p.final => e.unlabeled = << >>

LEMMA FillKeeps ==
  ASSUME NEW p, p.now \in Nat, p.final \in BOOLEAN, Sound(p.doc, p.now),
         NEW e, e = FillUnlabeled(p.doc, p.tr, p.final, p.now)
  PROVE  /\ Sound(e, p.now)
         /\ Later(p.doc, e)
         /\ e.lastEnd = p.doc.lastEnd
         /\ Emptied(p, e)
<1>1. CASE Solo
  BY <1>1, SameIsLater DEF FillUnlabeled, Sound, Emptied
<1>2. CASE ~ Solo
  <2> DEFINE d == p.doc
             now == p.now
             base == Waits(d, << >>)
             L == Len(d.unlabeled)
  <2>1. now \in Nat /\ p.final \in BOOLEAN /\ Sound(d, now)
    OBVIOUS
  <2>2. d.error = FALSE /\ IsSeq(d.unlabeled) /\ Fills(d)
    BY DEF Sound, Shape
  <2>3. L \in Nat /\ DOMAIN d.unlabeled = 1 .. L
    BY <2>2, Longer
  <2>4. e = Filling!Fold(p, base, DOMAIN d.unlabeled)
    BY <1>2, <2>1, <2>2, FillIsAFold
  <2>6. FilledTo(p, 0, base)
    BY <2>1, FillStarts
  <2> HIDE DEF base, L
  <2>7. Filled(p, {}, base)
    <3>1. \A n \in Nat : {} = 1 .. n => n = 0
      OBVIOUS
    <3> QED
      BY <2>6, <3>1 DEF Filled
  <2>8. ASSUME NEW acc, NEW s \in SUBSET (1 .. L), s # {}, Filled(p, s \ {Top(s)}, acc)
        PROVE  Filled(p, s, Fill(p, Top(s), acc))
    <3> SUFFICES ASSUME NEW n \in Nat, s = 1 .. n PROVE FilledTo(p, n, Fill(p, Top(s), acc))
      BY DEF Filled
    <3>1. n \in 1 .. n /\ n - 1 \in Nat /\ Top(s) = n /\ s \ {Top(s)} = 1 .. (n - 1)
      BY <2>8, TopOfMany
    <3>2. FilledTo(p, n - 1, acc)
      BY <2>8, <3>1 DEF Filled
    <3>3. n \in DOMAIN p.doc.unlabeled
      BY <2>1, <2>3, <3>1
    <3> QED
      BY <1>2, <2>1, <3>1, <3>2, <3>3, FillStep
  <2>9. Filling!Picks(1 .. L)
    BY <2>3, TopPicks
  <2>10. Filled(p, 1 .. L, Filling!Fold(p, base, 1 .. L))
    <3>1. /\ Filling!Picks(1 .. L) /\ Filled(p, {}, base)
          /\ \A acc : \A s \in SUBSET (1 .. L) :
               s # {} /\ Filled(p, s \ {Top(s)}, acc) => Filled(p, s, Fill(p, Top(s), acc))
      BY <2>7, <2>8, <2>9
    <3> QED
      BY ONLY <3>1, Filling!FoldKeeps
  <2>11. FilledTo(p, L, e)
    BY <2>3, <2>4, <2>10 DEF Filled
  <2> QED
    BY <2>1, <2>11 DEF FilledTo, Emptied
<1> QED
  BY <1>1, <1>2
(* With a last chance, and without. *)
LEMMA LastFill ==
  ASSUME NEW d, NEW now \in Nat, Sound(d, now), NEW tr,
         NEW e, e = FillUnlabeled(d, tr, TRUE, now)
  PROVE  /\ Sound(e, now)
         /\ Later(d, e)
         /\ e.lastEnd = d.lastEnd
         /\ e.unlabeled = << >>
<1>1. PICK p : p.doc = d /\ p.tr = tr /\ p.now = now /\ p.final = TRUE
  <2> DEFINE p == [doc |-> d, tr |-> tr, now |-> now, final |-> TRUE]
  <2>1. p.doc = d /\ p.tr = tr /\ p.now = now /\ p.final = TRUE
    OBVIOUS
  <2> QED
    BY <2>1
<1>2. /\ p.now \in Nat /\ p.final \in BOOLEAN /\ Sound(p.doc, p.now)
      /\ e = FillUnlabeled(p.doc, p.tr, p.final, p.now)
  BY <1>1
<1>3. /\ Sound(e, p.now) /\ Later(p.doc, e) /\ e.lastEnd = p.doc.lastEnd
      /\ Emptied(p, e)
  BY ONLY <1>2, FillKeeps
<1> QED
  BY <1>1, <1>3 DEF Emptied

LEMMA EarlyFill ==
  ASSUME NEW d, NEW now \in Nat, Sound(d, now), NEW tr,
         NEW e, e = FillUnlabeled(d, tr, FALSE, now)
  PROVE  /\ Sound(e, now)
         /\ Later(d, e)
         /\ e.lastEnd = d.lastEnd
<1>1. PICK p : p.doc = d /\ p.tr = tr /\ p.now = now /\ p.final = FALSE
  <2> DEFINE p == [doc |-> d, tr |-> tr, now |-> now, final |-> FALSE]
  <2>1. p.doc = d /\ p.tr = tr /\ p.now = now /\ p.final = FALSE
    OBVIOUS
  <2> QED
    BY <2>1
<1>2. /\ p.now \in Nat /\ p.final \in BOOLEAN /\ Sound(p.doc, p.now)
      /\ e = FillUnlabeled(p.doc, p.tr, p.final, p.now)
  BY <1>1
<1>3. /\ Sound(e, p.now) /\ Later(p.doc, e) /\ e.lastEnd = p.doc.lastEnd
      /\ Emptied(p, e)
  BY ONLY <1>2, FillKeeps
<1> QED
  BY <1>1, <1>3

-----------------------------------------------------------------------------
(* The end of an utterance.                                                *)
LEMMA SoundLater ==
  ASSUME NEW d, NEW now \in Nat, Sound(d, now), NEW later \in Nat, now <= later
  PROVE  Sound(d, later)
<1>1. d.lastEnd <= later /\ (d.log # << >> => Last(d.log).at <= later)
  BY DEF Sound, Shape
<1>2. Shape(d, later)
  BY <1>1 DEF Sound, Shape
<1> QED
  BY <1>2 DEF Sound

Nulls(d) ==
  \A u \in DOMAIN d.unlabeled, i \in DOMAIN d.log :
    d.log[i].kind = "endpoint" => i < d.unlabeled[u].seq

LEMMA NullsGoOn ==
  ASSUME NEW d, NEW e, NEW now, Sound(d, now), Sound(e, now), Later(d, e), Nulls(d)
  PROVE  Nulls(e)
<1>1. IsSeq(d.log) /\ IsSeq(e.log) /\ Fills(e)
  BY DEF Sound, Shape
<1>2. /\ Len(d.log) \in Nat /\ DOMAIN d.log = 1 .. Len(d.log)
      /\ Len(e.log) \in Nat /\ DOMAIN e.log = 1 .. Len(e.log)
  BY <1>1, Longer
<1>3. \A u \in DOMAIN e.unlabeled : e.unlabeled[u].seq \in Nat
  BY <1>1, WaitingPlace
<1> SUFFICES ASSUME NEW u \in DOMAIN e.unlabeled, NEW i \in DOMAIN e.log,
                    e.log[i].kind = "endpoint"
             PROVE  i < e.unlabeled[u].seq
  BY DEF Nulls
<1>4. i \in DOMAIN d.log /\ d.log[i].kind = "endpoint"
  BY DEF Later, GoesOn
<1>5. CASE \E v \in DOMAIN d.unlabeled : e.unlabeled[u] = d.unlabeled[v]
  BY <1>4, <1>5 DEF Nulls
<1>6. CASE Len(d.log) < e.unlabeled[u].seq
  BY <1>2, <1>3, <1>4, <1>6
<1> QED
  BY <1>5, <1>6 DEF Later

(* A polish renders what was to be polished. *)
LEMMA PolishRenders ==
  ASSUME NEW d, IsSeq(d.log), Renders(d), d.utterance # << >>, IsSeq(d.utterance),
         NEW event, event.kind = "polished", event.words = d.utterance,
         event.from = Head(d.utterance), event.to = Last(d.utterance),
         NEW e, e.log = Append(d.log, event), e.utterance = << >>
  PROVE  Renders(e)
<1> DEFINE n == Len(d.log)
<1>1. /\ n \in Nat /\ DOMAIN d.log = 1 .. n /\ DOMAIN e.log = 1 .. (n + 1)
      /\ Len(e.log) = n + 1 /\ IsSeq(e.log)
      /\ \A i \in 1 .. n : e.log[i] = d.log[i]
      /\ e.log[n + 1] = event
  BY Longer
<1>2. GoesOn(d, e)
  BY <1>1 DEF GoesOn
<1> HIDE DEF n
<1>3. \A ws : Spells(d.log, ws) => Spells(e.log, ws)
  BY <1>1, <1>2, SpellsOn
<1>4. Head(d.utterance) = d.utterance[1] /\ Last(d.utterance) = d.utterance[Len(d.utterance)]
  <2>1. PICK T : d.utterance \in Seq(T)
    BY DEF IsSeq
  <2> QED
    BY <2>1 DEF Last
<1>5. ASSUME NEW p \in DOMAIN e.log, e.log[p].kind = "polished"
      PROVE  /\ Spells(e.log, e.log[p].words)
             /\ e.log[p].from = e.log[p].words[1]
             /\ e.log[p].to = e.log[p].words[Len(e.log[p].words)]
  <2>1. CASE p \in 1 .. n
    BY <1>1, <1>3, <1>5, <2>1 DEF Renders
  <2>2. CASE p = n + 1
    BY <1>1, <1>3, <1>4, <2>2 DEF Renders
  <2> QED
    BY <1>1, <2>1, <2>2
<1> QED
  BY <1>5 DEF Renders

LEMMA PolishKeeps ==
  ASSUME NEW d, NEW now \in Nat, Sound(d, now), NEW rewrites,
         NEW e, e = Polish(d, rewrites, now)
  PROVE  /\ Sound(e, now)
         /\ Later(d, e)
         /\ e.lastEnd = d.lastEnd /\ e.unlabeled = d.unlabeled
<1> DEFINE done == [d EXCEPT !.utterance = << >>]
           event == [kind |-> "polished", at |-> now, from |-> Head(d.utterance),
                     to |-> Last(d.utterance), words |-> d.utterance, turn |-> d.turn]
<1>1. /\ Shape(d, now) /\ Turns(d) /\ Fills(d) /\ Renders(d) /\ IsDoc(d) /\ d.error = FALSE
      /\ IsSeq(d.log) /\ IsSeq(d.utterance)
      /\ Solo => d.unlabeled = << >>
  BY DEF Sound, Shape
<1>2. /\ IsDoc(done)
      /\ done.log = d.log /\ done.turn = d.turn /\ done.speaker = d.speaker
      /\ done.error = d.error /\ done.lastEnd = d.lastEnd /\ done.utterance = << >>
      /\ done.unlabeled = d.unlabeled
  BY <1>1 DEF IsDoc
<1>3. e = done \/ (d.utterance # << >> /\ e = Emit(done, event))
  BY <1>1 DEF Polish
<1>4. /\ event.at = now /\ event.kind = "polished" /\ event.words = d.utterance
      /\ event.from = Head(d.utterance) /\ event.to = Last(d.utterance)
  OBVIOUS
<1> HIDE DEF done, event
<1>5. IsSeq(done.utterance)
  BY <1>2, EmptyIsSeq
<1>6. Shape(done, now)
  BY <1>1, <1>2, <1>5 DEF Shape
<1>7. Turns(done)
  BY <1>1, <1>2, SameTurns
<1>8. Fills(done)
  BY <1>1, <1>2 DEF Fills
<1>9. Later(d, done)
  BY <1>2 DEF Later, GoesOn
<1>10. CASE e = done
  <2>1. Renders(done)
    BY <1>1, <1>2 DEF Renders
  <2>2. Sound(done, now)
    BY <1>1, <1>2, <1>6, <1>7, <1>8, <2>1 DEF Sound
  <2> QED
    BY <1>2, <1>9, <1>10, <2>2
<1>11. CASE d.utterance # << >> /\ e = Emit(done, event)
  <2>1. e = Plus(done, event) /\ Shape(e, now)
    BY <1>4, <1>6, <1>11, EmitIsPlus
  <2>2. /\ e.log = Append(d.log, event) /\ e.utterance = << >>
        /\ e.unlabeled = d.unlabeled /\ e.lastEnd = d.lastEnd
    BY <1>2, <2>1, PlusFields
  <2>3. Renders(e)
    BY <1>1, <1>4, <1>11, <2>2, PolishRenders
  <2>4. Turns(e) /\ Fills(e) /\ Later(done, e)
    <3>1. IsSeq(done.log)
      BY <1>1, <1>2
    <3>2. Turns(e)
      BY <1>2, <1>4, <1>7, <2>1, <3>1, PlainTurns
    <3>3. Fills(e)
      BY <1>1, <1>4, <2>2, OtherFills
    <3>4. Later(done, e)
      BY <1>2, <1>4, <2>1, <3>1, PlusGoesOn
    <3> QED
      BY <3>2, <3>3, <3>4
  <2>5. Later(d, e)
    BY <1>2, <2>4 DEF Later, GoesOn
  <2> QED
    BY <1>1, <2>1, <2>2, <2>3, <2>4, <2>5 DEF Sound
<1> QED
  BY <1>3, <1>10, <1>11

LEMMA EndpointKeeps ==
  ASSUME NEW d, NEW now \in Nat, Sound(d, now), NEW tr, NEW reason, NEW rewrites,
         NEW e, e = EmitEndpoint(d, tr, reason, rewrites, now)
  PROVE  /\ Sound(e, now)
         /\ GoesOn(d, e)
         /\ e.lastEnd = d.lastEnd /\ e.unlabeled = << >>
<1> DEFINE event == [kind |-> "endpoint", at |-> now, reason |-> reason, turn |-> d.turn]
           shut == Emit(d, event)
           filled == FillUnlabeled(shut, tr, TRUE, now)
<1>1. event.at = now /\ Plain(event)
  BY DEF Plain
<1>2. e = Polish(filled, rewrites, now)
  BY DEF EmitEndpoint
<1> HIDE DEF event
<1>3. Sound(shut, now) /\ GoesOn(d, shut) /\ shut.lastEnd = d.lastEnd
  BY <1>1, EmitPlain
<1> HIDE DEF shut, filled
<1>4. /\ Sound(filled, now) /\ Later(shut, filled) /\ filled.lastEnd = shut.lastEnd
      /\ filled.unlabeled = << >>
  <2>1. filled = FillUnlabeled(shut, tr, TRUE, now) /\ now \in Nat
    BY DEF filled
  <2> QED
    BY ONLY <1>3, <2>1, LastFill, ZenonT(60)
<1>5. /\ Sound(e, now) /\ Later(filled, e)
      /\ e.lastEnd = filled.lastEnd /\ e.unlabeled = filled.unlabeled
  BY <1>2, <1>4, PolishKeeps
<1>6. IsSeq(d.log) /\ IsSeq(shut.log) /\ IsSeq(filled.log) /\ IsSeq(e.log)
  BY <1>3, <1>4, <1>5 DEF Sound, Shape
<1>7. GoesOn(shut, filled) /\ GoesOn(filled, e)
  BY <1>4, <1>5 DEF Later
<1>8. GoesOn(d, e)
  <2>1. GoesOn(d, filled)
    BY ONLY <1>3, <1>6, <1>7, GoesOnAfter
  <2> QED
    BY ONLY <1>6, <1>7, <2>1, GoesOnAfter
<1> QED
  BY ONLY <1>3, <1>4, <1>5, <1>8

-----------------------------------------------------------------------------
(* The words of a hypothesis.                                              *)
WordsOf(h) == h.stable \cup h.tentative

LEMMA FiniteImage ==
  ASSUME NEW S, IsFiniteSet(S), NEW f
  PROVE  IsFiniteSet({f[i] : i \in S})
<1> DEFINE g == [i \in S |-> f[i]]
           T == {f[i] : i \in S}
<1>1. g \in Surjection(S, T)
  BY DEF Surjection
<1> HIDE DEF g, T
<1>2. IsFiniteSet(T)
  BY <1>1, FS_Surjection
<1> QED
  BY <1>2 DEF T

(* What an engine can say is a sequence of words that end by now.          *)
LEMMA SayingIs ==
  ASSUME NEW words \in Sayings
  PROVE  /\ words \in Seq(Renderings) /\ Len(words) \in 0 .. MostWords
         /\ \A i \in 1 .. Len(words) : /\ words[i] \in Renderings
                                       /\ words[i].text \in Nat
                                       /\ words[i].start \in Nat /\ words[i].end \in Nat
                                       /\ words[i].start <= words[i].end
         /\ \A i, j \in 1 .. Len(words) : i < j => words[i].end <= words[j].start
<1>1. PICK n \in 0 .. MostWords : words \in [1 .. n -> Renderings] /\ OneAfterAnother(words)
  BY DEF Sayings
<1>2. n \in Nat /\ MostWords \in Nat
  BY ContractAssumption
<1>3. words \in Seq(Renderings) /\ Len(words) = n /\ DOMAIN words = 1 .. n
  BY <1>1, <1>2
<1>4. \A r \in Renderings : /\ r.text \in Nat /\ r.start \in Nat /\ r.end \in Nat
                            /\ r.start <= r.end
  BY ContractAssumption
<1>5. \A i \in 1 .. n : words[i] \in Renderings
  BY <1>1
<1> QED
  BY <1>1, <1>2, <1>3, <1>4, <1>5 DEF OneAfterAnother

LEMMA HeardTiles ==
  ASSUME NEW before, NEW words \in Sayings, NEW s \in Nat, NEW fragment \in BOOLEAN,
         NEW conf \in Confidences, NEW now \in Nat, CanSay(before, words, s, now),
         NEW h, h = Heard(words, s, fragment, conf)
  PROVE  /\ Tiling(WordsOf(h), now)
         /\ h \in Words!Hypothesis
         /\ words \in Seq(Renderings) /\ SubSeq(words, 1, s) \in Seq(Renderings)
<1> DEFINE n == Len(words)
           word == [i \in 1 .. n |->
                      [id |-> i, text |-> words[i].text,
                       start |-> words[i].start, end |-> words[i].end,
                       whole |-> ~ (fragment /\ i = n) \/ i <= s, conf |-> conf[i]]]
           A == {word[i] : i \in 1 .. s}
           B == {word[i] : i \in (s + 1) .. n}
<1>1. /\ words \in Seq(Renderings) /\ n \in Nat /\ n <= MostWords /\ MostWords \in Nat
      /\ \A i \in 1 .. n : /\ words[i].text \in Nat
                           /\ words[i].start \in Nat /\ words[i].end \in Nat
                           /\ words[i].start <= words[i].end
      /\ \A i, j \in 1 .. n : i < j => words[i].end <= words[j].start
  BY SayingIs, ContractAssumption
<1>2. s <= n /\ \A i \in 1 .. n : words[i].end <= now
  <2>1. DOMAIN words = 1 .. n
    BY <1>1
  <2> QED
    BY <2>1 DEF CanSay
<1>3. \A i \in 1 .. n : conf[i] \in 0 .. FullConfidence
  BY <1>1 DEF Confidences
<1>4. h.stable = A /\ h.tentative = B /\ h.fragment \in BOOLEAN
      /\ h = [stable |-> h.stable, tentative |-> h.tentative, fragment |-> h.fragment]
  <2>1. \A i \in 1 .. s : i \in 1 .. n
    BY <1>1, <1>2
  <2>2. \A i \in (s + 1) .. n : i \in 1 .. n
    BY <1>1, <1>2
  <2>3. /\ h = [stable |-> h.stable, tentative |-> h.tentative, fragment |-> h.fragment]
        /\ h.fragment = (fragment /\ s < n)
    BY DEF Heard
  <2>4. h.fragment \in BOOLEAN
    BY <2>3, Zenon
  <2>5. h.stable = A
    BY <2>1 DEF Heard
  <2>6. h.tentative = B
    BY <2>2 DEF Heard
  <2> QED
    BY <2>3, <2>4, <2>5, <2>6
<1>5. \A i \in 1 .. n : /\ word[i].id = i /\ word[i].text = words[i].text
                        /\ word[i].start = words[i].start /\ word[i].end = words[i].end
                        /\ word[i].conf = conf[i] /\ word[i].whole \in BOOLEAN
                        /\ word[i] \in Words!Word
  <2> SUFFICES ASSUME NEW i \in 1 .. n
               PROVE  /\ word[i].id = i /\ word[i].text = words[i].text
                      /\ word[i].start = words[i].start /\ word[i].end = words[i].end
                      /\ word[i].conf = conf[i] /\ word[i].whole \in BOOLEAN
                      /\ word[i] \in Words!Word
    OBVIOUS
  <2>1. PICK b : b = (~ (fragment /\ i = n) \/ i <= s)
    OBVIOUS
  <2>2. b \in BOOLEAN
    BY <2>1, Zenon
  <2>3. word[i] = [id |-> i, text |-> words[i].text,
                   start |-> words[i].start, end |-> words[i].end,
                   whole |-> b, conf |-> conf[i]]
    BY <2>1
  <2> HIDE DEF word, n
  <2> QED
    BY <1>1, <1>3, <2>2, <2>3 DEF Words!Word
<1>6. IsFiniteSet(A \cup B)
  <2>1. IsFiniteSet(1 .. s) /\ IsFiniteSet((s + 1) .. n)
    BY <1>1, FS_Interval
  <2> HIDE DEF word, n
  <2>2. IsFiniteSet(A) /\ IsFiniteSet(B)
    BY <2>1, FiniteImage
  <2> QED
    BY <2>2, FS_Union
<1> HIDE DEF word
<1>7. ASSUME NEW w \in A \cup B PROVE \E i \in 1 .. n : w = word[i]
  BY <1>1, <1>2, <1>7
<1>8. ASSUME NEW w \in A \cup B
      PROVE  /\ w \in Words!Word
             /\ w.id \in Nat /\ w.start \in Nat /\ w.end \in Nat
             /\ w.start <= w.end /\ w.end <= now
  <2>1. PICK i \in 1 .. n : w = word[i]
    BY <1>7
  <2>2. /\ w \in Words!Word /\ w.id = i
        /\ w.start = words[i].start /\ w.end = words[i].end
    BY <1>5, <2>1
  <2>3. /\ i \in Nat /\ words[i].start \in Nat /\ words[i].end \in Nat
        /\ words[i].start <= words[i].end /\ words[i].end <= now
    BY <1>1, <1>2
  <2> QED
    BY <2>2, <2>3
<1>9. ASSUME NEW v \in A \cup B, NEW w \in A \cup B
      PROVE  \/ v = w
             \/ v.id < w.id /\ v.end <= w.start
             \/ w.id < v.id /\ w.end <= v.start
  <2>1. PICK i \in 1 .. n : v = word[i]
    BY <1>7
  <2>2. PICK j \in 1 .. n : w = word[j]
    BY <1>7
  <2>3. i = j \/ i < j \/ j < i
    BY <1>1
  <2> QED
    BY <1>1, <1>5, <2>1, <2>2, <2>3
<1> HIDE DEF A, B
<1>10. Tiling(WordsOf(h), now)
  BY <1>4, <1>6, <1>8, <1>9 DEF Tiling, WordsOf
<1>11. h \in Words!Hypothesis
  <2>1. h.stable \subseteq Words!Word /\ h.tentative \subseteq Words!Word
    BY <1>4, <1>8
  <2> QED
    BY <1>4, <2>1 DEF Words!Hypothesis
<1>12. SubSeq(words, 1, s) \in Seq(Renderings)
  <2>1. s <= Len(words) /\ words \in Seq(Renderings)
    BY <1>1, <1>2
  <2> HIDE DEF n
  <2> QED
    BY <2>1
<1> QED
  BY <1>1, <1>10, <1>11, <1>12

(* The policy moves its frontier to where the log now ends.                *)
LEMMA FrontierFollows ==
  ASSUME NEW c, NEW ws, NEW e, c.frontier \in Nat,
         \A w \in ws : w.end \in Nat,
         c.frontier <= e, \A w \in ws : w.end <= e,
         e = c.frontier \/ \E w \in ws : e = w.end,
         NEW held
  PROVE  Advanced(c, ws, held).frontier = e
<1> DEFINE F == Words!FrontierAfter(c.frontier, ws)
<1>1. e \in F
  BY DEF Words!FrontierAfter
<1>2. \A f \in F : f = e
  BY DEF Words!FrontierAfter
<1>3. (CHOOSE f \in F : TRUE) = e
  <2> HIDE DEF F
  <2> QED
    BY <1>1, <1>2
<1> QED
  BY <1>3 DEF Advanced
-----------------------------------------------------------------------------
(* The inductive invariant.                                                *)
IInv ==
  /\ TypeOK
  /\ Sound(doc, at)
  /\ Nulls(doc)
  /\ latest # None => Tiling(WordsOf(latest), at)
  /\ ended => doc.unlabeled = << >>

(* Words of a hypothesis past the frontier, committed. *)
LEMMA WordsCommitted ==
  ASSUME NEW d, NEW now \in Nat, Sound(d, now), NEW tr, NEW c, d.lastEnd = c.frontier,
         NEW ws, Tiling(ws, now), \A w \in ws : c.frontier <= w.start,
         NEW e, e = EmitWords(d, tr, ws, now), NEW held
  PROVE  /\ Sound(e, now)
         /\ Later(d, e)
         /\ e.lastEnd = Advanced(c, ws, held).frontier
<1>1. /\ Sound(e, now) /\ Later(d, e)
      /\ d.lastEnd <= e.lastEnd
      /\ e.lastEnd = d.lastEnd \/ \E w \in ws : e.lastEnd = w.end
      /\ \A w \in ws : w.end <= e.lastEnd
  BY EmitWordsKeeps
<1>2. c.frontier \in Nat
  BY DEF Sound, Shape
<1>3. \A w \in ws : w.end \in Nat
  BY DEF Tiling
<1>4. PICK l : l = e.lastEnd
  OBVIOUS
<1>5. /\ c.frontier <= l /\ \A w \in ws : w.end <= l
      /\ l = c.frontier \/ \E w \in ws : l = w.end
  BY <1>1, <1>4
<1>6. Advanced(c, ws, held).frontier = l
  BY ONLY <1>2, <1>3, <1>5, FrontierFollows
<1> QED
  BY <1>1, <1>4, <1>6

LEMMA PendingTiles ==
  ASSUME NEW h, NEW now, Tiling(WordsOf(h), now), NEW frontier,
         NEW S \in SUBSET WordsOf(h), NEW ws \in SUBSET Words!Pending(S, frontier)
  PROVE  Tiling(ws, now) /\ \A w \in ws : frontier <= w.start
<1>1. ws \in SUBSET WordsOf(h) /\ \A w \in ws : w.start >= frontier
  BY DEF Words!Pending
<1>2. Tiling(ws, now)
  BY <1>1, PartTiles
<1> QED
  BY <1>1, <1>2

LEMMA TakenArePending ==
  ASSUME NEW h, NEW c, NEW now
  PROVE  /\ Words!Taken(h, c, now)
              \in SUBSET Words!Pending(h.stable \cup Words!EarlyWords(h), c.frontier)
         /\ h.stable \cup Words!EarlyWords(h) \in SUBSET WordsOf(h)
  BY DEF Words!Taken, Words!EarlyWords, WordsOf

(* A hypothesis heard, and what is still tentative shown. *)
LEMMA HearKeeps ==
  ASSUME NEW d, NEW now \in Nat, Sound(d, now), NEW tr, NEW lagging,
         NEW h, Tiling(WordsOf(h), now), d.lastEnd = policy.frontier,
         NEW e, e = HearWords(d, tr, h, lagging, now), NEW held
  PROVE  /\ Sound(e, now)
         /\ Later(d, e)
         /\ e.lastEnd = Advanced(policy, Words!Taken(h, policy, now), held).frontier
<1> DEFINE ws == Words!Taken(h, policy, now)
           said == EmitWords(d, tr, ws, now)
<1>1. Tiling(ws, now) /\ \A w \in ws : policy.frontier <= w.start
  <2> HIDE DEF ws
  <2>1. ws \in SUBSET Words!Pending(h.stable \cup Words!EarlyWords(h), policy.frontier)
        /\ h.stable \cup Words!EarlyWords(h) \in SUBSET WordsOf(h)
    BY TakenArePending DEF ws
  <2> QED
    BY <2>1, PendingTiles
<1>2. PICK pending : e = EmitPartial(said, pending, lagging, now)
  BY DEF HearWords
<1> HIDE DEF ws
<1>3. /\ Sound(said, now) /\ Later(d, said)
      /\ said.lastEnd = Advanced(policy, ws, held).frontier
  BY <1>1, WordsCommitted
<1> HIDE DEF said
<1>4. Sound(e, now) /\ Later(said, e) /\ e.lastEnd = said.lastEnd
  <2> DEFINE event == [kind |-> "partial", at |-> now, texts |-> {w.text : w \in pending}]
  <2>1. e = said \/ e = Emit(said, event)
    BY <1>2 DEF EmitPartial
  <2>2. event.at = now /\ Plain(event) /\ event.kind # "endpoint"
    BY DEF Plain
  <2> HIDE DEF event
  <2>3. CASE e = said
    BY <1>3, <2>3, SameIsLater
  <2>4. CASE e = Emit(said, event)
    BY <1>3, <2>2, <2>4, EmitPlain
  <2> QED
    BY <2>1, <2>3, <2>4
<1>5. IsSeq(d.log) /\ IsSeq(said.log) /\ IsSeq(e.log) /\ Fills(e)
  BY <1>3, <1>4 DEF Sound, Shape
<1>6. \A u \in DOMAIN e.unlabeled : e.unlabeled[u].seq \in Nat
  BY <1>5, WaitingPlace
<1>7. Later(d, e)
  BY ONLY <1>3, <1>4, <1>5, <1>6, LaterAfter
<1> QED
  BY <1>3, <1>4, <1>7 DEF ws

(* Two steps of an action, neither of them an endpoint. *)
LEMMA Then ==
  ASSUME NEW now, NEW d, NEW e, NEW f, Sound(d, now), Sound(e, now), Sound(f, now),
         Later(d, e), Later(e, f)
  PROVE  Later(d, f)
<1>1. IsSeq(d.log) /\ IsSeq(e.log) /\ IsSeq(f.log) /\ Fills(f)
  BY DEF Sound, Shape
<1>2. \A u \in DOMAIN f.unlabeled : f.unlabeled[u].seq \in Nat
  BY <1>1, WaitingPlace
<1> QED
  BY ONLY <1>1, <1>2, Later(d, e), Later(e, f), LaterAfter

(* The notices at the start of push. *)
LEMMA NoticesKeep ==
  ASSUME NEW d, NEW now \in Nat, Sound(d, now), NEW lagging, NEW reading,
         NEW e, e = Onset(ObserveLag(d, lagging, now), reading, now)
  PROVE  /\ Sound(e, now)
         /\ Later(d, e)
         /\ e.lastEnd = d.lastEnd
<1> DEFINE told == [kind |-> "degraded", at |-> now, degraded |-> lagging]
           event == [kind |-> "speech_onset", at |-> now]
           o == ObserveLag(d, lagging, now)
<1>1. /\ told.at = now /\ Plain(told) /\ told.kind # "endpoint"
      /\ event.at = now /\ Plain(event) /\ event.kind # "endpoint"
  BY DEF Plain
<1>2. o = d \/ o = Emit(d, told)
  BY DEF ObserveLag
<1>3. e = o \/ e = Emit(o, event)
  BY DEF Onset
<1> HIDE DEF o, told, event
<1>4. Sound(o, now) /\ Later(d, o) /\ o.lastEnd = d.lastEnd
  BY <1>1, <1>2, EmitPlain, SameIsLater
<1>5. Sound(e, now) /\ Later(o, e) /\ e.lastEnd = o.lastEnd
  BY <1>1, <1>3, <1>4, EmitPlain, SameIsLater
<1>6. Later(d, e)
  BY ONLY <1>4, <1>5, Sound(d, now), Then
<1> QED
  BY <1>4, <1>5, <1>6

(* What lay in the audio still does when there is more of it. *)
LEMMA TilesLater ==
  ASSUME NEW ws, NEW now \in Nat, Tiling(ws, now), NEW later \in Nat, now <= later
  PROVE  Tiling(ws, later)
<1>1. \A w \in ws : w.end \in Nat /\ w.end <= now
  BY DEF Tiling
<1>2. \A w \in ws : w.end <= later
  BY <1>1
<1> QED
  BY <1>2 DEF Tiling

-----------------------------------------------------------------------------
(* push, as far as the log and the words are concerned.                    *)
Written ==
  /\ Sound(doc', at')
  /\ Nulls(doc')
  /\ GoesOn(doc, doc')
  /\ doc'.lastEnd = policy'.frontier
  /\ latest' # None => Tiling(WordsOf(latest'), at')

LEMMA PushWrites ==
  ASSUME IInv, NEW size \in Nat, NEW reading, NEW segment, NEW h, NEW measured,
         NEW rewrites, NEW lagging, Push(size, reading, segment, h, measured, rewrites, lagging),
         h # None => Tiling(WordsOf(h), at + size)
  PROVE  Written
<1> DEFINE now == at + size
           trained == IF segment = None THEN tracker
                      ELSE Taught(tracker, Segments[closed + 1], segment.voice, segment.pairs)
           heardH == IF h = None THEN latest ELSE h
           opened == Onset(ObserveLag(doc, lagging, now), reading, now)
           said == IF h = None THEN opened ELSE HearWords(opened, trained, h, lagging, now)
           filled == FillUnlabeled(said, trained, FALSE, now)
           policyT == PolicyAfter(h, now)
           settled == IF Releases(heardH, reading, now)
                      THEN Words!Settled(heardH, policyT) ELSE {}
           released == EmitWords(filled, trained, settled, now)
           score == Gate!MaybeScore(gate, scorer, now, measured)
           verdict == IF reading = FALSE THEN Gate!Verdict(gate, now, score) ELSE None
<1>1. /\ at' = now
      /\ latest' = heardH
      /\ policy' = IF Releases(heardH, reading, now)
                   THEN Advanced(policyT, settled, None) ELSE policyT
      /\ doc' = IF verdict = None THEN released
                ELSE EmitEndpoint(released, trained, verdict, rewrites, now)
  BY DEF Push
<1>2. /\ TypeOK /\ Sound(doc, at) /\ Nulls(doc)
      /\ latest # None => Tiling(WordsOf(latest), at)
  BY DEF IInv
<1>3. at \in Nat /\ now \in Nat /\ at <= now /\ doc.lastEnd = policy.frontier
  BY <1>2 DEF TypeOK
<1>4. Sound(doc, now)
  BY <1>2, <1>3, SoundLater
<1>5. heardH # None => Tiling(WordsOf(heardH), now)
  BY <1>2, <1>3, TilesLater
<1> HIDE DEF heardH, trained, verdict
<1>6. Sound(opened, now) /\ Later(doc, opened) /\ opened.lastEnd = doc.lastEnd
  BY <1>3, <1>4, NoticesKeep
<1> HIDE DEF opened
<1>7. Sound(said, now) /\ Later(opened, said) /\ said.lastEnd = policyT.frontier
  <2>1. CASE h = None
    BY <1>3, <1>6, <2>1, SameIsLater DEF PolicyAfter
  <2>2. CASE h # None
    <3> DEFINE held == Words!HeldAfter(h, policy, now)
               aim == Advanced(policy, Words!Taken(h, policy, now), held).frontier
               f == HearWords(opened, trained, h, lagging, now)
    <3>1. policyT.frontier = aim /\ said = f
      BY <2>2 DEF PolicyAfter
    <3>2. opened.lastEnd = policy.frontier /\ Tiling(WordsOf(h), now)
      BY <1>3, <1>6, <2>2
    <3> HIDE DEF now, f, policyT, said, held
    <3>3. Sound(f, now) /\ Later(opened, f) /\ f.lastEnd = aim
      BY <1>3, <1>6, <3>2, HearKeeps DEF f
    <3> QED
      BY <3>1, <3>3
  <2> QED
    BY <2>1, <2>2
<1> HIDE DEF said
<1>8. Sound(filled, now) /\ Later(said, filled) /\ filled.lastEnd = said.lastEnd
  <2>1. filled = FillUnlabeled(said, trained, FALSE, now)
    OBVIOUS
  <2> HIDE DEF now, filled
  <2> QED
    BY ONLY <1>3, <1>7, <2>1, EarlyFill, ZenonT(60)
<1> HIDE DEF filled, policyT
<1>9. Sound(released, now) /\ Later(filled, released) /\ released.lastEnd = policy'.frontier
  <2>1. CASE ~ Releases(heardH, reading, now)
    <3>1. settled = {} /\ policy' = policyT
      BY <1>1, <2>1
    <3>2. Tiling({}, now)
      BY FS_EmptySet DEF Tiling
    <3>3. released = EmitWords(filled, trained, {}, now)
      BY <3>1
    <3>4. filled.lastEnd = policyT.frontier
      BY <1>7, <1>8
    <3> HIDE DEF released, settled
    <3>5. /\ Sound(released, now) /\ Later(filled, released)
          /\ released.lastEnd = filled.lastEnd
      BY <1>3, <1>8, <3>2, <3>3, EmitWordsKeeps
    <3> QED
      BY <3>1, <3>4, <3>5
  <2>2. CASE Releases(heardH, reading, now)
    <3>1. settled = Words!Pending(heardH.tentative, policyT.frontier)
      BY <2>2 DEF Words!Settled
    <3>2. policy' = Advanced(policyT, settled, None)
      BY <1>1, <2>2
    <3>3. Tiling(WordsOf(heardH), now) /\ heardH.tentative \in SUBSET WordsOf(heardH)
      BY <1>5, <2>2 DEF Releases, WordsOf
    <3> HIDE DEF settled
    <3>4. Tiling(settled, now) /\ \A w \in settled : policyT.frontier <= w.start
      BY <3>1, <3>3, PendingTiles
    <3>5. filled.lastEnd = policyT.frontier
      BY <1>7, <1>8
    <3> HIDE DEF now
    <3>6. /\ Sound(released, now) /\ Later(filled, released)
          /\ released.lastEnd = Advanced(policyT, settled, None).frontier
      BY <1>3, <1>8, <3>4, <3>5, WordsCommitted
    <3> QED
      BY <3>2, <3>6
  <2> QED
    BY <2>1, <2>2
<1> HIDE DEF released
<1>10. Later(doc, released)
  <2>1. Later(doc, said)
    BY ONLY <1>4, <1>6, <1>7, Then
  <2>2. Later(doc, filled)
    BY ONLY <1>4, <1>7, <1>8, <2>1, Then
  <2> QED
    BY ONLY <1>4, <1>8, <1>9, <2>2, Then
<1>11. Nulls(released)
  BY <1>2, <1>4, <1>9, <1>10, NullsGoOn
<1>12. Sound(doc', now) /\ Nulls(doc') /\ GoesOn(doc, doc') /\ doc'.lastEnd = policy'.frontier
  <2>1. CASE verdict = None
    <3>1. doc' = released
      BY <1>1, <2>1
    <3> QED
      BY <1>9, <1>10, <1>11, <3>1 DEF Later
  <2>2. CASE verdict # None
    <3>1. doc' = EmitEndpoint(released, trained, verdict, rewrites, now)
      BY <1>1, <2>2
    <3> HIDE DEF now
    <3>2. /\ Sound(doc', now) /\ GoesOn(released, doc')
          /\ doc'.lastEnd = released.lastEnd /\ doc'.unlabeled = << >>
      BY <1>3, <1>9, <3>1, EndpointKeeps
    <3>3. Nulls(doc')
      BY <3>2, EmptyIsSeq DEF Nulls
    <3>4. GoesOn(doc, released)
      BY <1>10 DEF Later
    <3>5. IsSeq(doc.log) /\ IsSeq(released.log) /\ IsSeq(doc'.log)
      BY <1>4, <1>9, <3>2 DEF Sound, Shape
    <3>6. GoesOn(doc, doc')
      BY <3>2, <3>4, <3>5, GoesOnAfter
    <3> QED
      BY <1>9, <3>2, <3>3, <3>6
  <2> QED
    BY <2>1, <2>2
<1> QED
  BY <1>1, <1>5, <1>12 DEF Written

(* finish likewise.                                                        *)
LEMMA FinishWrites ==
  ASSUME IInv, NEW segment, NEW h, NEW measured, NEW rewrites,
         Finish(segment, h, measured, rewrites), Tiling(WordsOf(h), at)
  PROVE  Written /\ doc'.unlabeled = << >>
<1> DEFINE trained == IF segment = None THEN tracker
                      ELSE Taught(tracker, Segments[closed + 1], segment.voice, segment.pairs)
           rest == Words!Flushed(h, policy)
           said == EmitWords(doc, trained, rest, at)
           filled == FillUnlabeled(said, trained, TRUE, at)
           verdict == Gate!FlushVerdict(gate)
<1>1. /\ at' = at /\ latest' = latest
      /\ policy' = Advanced(policy, rest, None)
      /\ doc' = IF verdict = None THEN Polish(filled, rewrites, at)
                ELSE EmitEndpoint(filled, trained, verdict, rewrites, at)
  BY DEF Finish
<1>2. /\ TypeOK /\ Sound(doc, at) /\ Nulls(doc)
      /\ latest # None => Tiling(WordsOf(latest), at)
  BY DEF IInv
<1>3. at \in Nat /\ doc.lastEnd = policy.frontier
  BY <1>2 DEF TypeOK
<1> HIDE DEF trained, verdict
<1>4. Tiling(rest, at) /\ \A w \in rest : policy.frontier <= w.start
  <2>1. rest = Words!Pending(WordsOf(h), policy.frontier)
    BY DEF Words!Flushed, WordsOf
  <2> HIDE DEF rest
  <2> QED
    BY <2>1, PendingTiles
<1> HIDE DEF rest
<1>5. /\ Sound(said, at) /\ Later(doc, said)
      /\ said.lastEnd = Advanced(policy, rest, None).frontier
  BY <1>2, <1>3, <1>4, WordsCommitted
<1> HIDE DEF said
<1>6. /\ Sound(filled, at) /\ Later(said, filled) /\ filled.lastEnd = said.lastEnd
      /\ filled.unlabeled = << >>
  <2>1. filled = FillUnlabeled(said, trained, TRUE, at)
    OBVIOUS
  <2> QED
    BY ONLY <1>3, <1>5, <2>1, LastFill, ZenonT(60)
<1> HIDE DEF filled
<1>7. /\ Sound(doc', at) /\ GoesOn(filled, doc')
      /\ doc'.lastEnd = filled.lastEnd /\ doc'.unlabeled = << >>
  <2>1. CASE verdict = None
    <3>1. doc' = Polish(filled, rewrites, at)
      BY <1>1, <2>1
    <3> QED
      BY <1>3, <1>6, <3>1, PolishKeeps DEF Later
  <2>2. CASE verdict # None
    <3>1. doc' = EmitEndpoint(filled, trained, verdict, rewrites, at)
      BY <1>1, <2>2
    <3> QED
      BY <1>3, <1>6, <3>1, EndpointKeeps
  <2> QED
    BY <2>1, <2>2
<1>8. Nulls(doc')
  BY <1>7, EmptyIsSeq DEF Nulls
<1>9. GoesOn(doc, doc')
  <2>1. Later(doc, filled)
    BY ONLY <1>2, <1>5, <1>6, Then
  <2>2. GoesOn(doc, filled)
    BY <2>1 DEF Later
  <2>3. IsSeq(doc.log) /\ IsSeq(filled.log) /\ IsSeq(doc'.log)
    BY <1>2, <1>6, <1>7 DEF Sound, Shape
  <2> QED
    BY <1>7, <2>2, <2>3, GoesOnAfter
<1> QED
  BY <1>1, <1>2, <1>5, <1>6, <1>7, <1>8, <1>9 DEF Written

-----------------------------------------------------------------------------
(* The types of what else the actions write.                               *)
LEMMA GateStays ==
  ASSUME NEW g \in Gate!Gate, NEW now \in Nat, NEW reading \in BOOLEAN, NEW score
  PROVE  Gate!Fired(g) \in Gate!Gate /\ Gate!Observed(g, reading, now, score) \in Gate!Gate
<1>1. Gate!Fired(g) \in Gate!Gate
  BY DEF Gate!Fired, Gate!Gate
<1> QED
  BY <1>1 DEF Gate!Observed, Gate!Gate

LEMMA ScorerStays ==
  ASSUME NEW g, NEW c \in Gate!Scorer, NEW now \in Nat, NEW measured \in Gate!Completeness
  PROVE  /\ Gate!Scored(g, c, now, measured) \in Gate!Scorer
         /\ Gate!FinallyScored(c, measured) \in Gate!Scorer
<1>1. Gate!Scored(g, c, now, measured) \in Gate!Scorer
  BY DEF Gate!Scored, Gate!Scorer
<1> QED
  BY <1>1 DEF Gate!FinallyScored, Gate!Scorer

(* A frontend closes the segments there are. *)
LEMMA ClosedInRange ==
  ASSUME closed \in 0 .. Len(Segments), NEW now, NEW segment \in Closing(now)
  PROVE  (IF segment = None THEN closed ELSE closed + 1) \in 0 .. Len(Segments)
<1>1. Len(Segments) \in Nat
  BY CoordinatorAssumption
<1>2. segment # None => closed # Len(Segments)
  BY DEF Closing
<1> QED
  BY <1>1, <1>2

(* push leaves every variable what it should be. *)
LEMMA PushTypes ==
  ASSUME IInv, NEW size \in Nat, NEW reading \in Readings, NEW segment \in Closing(at + size),
         NEW h \in Words!Hypothesis \cup {None}, NEW measured \in Gate!Completeness,
         NEW rewrites, NEW lagging \in BOOLEAN,
         Push(size, reading, segment, h, measured, rewrites, lagging),
         Written, ended' = ended, stable' \in Seq(Renderings)
  PROVE  TypeOK'
<1> DEFINE now == at + size
           score == Gate!MaybeScore(gate, scorer, now, measured)
<1>1. TypeOK /\ Sound(doc', at') /\ doc'.lastEnd = policy'.frontier
  BY DEF IInv, Written
<1>2. reading \in BOOLEAN \cup {None}
  BY CoordinatorAssumption DEF Readings
<1>3. at' = now /\ at' \in Nat
  BY <1>1 DEF TypeOK, Push
<1>4. /\ speaking' = reading /\ degraded' = lagging
      /\ spokeYet' = (spokeYet \/ reading = TRUE)
      /\ closed' = IF segment = None THEN closed ELSE closed + 1
      /\ latest' = IF h = None THEN latest ELSE h
  BY DEF Push
<1>5. gate' \in Gate!Gate /\ scorer' \in Gate!Scorer
  <2>1. CASE reading = None
    <3>1. gate' = gate /\ scorer' = scorer
      BY <2>1 DEF Push
    <3> QED
      BY <1>1, <3>1 DEF TypeOK
  <2>2. CASE reading # None
    <3>1. /\ scorer' = Gate!Scored(gate, scorer, now, measured)
          /\ gate' = Gate!Observed(gate, reading, now, score)
      BY <2>2 DEF Push
    <3>2. reading \in BOOLEAN /\ gate \in Gate!Gate /\ scorer \in Gate!Scorer /\ now \in Nat
      BY <1>1, <1>2, <1>3, <2>2 DEF TypeOK
    <3> HIDE DEF now, score
    <3> QED
      BY <3>1, <3>2, GateStays, ScorerStays
  <2> QED
    BY <2>1, <2>2
<1>6. policy'.frontier \in 0 .. at'
  BY <1>1, <1>3 DEF Sound, Shape
<1>7. closed' \in 0 .. Len(Segments)
  <2>1. closed \in 0 .. Len(Segments)
    BY <1>1 DEF TypeOK
  <2> QED
    BY <1>4, <2>1, ClosedInRange
<1>8. latest' \in Words!Hypothesis \cup {None}
  BY <1>1, <1>4 DEF TypeOK
<1>9. degraded' \in BOOLEAN /\ spokeYet' \in BOOLEAN /\ ended' \in BOOLEAN
  <2>1. spokeYet' \in BOOLEAN
    BY <1>4, Zenon
  <2> QED
    BY <1>1, <1>4, <2>1 DEF TypeOK
<1> QED
  BY <1>1, <1>2, <1>3, <1>4, <1>5, <1>6, <1>7, <1>8, <1>9 DEF TypeOK

(* ... and so does finish. *)
LEMMA FinishTypes ==
  ASSUME IInv, NEW segment \in Closing(at), NEW h, NEW measured \in Gate!Completeness,
         NEW rewrites, Finish(segment, h, measured, rewrites), Written, stable' \in Seq(Renderings)
  PROVE  TypeOK'
<1>1. TypeOK /\ Sound(doc', at') /\ doc'.lastEnd = policy'.frontier
  BY DEF IInv, Written
<1>2. /\ ended' = TRUE /\ at' = at /\ latest' = latest /\ degraded' = degraded
      /\ spokeYet' = spokeYet /\ speaking' = speaking
      /\ closed' = IF segment = None THEN closed ELSE closed + 1
      /\ scorer' = Gate!FinallyScored(scorer, measured)
      /\ gate' = gate \/ gate' = Gate!Fired(gate)
  BY DEF Finish
<1>3. gate' \in Gate!Gate
  BY <1>1, <1>2 DEF TypeOK, Gate!Fired, Gate!Gate
<1>4. scorer' \in Gate!Scorer
  BY <1>1, <1>2, ScorerStays DEF TypeOK
<1>5. policy'.frontier \in 0 .. at'
  BY <1>1, <1>2 DEF TypeOK, Sound, Shape
<1>6. closed' \in 0 .. Len(Segments)
  <2>1. closed \in 0 .. Len(Segments)
    BY <1>1 DEF TypeOK
  <2> QED
    BY <1>2, <2>1, ClosedInRange
<1> QED
  BY <1>1, <1>2, <1>3, <1>4, <1>5, <1>6 DEF TypeOK

-----------------------------------------------------------------------------
(* A new session has said nothing, and nothing waits.                      *)
LEMMA InitHolds == Init => IInv
<1> SUFFICES ASSUME Init PROVE IInv
  OBVIOUS
<1>1. at = 0 /\ doc = EmptyDoc /\ latest = None /\ ended = FALSE
  BY DEF Init
<1>2. /\ doc.log = << >> /\ doc.unlabeled = << >> /\ doc.utterance = << >>
      /\ doc.turn = 0 /\ doc.speaker = None /\ doc.lastEnd = 0 /\ doc.error = FALSE
      /\ IsDoc(doc)
  BY <1>1 DEF EmptyDoc, IsDoc
<1>3. IsSeq(<< >>) /\ DOMAIN << >> = {}
  BY EmptyIsSeq
<1>4. Shape(doc, at)
  BY <1>1, <1>2, <1>3 DEF Shape
<1>5. Turns(doc) /\ Fills(doc) /\ Renders(doc) /\ Nulls(doc)
  BY <1>2, <1>3 DEF Turns, Fills, Renders, Nulls
<1>6. TypeOK
  <2>1. gate \in Gate!Gate
    BY DEF Init, Gate!Gate, Gate!FreshGate
  <2>2. scorer \in Gate!Scorer
    BY CoordinatorAssumption DEF Init, Gate!Scorer, Gate!FreshScorer, Gate!Completeness
  <2>3. policy.frontier = 0
    BY DEF Init, Words!FreshCommit
  <2>4. stable \in Seq(Renderings)
    BY DEF Init
  <2>5. closed \in 0 .. Len(Segments)
    <3>1. closed = 0 /\ Len(Segments) \in Nat
      BY CoordinatorAssumption DEF Init
    <3> QED
      BY <3>1
  <2>6. degraded \in BOOLEAN /\ spokeYet \in BOOLEAN /\ ended \in BOOLEAN /\ speaking = None
    BY Zenon DEF Init
  <2> QED
    BY <1>1, <1>2, <2>1, <2>2, <2>3, <2>4, <2>5, <2>6 DEF TypeOK
<1> QED
  BY <1>1, <1>2, <1>4, <1>5, <1>6 DEF IInv, Sound

(* push keeps the invariant, whether or not the engine answered. *)
LEMMA PushStep ==
  ASSUME IInv, NEW size \in Steps, PushChunk(size)
  PROVE  IInv' /\ GoesOn(doc, doc')
<1>1. PICK reading \in Readings, segment \in Closing(at + size),
           measured \in Gate!Completeness, rewrites \in BOOLEAN, lagging \in {FALSE, CanLag} :
        /\ Running
        /\ at + size <= MaxAt
        /\ UNCHANGED ended
        /\ \/ /\ Push(size, reading, segment, None, measured, rewrites, lagging)
              /\ UNCHANGED stable
           \/ \E words \in Sayings, s \in 0 .. MostWords, fragment \in BOOLEAN,
                 conf \in Confidences :
                /\ CanSay(stable, words, s, at + size)
                /\ Push(size, reading, segment, Heard(words, s, fragment, conf),
                        measured, rewrites, lagging)
                /\ stable' = SubSeq(words, 1, s)
  BY Zenon DEF PushChunk
<1>2. TypeOK /\ at \in Nat /\ stable \in Seq(Renderings)
  BY DEF IInv, TypeOK
<1>3. size \in Nat /\ at + size \in Nat /\ lagging \in BOOLEAN
  <2>1. size \in Nat /\ at + size \in Nat
    BY <1>2, CoordinatorAssumption
  <2>2. lagging \in BOOLEAN
    BY CoordinatorAssumption, Zenon
  <2> QED
    BY <2>1, <2>2
<1>4. ended' = ended /\ ~ ended
  BY <1>1 DEF Running
<1>5. PICK h : /\ Push(size, reading, segment, h, measured, rewrites, lagging)
               /\ h \in Words!Hypothesis \cup {None}
               /\ h # None => Tiling(WordsOf(h), at + size)
               /\ stable' \in Seq(Renderings)
  <2>1. CASE Push(size, reading, segment, None, measured, rewrites, lagging) /\ UNCHANGED stable
    BY <1>2, <2>1
  <2>2. ASSUME NEW words \in Sayings, NEW s \in 0 .. MostWords, NEW fragment \in BOOLEAN,
               NEW conf \in Confidences,
               CanSay(stable, words, s, at + size),
               Push(size, reading, segment, Heard(words, s, fragment, conf),
                    measured, rewrites, lagging),
               stable' = SubSeq(words, 1, s)
        PROVE  \E h : /\ Push(size, reading, segment, h, measured, rewrites, lagging)
                      /\ h \in Words!Hypothesis \cup {None}
                      /\ h # None => Tiling(WordsOf(h), at + size)
                      /\ stable' \in Seq(Renderings)
    <3> DEFINE now == at + size
    <3>1. PICK h : h = Heard(words, s, fragment, conf)
      OBVIOUS
    <3>2. now \in Nat /\ s \in Nat /\ CanSay(stable, words, s, now)
      BY <1>3, <2>2, ContractAssumption
    <3> HIDE DEF now
    <3>3. Tiling(WordsOf(h), now) /\ h \in Words!Hypothesis /\ stable' \in Seq(Renderings)
      BY <2>2, <3>1, <3>2, HeardTiles
    <3> QED
      BY <2>2, <3>1, <3>3 DEF now
  <2> QED
    BY <1>1, <2>1, <2>2
<1>6. Written
  BY <1>3, <1>5, PushWrites
<1>7. TypeOK'
  BY <1>3, <1>4, <1>5, <1>6, PushTypes
<1> QED
  BY <1>4, <1>6, <1>7 DEF IInv, Written

(* finish keeps it, and leaves nothing waiting. *)
LEMMA FinishStep ==
  ASSUME IInv, EndStream
  PROVE  IInv' /\ GoesOn(doc, doc')
<1>1. PICK segment \in Closing(at), words \in Sayings, conf \in Confidences,
           measured \in Gate!Completeness, rewrites \in BOOLEAN :
        /\ CanSay(stable, words, Len(words), at)
        /\ Finish(segment, Heard(words, Len(words), FALSE, conf), measured, rewrites)
        /\ stable' = words
  BY DEF EndStream
<1>2. at \in Nat
  BY DEF IInv, TypeOK
<1>3. PICK h : h = Heard(words, Len(words), FALSE, conf)
  OBVIOUS
<1>4. Tiling(WordsOf(h), at) /\ stable' \in Seq(Renderings)
  <2>1. Len(words) \in Nat
    BY SayingIs, ContractAssumption
  <2> QED
    BY <1>1, <1>2, <1>3, <2>1, HeardTiles
<1>5. Finish(segment, h, measured, rewrites)
  BY <1>1, <1>3
<1>6. Written /\ doc'.unlabeled = << >>
  BY <1>4, <1>5, FinishWrites
<1>7. TypeOK'
  BY <1>1, <1>4, <1>5, <1>6, FinishTypes
<1> QED
  BY <1>6, <1>7 DEF IInv, Written

LEMMA StepHolds == IInv /\ [Next]_vars => IInv'
<1> SUFFICES ASSUME IInv, [Next]_vars PROVE IInv'
  OBVIOUS
<1>1. CASE UNCHANGED vars
  BY <1>1 DEF IInv, TypeOK, vars
<1> QED
  BY <1>1, PushStep, FinishStep DEF Next

(* IInv says of the log what the invariants do. *)
LEMMA OneVoice == IInv => TurnsAreOneVoice
<1> SUFFICES ASSUME IInv, NEW i \in OfKind("commit"), doc.log[i].speaker # None
             PROVE  {doc.log[j].speaker : j \in {j \in 1 .. i :
                       Announced(j) /\ doc.log[j].turn = doc.log[i].turn}}
                    = {doc.log[i].speaker}
  BY DEF TurnsAreOneVoice
<1>1. Turns(doc) /\ i \in DOMAIN doc.log /\ doc.log[i].kind = "commit"
  BY DEF IInv, Sound, OfKind, Events
<1>2. \A j : Announced(j) <=> Says(doc.log, j)
  BY DEF Announced, Says
<1>3. /\ \E j \in 1 .. i : Says(doc.log, j) /\ doc.log[j].turn = doc.log[i].turn
      /\ \A j \in 1 .. i : Says(doc.log, j) /\ doc.log[j].turn = doc.log[i].turn =>
           doc.log[j].speaker = doc.log[i].speaker
  BY <1>1 DEF Turns
<1> QED
  BY <1>2, <1>3

LEMMA Abandoned == IInv => NullsAreAbandoned
<1> SUFFICES ASSUME IInv PROVE NullsAreAbandoned
  OBVIOUS
<1>1. Nulls(doc) /\ (ended => doc.unlabeled = << >>)
  BY DEF IInv
<1> QED
  BY <1>1 DEF NullsAreAbandoned, Nulls, OfKind, Events

LEMMA AlwaysHolds == Spec => []IInv
  BY InitHolds, StepHolds, PTL DEF Spec

(* Every variable of the Coordinator keeps its type, and the log and the   *)
(* commit policy agree on how far the transcript has got.                  *)
THEOREM CoordinatorTypeCorrect == Spec => []TypeOK
<1>1. IInv => TypeOK
  BY DEF IInv
<1> QED
  BY <1>1, AlwaysHolds, PTL

(* With an engine, a frontend and a VAD that keep their contracts, neither *)
(* EngineTimestampError nor AppendOnlyViolation is ever raised, whatever   *)
(* words are taken, held, settled and flushed in whatever order.           *)
THEOREM NeverRaises == Spec => []NothingRaised
<1>1. IInv => NothingRaised
  BY DEF IInv, Sound, Shape, NothingRaised
<1> QED
  BY <1>1, AlwaysHolds, PTL

(* A labelled word of a turn carries the one label that turn was announced *)
(* with before it (_maybe_open_turn), across merges and late labels.       *)
THEOREM TurnsHaveOneVoice == Spec => []TurnsAreOneVoice
  BY OneVoice, AlwaysHolds, PTL

(* No word waits for a label past the endpoint after it, or past the end   *)
(* of the stream (_fill_unlabeled with final=True).                        *)
THEOREM NullsWaitNoLonger == Spec => []NullsAreAbandoned
  BY Abandoned, AlwaysHolds, PTL

(* The log is append-only: a step writes after what is there and changes   *)
(* none of it (EventLog.emit, and every handler through it).               *)
THEOREM TheLogOnlyGrows == Spec => [][GoesOn(doc, doc')]_vars
<1>1. IInv /\ [Next]_vars => [GoesOn(doc, doc')]_vars
  BY PushStep, FinishStep DEF Next
<1> QED
  BY <1>1, AlwaysHolds, PTL DEF Spec

-----------------------------------------------------------------------------
(* A commit's line in the log of d, and the line e has for it when its log *)
(* goes on where that of d ends: the same word, and the speaker it had.    *)
FillsOf(log, i) == {j \in DOMAIN log : log[j].kind = "speaker" /\ log[j].seq = i}

SpeakerOf(log, i) ==
  IF FillsOf(log, i) = {} THEN log[i].speaker
  ELSE log[CHOOSE j \in FillsOf(log, i) : \A k \in FillsOf(log, i) : k <= j].speaker

LEMMA SpeakerKept ==
  ASSUME NEW d, NEW e, IsSeq(d.log), IsSeq(e.log), Fills(d), Fills(e), GoesOn(d, e),
         NEW i \in DOMAIN d.log, d.log[i].kind = "commit", SpeakerOf(d.log, i) # None
  PROVE  SpeakerOf(e.log, i) = SpeakerOf(d.log, i)
<1> DEFINE F == FillsOf(d.log, i)
           G == FillsOf(e.log, i)
<1>1. F \subseteq G /\ e.log[i] = d.log[i] /\ i \in DOMAIN e.log
  <2>1. DOMAIN d.log \subseteq DOMAIN e.log
    BY Longer DEF GoesOn
  <2> QED
    BY <2>1 DEF GoesOn, FillsOf
<1>2. \A j, k \in G : j = k
  BY DEF Fills, FillsOf
<1>3. CASE F = {}
  <2>1. d.log[i].speaker # None
    BY <1>3 DEF SpeakerOf
  <2>2. ~ Null(e.log, i)
    BY <1>1, <2>1 DEF Null
  <2>3. G = {}
    BY <2>2 DEF FillsOf, Fills
  <2> QED
    BY <1>1, <1>3, <2>3 DEF SpeakerOf
<1>4. CASE F # {}
  <2>1. PICK j : j \in F
    BY <1>4
  <2>2. F = {j} /\ G = {j} /\ j \in Nat /\ e.log[j] = d.log[j]
    <3>1. j \in DOMAIN d.log
      BY <2>1 DEF FillsOf
    <3>2. j \in Nat /\ e.log[j] = d.log[j]
      BY <3>1, Longer DEF GoesOn
    <3> QED
      BY <1>1, <1>2, <2>1, <3>2
  <2>3. (CHOOSE x \in {j} : \A k \in {j} : k <= x) = j
    BY <2>2
  <2> QED
    BY <2>2, <2>3 DEF SpeakerOf
<1> QED
  BY <1>3, <1>4

LinesRead ==
  \A i \in OfKind("commit") :
    /\ Lines[i].word = <<doc.log[i].text, doc.log[i].start, doc.log[i].end>>
    /\ Lines[i].speaker = SpeakerOf(doc.log, i)

LEMMA LineIs == LinesRead
<1> SUFFICES ASSUME NEW i \in OfKind("commit")
             PROVE  /\ Lines[i].word
                         = <<doc.log[i].text, doc.log[i].start, doc.log[i].end>>
                    /\ Lines[i].speaker = SpeakerOf(doc.log, i)
  BY DEF LinesRead
<1> DEFINE F == {j \in OfKind("speaker") : doc.log[j].seq = i}
           Told(S) == IF S = {} THEN doc.log[i].speaker
                      ELSE doc.log[CHOOSE j \in S : \A k \in S : k <= j].speaker
<1>1. F = FillsOf(doc.log, i)
  BY DEF OfKind, Events, FillsOf
<1>2. Lines[i] = Line(i)
  BY DEF Lines
<1>3. Line(i).word = <<doc.log[i].text, doc.log[i].start, doc.log[i].end>>
  BY DEF Line
<1>4. Line(i).speaker = Told(F)
  BY DEF Line
<1>5. Told(FillsOf(doc.log, i)) = SpeakerOf(doc.log, i)
  BY DEF SpeakerOf
<1>6. Told(F) = SpeakerOf(doc.log, i)
  <2> HIDE DEF F, Told
  <2> QED
    BY <1>1, <1>5
<1> QED
  BY <1>2, <1>3, <1>4, <1>6

LEMMA StepContradictsNothing ==
  ASSUME IInv, IInv', GoesOn(doc, doc')
  PROVE  OneRule!Next
<1>1. /\ IsSeq(doc.log) /\ IsSeq(doc'.log) /\ Fills(doc) /\ Fills(doc')
  BY DEF IInv, Sound, Shape
<1>2. DOMAIN Lines = OfKind("commit") /\ DOMAIN Lines' = OfKind("commit")'
  BY DEF Lines
<1>3. /\ DOMAIN doc.log = 1 .. Len(doc.log) /\ DOMAIN doc'.log = 1 .. Len(doc'.log)
      /\ Len(doc.log) \in Nat /\ Len(doc'.log) \in Nat
      /\ Len(doc.log) <= Len(doc'.log)
      /\ \A i \in DOMAIN doc.log : doc'.log[i] = doc.log[i]
  BY <1>1, Longer DEF GoesOn
<1>4. /\ OfKind("commit") \subseteq OfKind("commit")'
      /\ \A j \in OfKind("commit")' \ OfKind("commit") : Len(doc.log) < j
      /\ \A i \in OfKind("commit") : i \in Nat /\ i <= Len(doc.log)
  BY <1>3 DEF OfKind, Events
<1>5. \A i \in DOMAIN Lines, j \in DOMAIN Lines' \ DOMAIN Lines : i < j
  BY <1>2, <1>3, <1>4 DEF OfKind, Events
<1>6. ASSUME NEW i \in OfKind("commit")
      PROVE  /\ Lines'[i].word = Lines[i].word
             /\ Lines[i].speaker # None => Lines'[i].speaker = Lines[i].speaker
  <2>1. doc'.log[i] = doc.log[i] /\ i \in DOMAIN doc.log /\ doc.log[i].kind = "commit"
    BY <1>3 DEF OfKind, Events
  <2>2. /\ Lines[i].word = <<doc.log[i].text, doc.log[i].start, doc.log[i].end>>
        /\ Lines[i].speaker = SpeakerOf(doc.log, i)
    BY LineIs DEF LinesRead
  <2>3. /\ Lines'[i].word
             = <<doc'.log[i].text, doc'.log[i].start, doc'.log[i].end>>
        /\ Lines'[i].speaker = SpeakerOf(doc'.log, i)
    <3>1. LinesRead'
      BY LineIs, PTL
    <3> QED
      BY <1>4, <3>1 DEF LinesRead
  <2>4. SpeakerOf(doc.log, i) # None => SpeakerOf(doc'.log, i) = SpeakerOf(doc.log, i)
    BY <1>1, <2>1, SpeakerKept
  <2> QED
    BY <2>1, <2>2, <2>3, <2>4
<1> QED
  BY <1>2, <1>4, <1>5, <1>6 DEF OneRule!Next

(* The log, as a consumer reads it, implements THE ONE RULE: its lines     *)
(* start empty and every step of the Coordinator is a step of Transcript   *)
(* or leaves the lines alone.                                              *)
THEOREM NothingIsContradicted == Spec => NeverContradicted
<1>1. Init => OneRule!Init
  <2> SUFFICES ASSUME Init PROVE OneRule!Init
    OBVIOUS
  <2>1. DOMAIN doc.log = {}
    BY EmptyIsSeq DEF Init, EmptyDoc
  <2> QED
    BY <2>1 DEF OneRule!Init, Lines, OfKind, Events
<1>2. IInv /\ IInv' /\ [Next]_vars => [OneRule!Next]_Lines
  <2> SUFFICES ASSUME IInv, IInv', [Next]_vars PROVE OneRule!Next \/ UNCHANGED Lines
    OBVIOUS
  <2>1. CASE UNCHANGED vars
    BY <2>1 DEF vars, Lines, OfKind, Events, Line
  <2>2. CASE Next
    <3>1. GoesOn(doc, doc')
      BY <2>2, PushStep, FinishStep DEF Next
    <3> QED
      BY <3>1, StepContradictsNothing
  <2> QED
    BY <2>1, <2>2
<1> QED
  BY <1>1, <1>2, AlwaysHolds, PTL DEF Spec, NeverContradicted, OneRule!Spec

-----------------------------------------------------------------------------
(* What a consumer reads of the log.                                       *)
Commits(log) == {i \in DOMAIN log : log[i].kind = "commit"}

(* said lists the members of s, in order.                                  *)
Lists(said, s) ==
  /\ IsSeq(said)
  /\ \A k \in DOMAIN said : said[k] \in s
  /\ \A k, l \in DOMAIN said : k < l => said[k] < said[l]
  /\ \A i \in s : \E k \in DOMAIN said : said[k] = i

Gather(log, i, said) == Append(said, i)

Listed(log, s, said) == Lists(said, s)

Listing == INSTANCE Folding WITH Op <- Gather, Pick <- Top, Keeps <- Listed

LEMMA CommittedIsAFold ==
  ASSUME NEW log
  PROVE  Committed(log) = Listing!Fold(log, << >>, Commits(log))
  BY DEF Committed, Commits, MapThenFoldSet, Listing!Fold, Listing!Folds, Gather, Top

(* The last of some numbers comes after the others. *)
LEMMA TopIsLast ==
  ASSUME NEW L \in Nat, NEW s \in SUBSET (1 .. L), s # {}
  PROVE  \A i \in s \ {Top(s)} : i < Top(s)
<1>1. IsFiniteSet(1 .. L)
  BY FS_Interval
<1>2. IsFiniteSet(s)
  BY <1>1, FS_Subset
<1> DEFINE R == {z \in s \X s : z[1] < z[2]}
<1>3. \A x, y \in s : <<x, y>> \in R <=> x < y
  OBVIOUS
<1>4. /\ \A x, y \in s : x = y \/ <<x, y>> \in R \/ <<y, x>> \in R
      /\ \A x, y, z \in s : <<x, y>> \in R /\ <<y, z>> \in R => <<x, z>> \in R
  <2> HIDE DEF R
  <2> QED
    BY <1>3
<1> HIDE DEF R
<1>5. Committing!IsFiniteSet(s) /\ s # {}
  BY <1>2, StillFinite
<1>6. PICK x \in s : \A y \in s : y = x \/ <<y, x>> \in R
  BY ONLY <1>4, <1>5, Committing!LastMember
<1>7. \A y \in s : x >= y
  <2> SUFFICES ASSUME NEW y \in s PROVE x >= y
    OBVIOUS
  <2>1. y = x \/ y < x
    BY <1>3, <1>6
  <2> QED
    BY <2>1
<1>8. Top(s) \in s /\ \A y \in s : Top(s) >= y
  BY <1>7 DEF Top, Max
<1> SUFFICES ASSUME NEW i \in s, i # Top(s) PROVE i < Top(s)
  OBVIOUS
<1>9. i \in 1 .. L /\ Top(s) \in 1 .. L
  BY <1>8
<1>10. i \in Nat /\ Top(s) \in Nat /\ Top(s) >= i
  <2>1. Top(s) >= i
    BY <1>8
  <2> QED
    BY <1>9, <2>1
<1> QED
  BY <1>10

LEMMA ListOneMore ==
  ASSUME NEW L \in Nat, NEW s \in SUBSET (1 .. L), s # {},
         NEW said, Lists(said, s \ {Top(s)})
  PROVE  Lists(Append(said, Top(s)), s)
<1> DEFINE t == Top(s)
           m == Len(said)
           more == Append(said, t)
<1>1. t \in s /\ \A i \in s \ {t} : i < t
  BY TopIsIn, TopIsLast
<1>2. /\ m \in Nat /\ DOMAIN said = 1 .. m /\ DOMAIN more = 1 .. (m + 1)
      /\ IsSeq(more)
      /\ \A k \in 1 .. m : more[k] = said[k]
      /\ more[m + 1] = t
  BY Longer DEF Lists
<1> HIDE DEF t, m, more
<1>3. /\ \A k \in 1 .. m : said[k] \in s \ {t}
      /\ \A k, l \in 1 .. m : k < l => said[k] < said[l]
      /\ \A i \in s \ {t} : \E k \in 1 .. m : said[k] = i
  BY <1>2 DEF Lists, t
<1>4. \A k \in DOMAIN more : k \in 1 .. m \/ k = m + 1
  BY <1>2
<1>5. \A k \in DOMAIN more : more[k] \in s
  BY <1>1, <1>2, <1>3, <1>4
<1>6. ASSUME NEW k \in DOMAIN more, NEW l \in DOMAIN more, k < l
      PROVE  more[k] < more[l]
  <2>1. k \in 1 .. m
    BY <1>2, <1>6
  <2>2. CASE l \in 1 .. m
    BY <1>2, <1>3, <1>6, <2>1, <2>2
  <2>3. CASE l = m + 1
    BY <1>1, <1>2, <1>3, <2>1, <2>3
  <2> QED
    BY <1>4, <2>2, <2>3
<1>7. ASSUME NEW i \in s PROVE \E k \in DOMAIN more : more[k] = i
  <2>1. CASE i = t
    BY <1>2, <2>1
  <2>2. CASE i # t
    <3>1. PICK k \in 1 .. m : said[k] = i
      BY <1>3, <2>2
    <3>2. k \in DOMAIN more /\ more[k] = i
      BY <1>2, <3>1
    <3> QED
      BY <3>2
  <2> QED
    BY <2>1, <2>2
<1>8. Lists(more, s)
  BY <1>2, <1>5, <1>6, <1>7 DEF Lists
<1> QED
  BY <1>8 DEF more, t

(* The committed transcript has every commit, once, in order. *)
LEMMA CommittedLists ==
  ASSUME NEW log, IsSeq(log)
  PROVE  Lists(Committed(log), Commits(log))
<1> DEFINE C == Commits(log)
           L == Len(log)
<1>1. L \in Nat /\ C \in SUBSET (1 .. L)
  BY Longer DEF Commits
<1> HIDE DEF C, L
<1>2. Listing!Picks(C)
  <2>1. \A s \in SUBSET C : s # {} => Top(s) \in s
    BY <1>1, TopIsIn
  <2>2. IsFiniteSet(C)
    <3>1. IsFiniteSet(1 .. L)
      BY <1>1, FS_Interval
    <3> QED
      BY <1>1, <3>1, FS_Subset
  <2>3. Listing!IsFiniteSet(C)
    BY <2>2 DEF IsFiniteSet, Listing!IsFiniteSet
  <2> QED
    BY <2>1, <2>3 DEF Listing!Picks
<1>3. Listed(log, {}, << >>)
  <2>1. IsSeq(<< >>) /\ DOMAIN << >> = {}
    BY EmptyIsSeq
  <2> QED
    BY <2>1 DEF Listed, Lists
<1>4. ASSUME NEW acc, NEW s \in SUBSET C, s # {}, Listed(log, s \ {Top(s)}, acc)
      PROVE  Listed(log, s, Gather(log, Top(s), acc))
  <2>1. s \in SUBSET (1 .. L)
    BY <1>1
  <2> QED
    BY <1>1, <1>4, <2>1, ListOneMore DEF Listed, Gather
<1>5. Listed(log, C, Listing!Fold(log, << >>, C))
  <2>1. /\ Listing!Picks(C) /\ Listed(log, {}, << >>)
        /\ \A acc : \A s \in SUBSET C :
             s # {} /\ Listed(log, s \ {Top(s)}, acc) => Listed(log, s, Gather(log, Top(s), acc))
    BY <1>2, <1>3, <1>4
  <2> QED
    BY ONLY <2>1, Listing!FoldKeeps
<1> QED
  BY <1>5, CommittedIsAFold DEF Listed, C

(* Two sequences, one after the other. *)
LEMMA Joined ==
  ASSUME NEW s, NEW t, IsSeq(s), IsSeq(t)
  PROVE  /\ IsSeq(s \o t)
         /\ Len(s) \in Nat /\ Len(t) \in Nat /\ Len(s \o t) = Len(s) + Len(t)
         /\ \A k \in 1 .. Len(s) : (s \o t)[k] = s[k]
         /\ \A k \in 1 .. Len(t) : (s \o t)[Len(s) + k] = t[k]
<1>1. PICK T, U : s \in Seq(T) /\ t \in Seq(U)
  BY DEF IsSeq
<1>2. s \in Seq(T \cup U) /\ t \in Seq(T \cup U)
  <2>1. /\ Len(s) \in Nat /\ DOMAIN s = 1 .. Len(s) /\ \A i \in 1 .. Len(s) : s[i] \in T
        /\ Len(t) \in Nat /\ DOMAIN t = 1 .. Len(t) /\ \A i \in 1 .. Len(t) : t[i] \in U
    BY <1>1
  <2> QED
    BY <1>1, <2>1, SeqDef
<1>3. /\ s \o t \in Seq(T \cup U) /\ Len(s \o t) = Len(s) + Len(t)
      /\ Len(s) \in Nat /\ Len(t) \in Nat
  BY <1>2
<1>4. \A k \in 1 .. Len(s) : (s \o t)[k] = s[k]
  BY <1>2
<1>5. \A k \in 1 .. Len(t) : (s \o t)[Len(s) + k] = t[k]
  BY <1>2
<1> QED
  BY <1>3, <1>4, <1>5 DEF IsSeq

(* Commits with none left out, the first of which is the n-th there is,    *)
(* are the n-th and those after it.                                        *)
LEMMA Aligned ==
  ASSUME NEW log, NEW cs, Lists(cs, Commits(log)), IsSeq(log),
         NEW ws, Spells(log, ws), NEW n \in DOMAIN cs, ws[1] = cs[n]
  PROVE  \A k \in 0 .. (Len(ws) - 1) : n + k <= Len(cs) /\ ws[k + 1] = cs[n + k]
<1> DEFINE S == {k \in Nat : n + k <= Len(cs) /\ ws[k + 1] = cs[n + k]}
           L == Len(ws) - 1
<1>1. /\ Len(cs) \in Nat /\ DOMAIN cs = 1 .. Len(cs) /\ n \in Nat /\ n <= Len(cs) /\ 0 < n
      /\ \A k \in 1 .. Len(cs) : cs[k] \in Nat /\ cs[k] \in Commits(log)
      /\ \A k, l \in 1 .. Len(cs) : k < l => cs[k] < cs[l]
      /\ \A i \in Commits(log) : \E k \in 1 .. Len(cs) : cs[k] = i
  <2>1. Len(cs) \in Nat /\ DOMAIN cs = 1 .. Len(cs)
    BY Longer DEF Lists
  <2>2. \A i \in Commits(log) : i \in Nat
    BY Longer DEF Commits
  <2> QED
    BY <2>1, <2>2, SMTT(30) DEF Lists
<1>2. /\ Len(ws) \in Nat /\ DOMAIN ws = 1 .. Len(ws) /\ Len(ws) # 0
      /\ \A k \in 1 .. Len(ws) : ws[k] \in Nat /\ ws[k] \in Commits(log)
      /\ \A k, l \in 1 .. Len(ws) : k < l => ws[k] < ws[l]
      /\ \A i \in Commits(log) : ws[1] <= i /\ i <= ws[Len(ws)]
           => \E k \in 1 .. Len(ws) : ws[k] = i
  <2>1. Len(ws) \in Nat /\ DOMAIN ws = 1 .. Len(ws)
    BY Longer DEF Spells
  <2>2. Len(ws) # 0
    BY DEF Spells, IsSeq
  <2>3. DOMAIN log = 1 .. Len(log)
    BY Longer
  <2>4. \A k \in 1 .. Len(ws) : ws[k] \in Nat /\ ws[k] \in Commits(log)
    BY <2>1, <2>3 DEF Spells, Commits
  <2> QED
    BY <2>1, <2>2, <2>4 DEF Spells, Commits
<1>3. 0 \in S
  <2>1. ws[0 + 1] = cs[n + 0]
    BY <1>1
  <2> QED
    BY <1>1, <2>1
<1>4. ASSUME NEW k \in 0 .. (L - 1), k \in S PROVE k + 1 \in S
  <2>1. /\ k \in Nat /\ k + 1 \in 1 .. Len(ws) /\ k + 2 \in 1 .. Len(ws) /\ k + 1 < k + 2
        /\ k + 2 <= Len(ws) /\ Len(ws) \in Nat
    BY <1>2
  <2>2. n + k \in 1 .. Len(cs) /\ ws[k + 1] = cs[n + k]
    BY <1>1, <1>4
  <2>3. PICK l \in 1 .. Len(cs) : cs[l] = ws[k + 2]
    BY <1>1, <1>2, <2>1
  <2>4. cs[n + k] < cs[l]
    BY <1>2, <2>1, <2>2, <2>3
  <2>5. n + k < l
    <3>1. ~ (l = n + k) /\ ~ (l < n + k)
      BY <1>1, <2>2, <2>3, <2>4, SMTT(30)
    <3>2. l \in Nat /\ n \in Nat /\ k \in Nat
      BY <1>1, <2>1
    <3> QED
      BY ONLY <3>1, <3>2
  <2> DEFINE c == n + k + 1
  <2>6. c \in 1 .. Len(cs) /\ n + k < c /\ c <= l
    <3>1. l \in Nat /\ n \in Nat /\ k \in Nat /\ Len(cs) \in Nat /\ l <= Len(cs)
      BY <1>1, <2>1
    <3> QED
      BY ONLY <2>5, <3>1
  <2>7. /\ cs[c] \in Nat /\ cs[c] \in Commits(log)
        /\ ws[k + 1] < cs[c] /\ cs[c] <= ws[k + 2]
    <3>1. cs[n + k] < cs[c]
      BY <1>1, <2>2, <2>6
    <3>2. cs[c] <= cs[l]
      BY <1>1, <2>3, <2>6, SMTT(30)
    <3> QED
      BY <1>1, <2>2, <2>3, <2>6, <3>1, <3>2
  <2>8. ws[1] <= ws[k + 1] /\ ws[k + 2] <= ws[Len(ws)]
    <3>1. 1 = k + 1 \/ 1 < k + 1
      BY <2>1
    <3>2. k + 2 = Len(ws) \/ k + 2 < Len(ws)
      BY ONLY <2>1
    <3>3. 1 \in 1 .. Len(ws) /\ Len(ws) \in 1 .. Len(ws)
      BY <1>2
    <3>4. ws[1] = ws[k + 1] \/ ws[1] < ws[k + 1]
      BY <1>2, <2>1, <3>1, <3>3, SMT, ZenonT(60)
    <3>5. ws[k + 2] = ws[Len(ws)] \/ ws[k + 2] < ws[Len(ws)]
      BY <1>2, <2>1, <3>2, <3>3, ZenonT(60)
    <3> QED
      BY <1>2, <2>1, <3>3, <3>4, <3>5
  <2> HIDE DEF c
  <2>9. PICK j \in 1 .. Len(ws) : ws[j] = cs[c]
    <3>1. ws[1] <= cs[c] /\ cs[c] <= ws[Len(ws)]
      <4>1. /\ ws[1] \in Nat /\ ws[k + 1] \in Nat /\ ws[k + 2] \in Nat
            /\ ws[Len(ws)] \in Nat /\ cs[c] \in Nat
        BY <1>2, <2>1, <2>7
      <4> QED
        BY <2>7, <2>8, <4>1, SMTT(30)
    <3> QED
      BY <1>2, <2>7, <3>1
  <2>10. j = k + 2
    <3>1. /\ ws[k + 1] < ws[j] /\ ws[j] <= ws[k + 2]
          /\ ws[k + 1] \in Nat /\ ws[j] \in Nat /\ ws[k + 2] \in Nat
      BY <1>2, <2>1, <2>7, <2>9
    <3>2. ~ (j = k + 1) /\ ~ (j < k + 1)
      BY <1>2, <2>1, <2>9, <3>1
    <3>3. ~ (k + 2 < j)
      BY <1>2, <2>1, <2>9, <3>1
    <3>4. j \in Nat
      BY <2>9
    <3> QED
      BY <2>1, <3>2, <3>3, <3>4
  <2>11. (k + 1) + 1 = k + 2 /\ n + (k + 1) = c
    BY <1>1, <2>1 DEF c
  <2> QED
    BY <2>1, <2>6, <2>9, <2>10, <2>11
<1>5. L \in Nat
  BY <1>2
<1>6. \A k \in 0 .. L : k \in S
  <2> HIDE DEF S, L
  <2> QED
    BY <1>3, <1>4, <1>5, Committing!Upto
<1> QED
  BY <1>6

-----------------------------------------------------------------------------
(* display_text, one commit at a time: the commits up to the m-th are      *)
(* shown when it has come to the n-th, and it skips to the m-th when a     *)
(* polish has put it ahead.                                                *)
ShowOne(log, i, d) ==
  LET from == {p \in DOMAIN log : log[p].kind = "polished" /\ log[p].from = i}
  IN  IF i <= d.skip THEN d
      ELSE IF from = {} THEN [skip |-> 0, shown |-> Append(d.shown, i)]
      ELSE LET p == CHOOSE p \in from : \A q \in from : q <= p
           IN  [skip |-> log[p].to, shown |-> d.shown \o log[p].words]

ShownTo(cs, n, m, d) ==
  /\ m \in n .. Len(cs)
  /\ d.skip \in Nat /\ IsSeq(d.shown) /\ Len(d.shown) = m
  /\ \A k \in 1 .. m : d.shown[k] = cs[k]
  /\ m = n => \A k \in (n + 1) .. Len(cs) : d.skip < cs[k]
  /\ m > n => d.skip = cs[m]

Show(log, n, d) == ShowOne(log, Committed(log)[n], d)

Shown(log, s, d) == \A n \in Nat : s = 1 .. n => \E m : ShownTo(Committed(log), n, m, d)

Showing == INSTANCE Folding WITH Op <- Show, Pick <- Top, Keeps <- Shown

LEMMA DisplayedIsAFold ==
  ASSUME NEW log
  PROVE  Displayed(log)
           = Showing!Fold(log, [skip |-> 0, shown |-> << >>], DOMAIN Committed(log)).shown
  BY DEF Displayed, FoldLeft, MapThenFoldSet, Showing!Fold, Showing!Folds, Show, ShowOne, Top

(* Every polish of the log renders commits with none left out. *)
Polishes(log) ==
  \A p \in DOMAIN log : log[p].kind = "polished" =>
    /\ Spells(log, log[p].words)
    /\ log[p].from = log[p].words[1]
    /\ log[p].to = log[p].words[Len(log[p].words)]

LEMMA ShowStep ==
  ASSUME NEW log, IsSeq(log), Polishes(log), NEW cs, Lists(cs, Commits(log)),
         NEW n \in 1 .. Len(cs), NEW m, NEW d, ShownTo(cs, n - 1, m, d),
         NEW e, e = ShowOne(log, cs[n], d)
  PROVE  \E x : ShownTo(cs, n, x, e)
<1> DEFINE i == cs[n]
           from == {p \in DOMAIN log : log[p].kind = "polished" /\ log[p].from = i}
<1>1. /\ Len(cs) \in Nat /\ DOMAIN cs = 1 .. Len(cs) /\ n \in Nat /\ n <= Len(cs) /\ 0 < n
      /\ \A k \in 1 .. Len(cs) : cs[k] \in Nat
      /\ \A k, l \in 1 .. Len(cs) : k < l => cs[k] < cs[l]
  <2>1. Len(cs) \in Nat /\ DOMAIN cs = 1 .. Len(cs)
    BY Longer DEF Lists
  <2>2. \A j \in Commits(log) : j \in Nat
    BY Longer DEF Commits
  <2> QED
    BY <2>1, <2>2 DEF Lists
<1>2. /\ m \in Nat /\ n - 1 <= m /\ m <= Len(cs)
      /\ d.skip \in Nat /\ IsSeq(d.shown) /\ Len(d.shown) = m
      /\ \A k \in 1 .. m : d.shown[k] = cs[k]
      /\ m = n - 1 => d.skip < i
      /\ m > n - 1 => d.skip = cs[m]
  <2>1. m \in (n - 1) .. Len(cs)
    BY DEF ShownTo
  <2>2. m = n - 1 => d.skip < cs[n]
    BY <1>1, SMT, ZenonT(60) DEF ShownTo
  <2> QED
    BY <1>1, <2>1, <2>2 DEF ShownTo
<1>3. i \in Nat
  BY <1>1
<1>4. /\ i <= d.skip => e = d
      /\ ~ (i <= d.skip) /\ from = {} => e = [skip |-> 0, shown |-> Append(d.shown, i)]
      /\ ~ (i <= d.skip) /\ from # {} =>
           \E p \in from : e = [skip |-> log[p].to, shown |-> d.shown \o log[p].words]
  <2>1. ASSUME from # {}
        PROVE  (CHOOSE p \in from : \A q \in from : q <= p) \in from
    <3>1. Len(log) \in Nat /\ from \in SUBSET (1 .. Len(log))
      BY Longer
    <3> HIDE DEF from
    <3>2. Top(from) \in from /\ \A q \in from \ {Top(from)} : q < Top(from)
      BY <2>1, <3>1, TopIsIn, TopIsLast
    <3>3. \A q \in from : q <= Top(from)
      <4> SUFFICES ASSUME NEW q \in from PROVE q <= Top(from)
        OBVIOUS
      <4>1. q \in Nat /\ Top(from) \in Nat
        <5>1. q \in 1 .. Len(log) /\ Top(from) \in 1 .. Len(log)
          BY <3>1, <3>2
        <5> QED
          BY <5>1
      <4>2. q = Top(from) \/ q < Top(from)
        BY <3>2
      <4> QED
        BY ONLY <4>1, <4>2
    <3> QED
      BY <3>2, <3>3
  <2> QED
    BY <2>1, ZenonT(60) DEF ShowOne
<1> HIDE DEF from
<1>5. CASE m > n - 1
  <2>1. i <= d.skip
    <3>1. n = m \/ n < m
      BY <1>1, <1>2, <1>5
    <3>2. m \in 1 .. Len(cs) /\ n \in 1 .. Len(cs)
      BY <1>1, <1>2, <1>5
    <3>3. cs[n] = cs[m] \/ cs[n] < cs[m]
      BY <1>1, <3>1, <3>2
    <3>4. cs[n] \in Nat /\ cs[m] \in Nat /\ d.skip = cs[m]
      BY <1>1, <1>2, <1>5, <3>2
    <3> QED
      BY ONLY <3>3, <3>4
  <2>2. e = d
    BY <1>4, <2>1
  <2>3. m \in n .. Len(cs)
    BY <1>1, <1>2, <1>5
  <2>4. m = n => \A k \in (n + 1) .. Len(cs) : d.skip < cs[k]
    BY <1>1, <1>2, <1>5
  <2>5. ShownTo(cs, n, m, e)
    BY <1>2, <1>5, <2>2, <2>3, <2>4 DEF ShownTo
  <2> QED
    BY <2>5
<1>6. CASE m = n - 1
  <2>1. ~ (i <= d.skip)
    BY <1>2, <1>3, <1>6
  <2>2. CASE from = {}
    <3>1. e.skip = 0 /\ e.shown = Append(d.shown, i)
      BY <1>4, <2>1, <2>2
    <3>2. /\ IsSeq(e.shown) /\ Len(e.shown) = n
          /\ \A k \in 1 .. m : e.shown[k] = cs[k]
          /\ e.shown[n] = cs[n]
      BY <1>1, <1>2, <1>6, <3>1, Longer
    <3>3. \A k \in 1 .. n : e.shown[k] = cs[k]
      <4>1. \A k \in 1 .. n : k \in 1 .. m \/ k = n
        BY <1>1, <1>6
      <4> QED
        BY <3>2, <4>1
    <3>4. \A k \in (n + 1) .. Len(cs) : e.skip < cs[k]
      <4> SUFFICES ASSUME NEW k \in (n + 1) .. Len(cs) PROVE 0 < cs[k]
        BY <3>1
      <4>1. k \in 1 .. Len(cs) /\ n \in 1 .. Len(cs) /\ n < k
        BY <1>1
      <4>2. cs[n] < cs[k] /\ cs[n] \in Nat /\ cs[k] \in Nat
        BY <1>1, <4>1
      <4> QED
        BY ONLY <4>2
    <3>5. n \in n .. Len(cs) /\ ~ (n > n)
      BY <1>1
    <3>6. ShownTo(cs, n, n, e)
      BY <3>1, <3>2, <3>3, <3>4, <3>5 DEF ShownTo
    <3> QED
      BY <3>6
  <2>3. CASE from # {}
    <3>1. PICK p \in from : e = [skip |-> log[p].to, shown |-> d.shown \o log[p].words]
      BY <1>4, <2>1, <2>3
    <3> DEFINE ws == log[p].words
               L == Len(ws)
               x == n - 1 + L
    <3>2. Spells(log, ws) /\ ws[1] = cs[n] /\ log[p].to = ws[L]
      BY <3>1 DEF Polishes, from
    <3>3. e.skip = ws[L] /\ e.shown = d.shown \o ws
      <4>1. PICK shown : shown = d.shown \o ws
        OBVIOUS
      <4>2. e = [skip |-> log[p].to, shown |-> shown]
        BY <3>1, <4>1
      <4>3. e.skip = log[p].to /\ e.shown = shown
        BY ONLY <4>2
      <4> QED
        BY <3>2, <4>1, <4>3
    <3> HIDE DEF ws
    <3>4. IsSeq(ws) /\ L \in Nat /\ L > 0
      <4>1. IsSeq(ws) /\ ws # << >>
        BY <3>2 DEF Spells
      <4>2. L \in Nat /\ L # 0
        BY <4>1 DEF IsSeq
      <4> QED
        BY <4>1, <4>2
    <3>5. \A k \in 0 .. (L - 1) : n + k <= Len(cs) /\ ws[k + 1] = cs[n + k]
      <4>1. n \in DOMAIN cs /\ ws[1] = cs[n] /\ Spells(log, ws)
        BY <1>1, <3>2
      <4> QED
        BY <4>1, Aligned
    <3>6. /\ IsSeq(e.shown) /\ Len(e.shown) = m + L
          /\ \A k \in 1 .. m : e.shown[k] = d.shown[k]
          /\ \A k \in 1 .. L : e.shown[m + k] = ws[k]
      <4>1. PICK shown : shown = d.shown \o ws
        OBVIOUS
      <4>2. IsSeq(d.shown) /\ IsSeq(ws)
        BY <1>2, <3>4
      <4>3. /\ IsSeq(shown) /\ Len(shown) = Len(d.shown) + Len(ws)
            /\ \A k \in 1 .. Len(d.shown) : shown[k] = d.shown[k]
            /\ \A k \in 1 .. Len(ws) : shown[Len(d.shown) + k] = ws[k]
        BY ONLY <4>1, <4>2, Joined, SMTT(30)
      <4>4. e.shown = shown /\ Len(d.shown) = m
        BY <1>2, <3>3, <4>1
      <4> QED
        BY <4>3, <4>4
    <3> HIDE DEF L
    <3>7. L - 1 \in 0 .. (L - 1) /\ (L - 1) + 1 = L /\ n + (L - 1) = x
      BY <1>1, <3>4
    <3>8. x <= Len(cs) /\ ws[L] = cs[x]
      BY <3>5, <3>7
    <3>9. x \in n .. Len(cs) /\ Len(e.shown) = x
      BY <1>1, <1>6, <3>4, <3>6, <3>8
    <3>10. ASSUME NEW k \in 1 .. x PROVE e.shown[k] = cs[k]
      <4>1. CASE k <= m
        <5>1. k \in 1 .. m
          BY <1>2, <4>1
        <5> QED
          BY <1>2, <3>6, <5>1
      <4>2. CASE ~ (k <= m)
        <5> DEFINE j == k - m
        <5>1. /\ j \in 1 .. L /\ j - 1 \in 0 .. (L - 1)
              /\ m + j = k /\ (j - 1) + 1 = j /\ n + (j - 1) = k
          BY <1>1, <1>2, <1>6, <3>4, <4>2
        <5> HIDE DEF j
        <5>2. e.shown[m + j] = ws[j] /\ ws[(j - 1) + 1] = cs[n + (j - 1)]
          BY <3>5, <3>6, <5>1
        <5> QED
          BY <5>1, <5>2
      <4> QED
        BY <4>1, <4>2
    <3> HIDE DEF x
    <3>11. ASSUME x = n, NEW k \in (n + 1) .. Len(cs) PROVE e.skip < cs[k]
      <4>1. k \in 1 .. Len(cs) /\ n \in 1 .. Len(cs) /\ n < k
        BY <1>1, <3>11
      <4> QED
        BY <1>1, <3>3, <3>8, <3>11, <4>1
    <3>12. e.skip = cs[x] /\ cs[x] \in Nat
      <4>1. x \in 1 .. Len(cs)
        BY <1>1, <3>9
      <4> QED
        BY <1>1, <3>3, <3>8, <4>1
    <3>13. ShownTo(cs, n, x, e)
      BY <3>6, <3>9, <3>10, <3>11, <3>12 DEF ShownTo
    <3> QED
      BY <3>13
  <2> QED
    BY <2>2, <2>3
<1> QED
  BY <1>1, <1>2, <1>5, <1>6

(* Both readings of a log whose polishes render commits are the same. *)
LEMMA DisplayedIsCommitted ==
  ASSUME NEW log, IsSeq(log), Polishes(log)
  PROVE  Displayed(log) = Committed(log)
<1> DEFINE cs == Committed(log)
           base == [skip |-> 0, shown |-> << >>]
           L == Len(cs)
           d == Showing!Fold(log, base, DOMAIN cs)
<1>1. Lists(cs, Commits(log))
  BY CommittedLists
<1>2. L \in Nat /\ DOMAIN cs = 1 .. L /\ IsSeq(cs)
  <2>1. IsSeq(cs)
    BY <1>1 DEF Lists
  <2> HIDE DEF cs
  <2> QED
    BY <2>1, Longer
<1>3. Displayed(log) = d.shown
  BY DisplayedIsAFold
<1>4. Shown(log, {}, base)
  <2>1. \A n \in Nat : {} = 1 .. n => n = 0
    OBVIOUS
  <2>2. base.skip = 0 /\ base.shown = << >> /\ IsSeq(base.shown) /\ Len(base.shown) = 0
    BY EmptyIsSeq
  <2>3. \A k \in 1 .. L : 0 < cs[k]
    <3> SUFFICES ASSUME NEW k \in 1 .. L PROVE 0 < cs[k]
      OBVIOUS
    <3>1. cs[k] \in DOMAIN log
      BY <1>1, <1>2 DEF Lists, Commits
    <3>2. cs[k] \in 1 .. Len(log)
      BY <3>1, Longer
    <3> HIDE DEF cs
    <3> QED
      BY <3>2
  <2> HIDE DEF base
  <2>4. ShownTo(cs, 0, 0, base)
    BY <1>2, <2>2, <2>3 DEF ShownTo
  <2> QED
    BY <2>1, <2>4 DEF Shown
<1> HIDE DEF base
<1>5. ASSUME NEW acc, NEW s \in SUBSET (1 .. L), s # {}, Shown(log, s \ {Top(s)}, acc)
      PROVE  Shown(log, s, Show(log, Top(s), acc))
  <2> SUFFICES ASSUME NEW n \in Nat, s = 1 .. n
               PROVE  \E m : ShownTo(cs, n, m, Show(log, Top(s), acc))
    BY DEF Shown
  <2>1. n \in 1 .. n /\ n - 1 \in Nat /\ Top(s) = n /\ s \ {Top(s)} = 1 .. (n - 1)
    BY <1>5, TopOfMany
  <2>2. PICK m : ShownTo(cs, n - 1, m, acc)
    BY <1>5, <2>1 DEF Shown
  <2>3. n \in 1 .. L
    BY <1>5, <2>1
  <2>4. Show(log, Top(s), acc) = ShowOne(log, cs[n], acc)
    BY <2>1 DEF Show
  <2> HIDE DEF cs
  <2>5. PICK e : e = ShowOne(log, cs[n], acc)
    OBVIOUS
  <2>6. \E x : ShownTo(cs, n, x, e)
    BY <1>1, <2>2, <2>3, <2>5, ShowStep
  <2> QED
    BY <2>4, <2>5, <2>6
<1>6. Showing!Picks(1 .. L)
  <2> HIDE DEF L
  <2>1. \A s \in SUBSET (1 .. L) : s # {} => Top(s) \in s
    BY <1>2, TopIsIn
  <2>2. IsFiniteSet(1 .. L)
    BY <1>2, FS_Interval
  <2>3. Showing!IsFiniteSet(1 .. L)
    BY <2>2 DEF IsFiniteSet, Showing!IsFiniteSet
  <2> QED
    BY <2>1, <2>3 DEF Showing!Picks
<1>7. Shown(log, 1 .. L, d)
  <2>1. /\ Showing!Picks(1 .. L) /\ Shown(log, {}, base)
        /\ \A acc : \A s \in SUBSET (1 .. L) :
             s # {} /\ Shown(log, s \ {Top(s)}, acc) => Shown(log, s, Show(log, Top(s), acc))
    BY <1>4, <1>5, <1>6
  <2>2. d = Showing!Fold(log, base, 1 .. L)
    BY ONLY <1>2, SMT, ZenonT(60)
  <2> HIDE DEF L, d
  <2> QED
    BY ONLY <2>1, <2>2, Showing!FoldKeeps
<1> HIDE DEF d
<1>8. PICK m : ShownTo(cs, L, m, d)
  BY <1>2, <1>7 DEF Shown
<1> HIDE DEF cs
<1>9. /\ IsSeq(d.shown) /\ Len(d.shown) = Len(cs)
      /\ \A k \in 1 .. Len(cs) : d.shown[k] = cs[k]
  <2>1. m \in L .. L
    BY <1>8 DEF ShownTo
  <2>2. m = L
    <3>1. L \in Nat
      BY <1>2
    <3> HIDE DEF L
    <3> QED
      BY ONLY <2>1, <3>1
  <2>3. ShownTo(cs, L, L, d)
    BY <1>8, <2>2
  <2> QED
    BY <2>3 DEF ShownTo
<1>10. d.shown = cs
  <2>1. PICK T, U : d.shown \in Seq(T) /\ cs \in Seq(U)
    BY <1>2, <1>9 DEF IsSeq
  <2>2. /\ DOMAIN d.shown = 1 .. Len(cs) /\ d.shown = [k \in DOMAIN d.shown |-> d.shown[k]]
        /\ DOMAIN cs = 1 .. Len(cs) /\ cs = [k \in DOMAIN cs |-> cs[k]]
    BY <1>9, <2>1
  <2> QED
    BY <1>9, <2>2
<1> QED
  BY <1>3, <1>10 DEF cs

(* The display transcript has the content of the committed one: whatever   *)
(* was polished, each commit is shown once and in order (display_text).    *)
THEOREM PolishKeepsTheContent == Spec => []SameContent
<1>1. IInv => SameContent
  <2> SUFFICES ASSUME IInv PROVE SameContent
    OBVIOUS
  <2>1. IsSeq(doc.log) /\ Polishes(doc.log)
    BY DEF IInv, Sound, Shape, Renders, Polishes
  <2> QED
    BY <2>1, DisplayedIsCommitted DEF SameContent
<1> QED
  BY <1>1, AlwaysHolds, PTL

-----------------------------------------------------------------------------
(***************************************************************************)
(* Lag changes nothing, for every set of renderings, policy, stream of     *)
(* segments and answer of the models, however often a session falls        *)
(* behind.                                                                 *)
(*                                                                         *)
(* Two documents are Alike when a reader of what lasts cannot tell them    *)
(* apart: equal but for the places of their events.  Each thing the code   *)
(* writes keeps two documents alike when it is written to both, and a      *)
(* partial or a notice of lag does when it is written to one; loops are    *)
(* folds of such steps in parallel (Folding).  What else the actions       *)
(* change does not depend on the documents at all.                         *)
(***************************************************************************)

(* The prompt session runs the same code: what it does with a document, a  *)
(* tracker, a policy or a gate is what Coordinator does with them.         *)
LEMMA SameEmit == \A d, event : Prompt!Emit(d, event) = Emit(d, event)
  BY DEF Emit, Prompt!Emit, Raise, Prompt!Raise, Last, Prompt!Last

LEMMA SameOpen ==
  \A d, s, now, start : Prompt!OpenTurn(d, s, now, start) = OpenTurn(d, s, now, start)
  BY SameEmit DEF OpenTurn, Prompt!OpenTurn

LEMMA SameLabel ==
  ASSUME NEW tr, NEW start, NEW end
  PROVE  Prompt!LabelFor(tr, start, end) = LabelFor(tr, start, end)
  BY ZenonT(60)
     DEF LabelFor, Prompt!LabelFor, Resolve, Prompt!Resolve, Follow, Prompt!Follow,
         Absorbed, Prompt!Absorbed, Overlap, Prompt!Overlap, Overlapping,
         Prompt!Overlapping, MostOverlapping, Prompt!MostOverlapping, Neighbours,
         Prompt!Neighbours, FoldSet, Prompt!FoldSet, MapThenFoldSet,
         Prompt!MapThenFoldSet, Cardinality, Prompt!Cardinality,
         IsFiniteSet, Prompt!IsFiniteSet

LEMMA SameCommit ==
  ASSUME NEW d, NEW tr, NEW w, NEW now
  PROVE  Prompt!CommitWord(d, tr, w, now) = CommitWord(d, tr, w, now)
<1>1. Prompt!SpeakerFor(tr, w) = SpeakerFor(tr, w)
  BY SameLabel DEF SpeakerFor, Prompt!SpeakerFor, SoloLabel, Prompt!SoloLabel
<1>2. \A f : Prompt!Raise(f) = Raise(f)
  BY DEF Raise, Prompt!Raise
<1> QED
  BY <1>1, <1>2, SameEmit, SameOpen DEF CommitWord, Prompt!CommitWord

LEMMA SameWords ==
  ASSUME NEW d, NEW tr, NEW now, NEW ws, Tiling(ws, now)
  PROVE  Prompt!EmitWords(d, tr, ws, now) = EmitWords(d, tr, ws, now)
<1> DEFINE p == [tr |-> tr, now |-> now]
           Folds(f) ==
             f = [s \in SUBSET ws |->
                    IF s = {} THEN d
                    ELSE Prompt!CommitWord(f[s \ {Prompt!LastOf(s)}], tr,
                                           Prompt!LastOf(s), now)]
           g == CHOOSE f : Folds(f)
<1>1. Prompt!EmitWords(d, tr, ws, now) = g[ws]
  BY DEF Prompt!EmitWords, Prompt!MapThenFoldSet
<1>2. p.tr = tr /\ p.now = now
  OBVIOUS
<1>3. \A s : Prompt!LastOf(s) = LastOf(s)
  BY DEF LastOf, Prompt!LastOf, Sooner, Prompt!Sooner
<1> HIDE DEF p
<1>4. \A f : Folds(f) <=> Committing!Folds(p, d, ws, f)
  BY <1>2, <1>3, SameCommit DEF Committing!Folds, Say
<1>5. Committing!Picks(ws)
  BY WordsPick
<1>6. \E f : Committing!Folds(p, d, ws, f)
  BY <1>5, Committing!FoldExists
<1>7. Committing!Folds(p, d, ws, g)
  <2>1. \E f : Folds(f)
    BY <1>4, <1>6
  <2> HIDE DEF Folds
  <2>2. Folds(g)
    BY <2>1
  <2> QED
    BY <1>4, <2>2
<1> HIDE DEF g
<1>8. g[ws] = Committing!Fold(p, d, ws)
  BY <1>5, <1>7, Committing!FoldIs
<1>9. EmitWords(d, tr, ws, now) = Committing!Fold(p, d, ws)
  BY <1>2 DEF EmitWords, MapThenFoldSet, Committing!Fold, Committing!Folds, Say
<1> QED
  BY <1>1, <1>8, <1>9

LEMMA SameFill ==
  ASSUME NEW d, NEW tr, NEW final, NEW now
  PROVE  Prompt!FillUnlabeled(d, tr, final, now) = FillUnlabeled(d, tr, final, now)
  BY ZenonT(60)
     DEF FillUnlabeled, Prompt!FillUnlabeled, FoldLeft, Prompt!FoldLeft, Max,
         Prompt!Max, Emit, Prompt!Emit, Raise, Prompt!Raise, Last, Prompt!Last,
         LabelFor, Prompt!LabelFor, Resolve, Prompt!Resolve, Follow, Prompt!Follow,
         Absorbed, Prompt!Absorbed, Overlap, Prompt!Overlap, Overlapping,
         Prompt!Overlapping, MostOverlapping, Prompt!MostOverlapping, Neighbours,
         Prompt!Neighbours, FoldSet, Prompt!FoldSet, MapThenFoldSet,
         Prompt!MapThenFoldSet, Cardinality, Prompt!Cardinality,
         IsFiniteSet, Prompt!IsFiniteSet

LEMMA SamePolish ==
  \A d, rewrites, now : Prompt!Polish(d, rewrites, now) = Polish(d, rewrites, now)
  BY SameEmit DEF Polish, Prompt!Polish, Last, Prompt!Last

LEMMA SameEndpoint ==
  ASSUME NEW d, NEW tr, NEW reason, NEW rewrites, NEW now
  PROVE  Prompt!EmitEndpoint(d, tr, reason, rewrites, now)
           = EmitEndpoint(d, tr, reason, rewrites, now)
  BY SameEmit, SameFill, SamePolish DEF EmitEndpoint, Prompt!EmitEndpoint

LEMMA SameTaught ==
  ASSUME NEW tr, NEW span, NEW voice, NEW pairs
  PROVE  Prompt!Taught(tr, span, voice, pairs) = Taught(tr, span, voice, pairs)
<1>1. \A t, s, a : Prompt!Merged(t, s, a) = Merged(t, s, a)
  BY DEF Merged, Prompt!Merged, Live, Prompt!Live, Absorbed, Prompt!Absorbed
<1>2. \A t, u, l : Prompt!Remembered(t, u, l) = Remembered(t, u, l)
  BY DEF Remembered, Prompt!Remembered
<1>3. \A t, u : Prompt!WithNewCluster(t, u) = WithNewCluster(t, u)
  BY Zenon
     DEF WithNewCluster, Prompt!WithNewCluster, StayingLive, Prompt!StayingLive,
         LeastRecent, Prompt!LeastRecent, Live, Prompt!Live, Remembered,
         Prompt!Remembered, Cardinality, Prompt!Cardinality, IsFiniteSet, Prompt!IsFiniteSet
<1>4. Prompt!Assigned(tr, span, voice) = Assigned(tr, span, voice)
  BY <1>2, <1>3 DEF Assigned, Prompt!Assigned
<1>5. \A s : Prompt!LastPair(s) = LastPair(s)
  BY DEF LastPair, Prompt!LastPair, PairOrder, Prompt!PairOrder,
         SortsBefore, Prompt!SortsBefore, Spelling, Prompt!Spelling
<1> QED
  BY <1>1, <1>4, <1>5 DEF Taught, Prompt!Taught, MapThenFoldSet, Prompt!MapThenFoldSet

LEMMA SamePolicy ==
  ASSUME NEW h, NEW c, NEW now
  PROVE  /\ Prompt!Words!Taken(h, c, now) = Words!Taken(h, c, now)
         /\ Prompt!Words!HeldAfter(h, c, now) = Words!HeldAfter(h, c, now)
         /\ Prompt!Words!Settled(h, c) = Words!Settled(h, c)
         /\ Prompt!Words!Flushed(h, c) = Words!Flushed(h, c)
<1>1. \A S, f : Prompt!Words!Pending(S, f) = Words!Pending(S, f)
  BY DEF Words!Pending, Prompt!Words!Pending
<1>2. \A w, S : Prompt!Words!UpTo(w, S) = Words!UpTo(w, S)
  BY DEF Words!UpTo, Prompt!Words!UpTo, Words!Before, Prompt!Words!Before
<1>3. Prompt!Words!EarlyWords(h) = Words!EarlyWords(h)
  BY <1>2 DEF Words!EarlyWords, Prompt!Words!EarlyWords
<1>4. \A w, held : /\ Prompt!Words!IsHeld(w, held) = Words!IsHeld(w, held)
                   /\ Prompt!Words!Ripe(w, held, now) = Words!Ripe(w, held, now)
                   /\ Prompt!Words!Key(w) = Words!Key(w)
  BY DEF Words!Ripe, Prompt!Words!Ripe, Words!IsHeld, Prompt!Words!IsHeld,
         Words!Key, Prompt!Words!Key
<1>5. Prompt!Words!Taken(h, c, now) = Words!Taken(h, c, now)
  BY <1>1, <1>2, <1>3, <1>4 DEF Words!Taken, Prompt!Words!Taken
<1>6. Prompt!Words!HeldAfter(h, c, now) = Words!HeldAfter(h, c, now)
  BY <1>1, <1>2, <1>3, <1>4, <1>5 DEF Words!HeldAfter, Prompt!Words!HeldAfter
<1>7. /\ Prompt!Words!Settled(h, c) = Words!Settled(h, c)
      /\ Prompt!Words!Flushed(h, c) = Words!Flushed(h, c)
  BY <1>1 DEF Words!Settled, Prompt!Words!Settled, Words!Flushed, Prompt!Words!Flushed
<1> QED
  BY <1>5, <1>6, <1>7

LEMMA SameAdvanced == \A c, ws, held : Prompt!Advanced(c, ws, held) = Advanced(c, ws, held)
  BY DEF Advanced, Prompt!Advanced, Words!FrontierAfter, Prompt!Words!FrontierAfter

LEMMA SameGate ==
  ASSUME NEW g, NEW s, NEW now, NEW measured, NEW score, NEW reading
  PROVE  /\ Prompt!Gate!SilenceHeld(g, now) = Gate!SilenceHeld(g, now)
         /\ Prompt!Gate!MaybeScore(g, s, now, measured) = Gate!MaybeScore(g, s, now, measured)
         /\ Prompt!Gate!Scored(g, s, now, measured) = Gate!Scored(g, s, now, measured)
         /\ Prompt!Gate!Verdict(g, now, score) = Gate!Verdict(g, now, score)
         /\ Prompt!Gate!Observed(g, reading, now, score) = Gate!Observed(g, reading, now, score)
         /\ Prompt!Gate!Fired(g) = Gate!Fired(g)
         /\ Prompt!Gate!FlushVerdict(g) = Gate!FlushVerdict(g)
         /\ Prompt!Gate!FinallyScored(s, measured) = Gate!FinallyScored(s, measured)
  BY DEF Gate!SilenceHeld, Prompt!Gate!SilenceHeld, Gate!MaybeScore, Prompt!Gate!MaybeScore,
         Gate!Scored, Prompt!Gate!Scored, Gate!Due, Prompt!Gate!Due,
         Gate!Verdict, Prompt!Gate!Verdict, Gate!OpenPause, Prompt!Gate!OpenPause,
         Gate!Observed, Prompt!Gate!Observed, Gate!Fired, Prompt!Gate!Fired,
         Gate!FlushVerdict, Prompt!Gate!FlushVerdict,
         Gate!FinallyScored, Prompt!Gate!FinallyScored

-----------------------------------------------------------------------------
(* The seqs s of the log l stand for those of t in k.                      *)
AlikeRefs(l, s, k, t) ==
  /\ DOMAIN s = DOMAIN t
  /\ \A n \in DOMAIN s : Renumbered(l, s[n]) = Renumbered(k, t[n])

AlikeQueues(l, s, k, t) ==
  /\ DOMAIN s = DOMAIN t
  /\ \A n \in DOMAIN s : /\ Renumbered(l, s[n].seq) = Renumbered(k, t[n].seq)
                         /\ s[n].start = t[n].start /\ s[n].end = t[n].end

AlikeLogs(l, k) ==
  /\ Lasting(l) = Lasting(k)
  /\ Renumbered(l, Len(l)) = Renumbered(k, Len(k))

Alike(d, e) ==
  /\ AlikeLogs(d.log, e.log)
  /\ d.turn = e.turn /\ d.speaker = e.speaker
  /\ d.lastEnd = e.lastEnd /\ d.error = e.error
  /\ AlikeQueues(d.log, d.unlabeled, e.log, e.unlabeled)
  /\ AlikeRefs(d.log, d.utterance, e.log, e.utterance)

(* A document whose references are to its log, as those of a sound one are. *)
Refers(log) ==
  \A i \in DOMAIN log :
    /\ log[i].kind = "speaker" => log[i].seq \in DOMAIN log
    /\ log[i].kind = "polished" =>
         /\ log[i].from \in DOMAIN log /\ log[i].to \in DOMAIN log
         /\ \A n \in DOMAIN log[i].words : log[i].words[n] \in DOMAIN log

Fit(d, now) ==
  /\ Shape(d, now)
  /\ Refers(d.log)
  /\ \A n \in DOMAIN d.unlabeled : d.unlabeled[n].seq \in DOMAIN d.log
  /\ \A n \in DOMAIN d.utterance : d.utterance[n] \in DOMAIN d.log

Twin(d, e, now) == Fit(d, now) /\ Fit(e, now) /\ Alike(d, e)

Both(d, e, now) == Sound(d, now) /\ Sound(e, now) /\ Alike(d, e)

-----------------------------------------------------------------------------
(* A log that is one event longer.                                         *)
LEMMA CountsOn ==
  ASSUME NEW l, IsSeq(l), NEW event, NEW m, m = Append(l, event)
  PROVE  /\ \A i \in 0 .. Len(l) : Renumbered(m, i) = Renumbered(l, i)
         /\ Renumbered(l, Len(l)) \in Nat
         /\ Lasts(event) => Renumbered(m, Len(l) + 1) = Renumbered(l, Len(l)) + 1
         /\ ~ Lasts(event) => Renumbered(m, Len(l) + 1) = Renumbered(l, Len(l))
<1> DEFINE n == Len(l)
           In(k, i) == {j \in 1 .. i : Lasts(k[j])}
<1>1. /\ n \in Nat /\ DOMAIN l = 1 .. n /\ DOMAIN m = 1 .. (n + 1)
      /\ \A i \in 1 .. n : m[i] = l[i]
      /\ m[n + 1] = event
  BY Longer
<1> HIDE DEF n
<1>2. \A i \in 0 .. n : In(m, i) = In(l, i)
  BY <1>1
<1>3. IsFiniteSet(In(l, n)) /\ n + 1 \notin In(l, n)
  <2>1. IsFiniteSet(1 .. n)
    BY <1>1, FS_Interval
  <2>2. In(l, n) \in SUBSET (1 .. n)
    OBVIOUS
  <2>3. IsFiniteSet(In(l, n))
    BY <2>1, <2>2, FS_Subset
  <2> QED
    BY ONLY <1>1, <2>3
<1>4. Lasts(event) => In(m, n + 1) = In(l, n) \cup {n + 1}
  BY <1>1
<1>5. ~ Lasts(event) => In(m, n + 1) = In(l, n)
  BY <1>1
<1>6. \A k, i : Renumbered(k, i) = Cardinality(In(k, i))
  BY DEF Renumbered
<1> HIDE DEF In
<1>7. Cardinality(In(l, n) \cup {n + 1}) = Cardinality(In(l, n)) + 1
      /\ Cardinality(In(l, n)) \in Nat
  BY <1>3, FS_AddElement, FS_CardinalityType
<1> QED
  BY <1>2, <1>4, <1>5, <1>6, <1>7 DEF n

(* References stand for what they stood for. *)
LEMMA RefsOn ==
  ASSUME NEW l, IsSeq(l), NEW event, NEW m, m = Append(l, event)
  PROVE  \A i \in DOMAIN l : Renumbered(m, i) = Renumbered(l, i)
<1>1. Len(l) \in Nat /\ DOMAIN l = 1 .. Len(l)
  BY Longer
<1>2. \A i \in 0 .. Len(l) : Renumbered(m, i) = Renumbered(l, i)
  BY CountsOn
<1> QED
  BY <1>1, <1>2

LEMMA SoundIsFit ==
  ASSUME NEW d, NEW now, Sound(d, now)
  PROVE  Fit(d, now)
<1>1. /\ Fills(d) /\ Renders(d) /\ Shape(d, now) /\ IsDoc(d) /\ d.error = FALSE
      /\ IsSeq(d.log) /\ IsSeq(d.unlabeled) /\ IsSeq(d.utterance)
  BY DEF Sound, Shape
<1>2. \A ws : Spells(d.log, ws) =>
        /\ \A n \in DOMAIN ws : ws[n] \in DOMAIN d.log
        /\ ws[1] \in DOMAIN d.log /\ ws[Len(ws)] \in DOMAIN d.log
  <2> SUFFICES ASSUME NEW ws, Spells(d.log, ws)
               PROVE  /\ \A n \in DOMAIN ws : ws[n] \in DOMAIN d.log
                      /\ ws[1] \in DOMAIN d.log /\ ws[Len(ws)] \in DOMAIN d.log
    OBVIOUS
  <2>1. /\ IsSeq(ws) /\ ws # << >>
        /\ \A n \in DOMAIN ws : ws[n] \in DOMAIN d.log
    BY DEF Spells
  <2>2. 1 \in DOMAIN ws /\ Len(ws) \in DOMAIN ws
    <3>1. PICK T : ws \in Seq(T)
      BY <2>1 DEF IsSeq
    <3>2. Len(ws) \in Nat /\ DOMAIN ws = 1 .. Len(ws) /\ Len(ws) # 0
      BY <2>1, <3>1, EmptySeq, LenProperties
    <3> QED
      BY <3>2
  <2> QED
    BY <2>1, <2>2
<1>3. Refers(d.log)
  <2> SUFFICES ASSUME NEW i \in DOMAIN d.log
               PROVE  /\ d.log[i].kind = "speaker" => d.log[i].seq \in DOMAIN d.log
                      /\ d.log[i].kind = "polished" =>
                           /\ d.log[i].from \in DOMAIN d.log /\ d.log[i].to \in DOMAIN d.log
                           /\ \A n \in DOMAIN d.log[i].words : d.log[i].words[n] \in DOMAIN d.log
    BY DEF Refers
  <2>1. d.log[i].kind = "speaker" => d.log[i].seq \in DOMAIN d.log
    BY <1>1 DEF Fills, Null
  <2>2. ASSUME d.log[i].kind = "polished"
        PROVE  /\ d.log[i].from \in DOMAIN d.log /\ d.log[i].to \in DOMAIN d.log
               /\ \A n \in DOMAIN d.log[i].words : d.log[i].words[n] \in DOMAIN d.log
    <3>1. /\ Spells(d.log, d.log[i].words)
          /\ d.log[i].from = d.log[i].words[1]
          /\ d.log[i].to = d.log[i].words[Len(d.log[i].words)]
      BY <1>1, <2>2 DEF Renders
    <3> QED
      BY <1>2, <3>1
  <2> QED
    BY <2>1, <2>2
<1>4. \A n \in DOMAIN d.unlabeled : d.unlabeled[n].seq \in DOMAIN d.log
  BY <1>1 DEF Fills, Null
<1>5. \A n \in DOMAIN d.utterance : d.utterance[n] \in DOMAIN d.log
  <2>1. CASE d.utterance = << >>
    BY <2>1, EmptyIsSeq
  <2>2. CASE d.utterance # << >>
    BY <1>1, <1>2, <2>2 DEF Renders
  <2> QED
    BY <2>1, <2>2
<1> QED
  BY <1>1, <1>3, <1>4, <1>5 DEF Fit

LEMMA ReadsOn ==
  ASSUME NEW l, IsSeq(l), NEW event, NEW m, m = Append(l, event), Refers(l),
         NEW i \in DOMAIN l
  PROVE  Reads(m, l[i]) = Reads(l, l[i])
<1>2. \A j \in DOMAIN l : Renumbered(m, j) = Renumbered(l, j)
  BY RefsOn
<1>3. CASE l[i].kind = "speaker"
  <2>1. l[i].seq \in DOMAIN l
    BY <1>3 DEF Refers
  <2> QED
    BY <1>2, <1>3, <2>1 DEF Reads
<1>4. CASE l[i].kind = "polished"
  <2>1. /\ l[i].from \in DOMAIN l /\ l[i].to \in DOMAIN l
        /\ \A n \in DOMAIN l[i].words : l[i].words[n] \in DOMAIN l
    BY <1>4 DEF Refers
  <2>2. Numbers(m, l[i].words) = Numbers(l, l[i].words)
    BY <1>2, <2>1 DEF Numbers
  <2> QED
    BY <1>2, <1>4, <2>1, <2>2 DEF Reads
<1>5. CASE l[i].kind \notin {"speaker", "polished"}
  BY <1>5 DEF Reads
<1> QED
  BY <1>3, <1>4, <1>5

LEMMA LastingGrows ==
  ASSUME NEW l, IsSeq(l), NEW event, NEW m, m = Append(l, event), Refers(l)
  PROVE  /\ Lasts(event) =>
              Lasting(m) = Lasting(l) \cup {<<Renumbered(l, Len(l)) + 1, Reads(m, event)>>}
         /\ ~ Lasts(event) => Lasting(m) = Lasting(l)
<1> DEFINE n == Len(l)
           Item(k, i) == <<Renumbered(k, i), Reads(k, k[i])>>
<1>1. /\ n \in Nat /\ DOMAIN l = 1 .. n /\ DOMAIN m = 1 .. (n + 1)
      /\ \A i \in 1 .. n : m[i] = l[i]
      /\ m[n + 1] = event
  BY Longer
<1>2. \A i \in 1 .. n : Item(m, i) = Item(l, i)
  <2> SUFFICES ASSUME NEW i \in 1 .. n PROVE Item(m, i) = Item(l, i)
    OBVIOUS
  <2>1. Renumbered(m, i) = Renumbered(l, i)
    BY <1>1, RefsOn, ZenonT(60)
  <2>2. Reads(m, l[i]) = Reads(l, l[i])
    BY <1>1, ReadsOn
  <2> QED
    BY <1>1, <2>1, <2>2
<1>3. Lasts(event) => Item(m, n + 1) = <<Renumbered(l, n) + 1, Reads(m, event)>>
  <2>1. Lasts(event) => Renumbered(m, n + 1) = Renumbered(l, n) + 1
    BY CountsOn
  <2> QED
    BY <1>1, <2>1
<1>4. /\ Lasting(m) = {Item(m, i) : i \in {i \in DOMAIN m : Lasts(m[i])}}
      /\ Lasting(l) = {Item(l, i) : i \in {i \in DOMAIN l : Lasts(l[i])}}
  BY DEF Lasting
<1> HIDE DEF Item, n
<1>5. ASSUME Lasts(event)
      PROVE  Lasting(m) = Lasting(l) \cup {Item(m, n + 1)}
  <2>1. {i \in DOMAIN m : Lasts(m[i])} = {i \in DOMAIN l : Lasts(l[i])} \cup {n + 1}
    BY <1>1, <1>5
  <2>2. \A i \in {i \in DOMAIN l : Lasts(l[i])} : Item(m, i) = Item(l, i)
    BY <1>1, <1>2
  <2> QED
    BY <1>4, <2>1, <2>2
<1>6. ASSUME ~ Lasts(event)
      PROVE  Lasting(m) = Lasting(l)
  <2>1. {i \in DOMAIN m : Lasts(m[i])} = {i \in DOMAIN l : Lasts(l[i])}
    BY <1>1, <1>6
  <2>2. \A i \in {i \in DOMAIN l : Lasts(l[i])} : Item(m, i) = Item(l, i)
    BY <1>1, <1>2
  <2> QED
    BY <1>4, <2>1, <2>2
<1> QED
  BY <1>3, <1>5, <1>6 DEF n

(* What lasts is written to both logs. *)
LEMMA AlikeOn ==
  ASSUME NEW l, NEW k, IsSeq(l), IsSeq(k), Refers(l), Refers(k), AlikeLogs(l, k),
         NEW one, NEW two, Lasts(one), Lasts(two),
         Reads(Append(l, one), one) = Reads(Append(k, two), two)
  PROVE  /\ AlikeLogs(Append(l, one), Append(k, two))
         /\ Renumbered(Append(l, one), Len(l) + 1) = Renumbered(Append(k, two), Len(k) + 1)
<1>1. /\ Lasting(Append(l, one))
           = Lasting(l) \cup {<<Renumbered(l, Len(l)) + 1, Reads(Append(l, one), one)>>}
      /\ Lasting(Append(k, two))
           = Lasting(k) \cup {<<Renumbered(k, Len(k)) + 1, Reads(Append(k, two), two)>>}
  <2>1. PICK m, x : m = Append(l, one) /\ x = Append(k, two)
    OBVIOUS
  <2>2. Lasting(m) = Lasting(l) \cup {<<Renumbered(l, Len(l)) + 1, Reads(m, one)>>}
    BY ONLY IsSeq(l), Refers(l), Lasts(one), <2>1, LastingGrows, ZenonT(60)
  <2>3. Lasting(x) = Lasting(k) \cup {<<Renumbered(k, Len(k)) + 1, Reads(x, two)>>}
    BY ONLY IsSeq(k), Refers(k), Lasts(two), <2>1, LastingGrows, ZenonT(60)
  <2> QED
    BY <2>1, <2>2, <2>3
<1>2. /\ Renumbered(Append(l, one), Len(l) + 1) = Renumbered(l, Len(l)) + 1
      /\ Renumbered(Append(k, two), Len(k) + 1) = Renumbered(k, Len(k)) + 1
  <2>1. PICK m, x : m = Append(l, one) /\ x = Append(k, two)
    OBVIOUS
  <2>2. Renumbered(m, Len(l) + 1) = Renumbered(l, Len(l)) + 1
    BY <2>1, CountsOn
  <2>3. Renumbered(x, Len(k) + 1) = Renumbered(k, Len(k)) + 1
    BY <2>1, CountsOn
  <2> QED
    BY <2>1, <2>2, <2>3
<1>3. Len(Append(l, one)) = Len(l) + 1 /\ Len(Append(k, two)) = Len(k) + 1
  BY Longer
<1> QED
  BY <1>1, <1>2, <1>3 DEF AlikeLogs

(* What does not is written to one. *)
LEMMA AlikeStill ==
  ASSUME NEW l, NEW k, IsSeq(l), Refers(l), AlikeLogs(l, k), NEW one, ~ Lasts(one)
  PROVE  AlikeLogs(Append(l, one), k)
<1>1. Lasting(Append(l, one)) = Lasting(l)
  BY LastingGrows
<1>2. Renumbered(Append(l, one), Len(l) + 1) = Renumbered(l, Len(l))
  BY CountsOn
<1>3. Len(Append(l, one)) = Len(l) + 1
  BY Longer
<1> QED
  BY <1>1, <1>2, <1>3 DEF AlikeLogs
-----------------------------------------------------------------------------
(* An event written to documents that are alike.                           *)
LEMMA AlikeFlips == ASSUME NEW d, NEW e, Alike(d, e) PROVE Alike(e, d)
<1>1. AlikeLogs(e.log, d.log)
  BY DEF Alike, AlikeLogs
<1>2. AlikeQueues(e.log, e.unlabeled, d.log, d.unlabeled)
  BY DEF Alike, AlikeQueues
<1>3. AlikeRefs(e.log, e.utterance, d.log, d.utterance)
  BY DEF Alike, AlikeRefs
<1> QED
  BY <1>1, <1>2, <1>3 DEF Alike

(* What refers to a log means the same in one that goes on.                *)
LEMMA RefersOn ==
  ASSUME NEW d, NEW now, Fit(d, now), NEW event, NEW l, l = Append(d.log, event)
  PROVE  /\ \A n \in DOMAIN d.unlabeled :
              Renumbered(l, d.unlabeled[n].seq) = Renumbered(d.log, d.unlabeled[n].seq)
         /\ \A n \in DOMAIN d.utterance :
              Renumbered(l, d.utterance[n]) = Renumbered(d.log, d.utterance[n])
<1>1. IsSeq(d.log)
  BY DEF Fit, Shape
<1>2. \A i \in DOMAIN d.log : Renumbered(l, i) = Renumbered(d.log, i)
  BY <1>1, RefsOn
<1> QED
  BY <1>2 DEF Fit

LEMMA PlusBoth ==
  ASSUME NEW d, NEW e, NEW now, Twin(d, e, now),
         NEW one, NEW two, Lasts(one), Lasts(two),
         Reads(Append(d.log, one), one) = Reads(Append(e.log, two), two)
  PROVE  /\ Alike(Plus(d, one), Plus(e, two))
         /\ Renumbered(Append(d.log, one), Len(d.log) + 1)
              = Renumbered(Append(e.log, two), Len(e.log) + 1)
<1> DEFINE f == Plus(d, one)
           g == Plus(e, two)
           l == Append(d.log, one)
           k == Append(e.log, two)
<1>1. /\ Fit(d, now) /\ Fit(e, now) /\ Alike(d, e)
      /\ IsDoc(d) /\ IsDoc(e) /\ IsSeq(d.log) /\ IsSeq(e.log)
      /\ Refers(d.log) /\ Refers(e.log) /\ AlikeLogs(d.log, e.log)
  BY DEF Twin, Fit, Shape, Alike
<1>2. /\ f.log = l /\ f.turn = d.turn /\ f.speaker = d.speaker
      /\ f.unlabeled = d.unlabeled /\ f.utterance = d.utterance
      /\ f.lastEnd = d.lastEnd /\ f.error = d.error
  BY <1>1, PlusFields
<1>3. /\ g.log = k /\ g.turn = e.turn /\ g.speaker = e.speaker
      /\ g.unlabeled = e.unlabeled /\ g.utterance = e.utterance
      /\ g.lastEnd = e.lastEnd /\ g.error = e.error
  BY <1>1, PlusFields
<1>4. AlikeLogs(l, k) /\ Renumbered(l, Len(d.log) + 1) = Renumbered(k, Len(e.log) + 1)
  BY <1>1, AlikeOn
<1> HIDE DEF f, g
<1>5. PICK x, y : x = l /\ y = k
  OBVIOUS
<1>6. /\ \A n \in DOMAIN d.unlabeled :
           Renumbered(x, d.unlabeled[n].seq) = Renumbered(d.log, d.unlabeled[n].seq)
      /\ \A n \in DOMAIN d.utterance :
           Renumbered(x, d.utterance[n]) = Renumbered(d.log, d.utterance[n])
  BY <1>1, <1>5, RefersOn
<1>7. /\ \A n \in DOMAIN e.unlabeled :
           Renumbered(y, e.unlabeled[n].seq) = Renumbered(e.log, e.unlabeled[n].seq)
      /\ \A n \in DOMAIN e.utterance :
           Renumbered(y, e.utterance[n]) = Renumbered(e.log, e.utterance[n])
  BY <1>1, <1>5, RefersOn
<1>8. AlikeQueues(x, d.unlabeled, y, e.unlabeled)
  BY <1>1, <1>6, <1>7 DEF Alike, AlikeQueues
<1>9. AlikeRefs(x, d.utterance, y, e.utterance)
  BY <1>1, <1>6, <1>7 DEF Alike, AlikeRefs
<1>10. Alike(f, g)
  BY <1>1, <1>2, <1>3, <1>4, <1>5, <1>8, <1>9 DEF Alike
<1> QED
  BY <1>4, <1>10 DEF f, g

(* A partial or a notice of lag, written to one. *)
LEMMA PlusOne ==
  ASSUME NEW d, NEW e, NEW now, Twin(d, e, now), NEW event, ~ Lasts(event)
  PROVE  Alike(Plus(d, event), e)
<1> DEFINE f == Plus(d, event)
           l == Append(d.log, event)
<1>1. /\ Fit(d, now) /\ Alike(d, e) /\ IsDoc(d) /\ IsSeq(d.log)
      /\ Refers(d.log) /\ AlikeLogs(d.log, e.log)
  BY DEF Twin, Fit, Shape, Alike
<1>2. /\ f.log = l /\ f.turn = d.turn /\ f.speaker = d.speaker
      /\ f.unlabeled = d.unlabeled /\ f.utterance = d.utterance
      /\ f.lastEnd = d.lastEnd /\ f.error = d.error
  BY <1>1, PlusFields
<1>4. AlikeLogs(l, e.log)
  BY <1>1, AlikeStill
<1> HIDE DEF f
<1>5. PICK x : x = l
  OBVIOUS
<1>6. /\ \A n \in DOMAIN d.unlabeled :
           Renumbered(x, d.unlabeled[n].seq) = Renumbered(d.log, d.unlabeled[n].seq)
      /\ \A n \in DOMAIN d.utterance :
           Renumbered(x, d.utterance[n]) = Renumbered(d.log, d.utterance[n])
  BY <1>1, <1>5, RefersOn
<1>8. AlikeQueues(x, d.unlabeled, e.log, e.unlabeled)
  BY <1>1, <1>6 DEF Alike, AlikeQueues
<1>9. AlikeRefs(x, d.utterance, e.log, e.utterance)
  BY <1>1, <1>6 DEF Alike, AlikeRefs
<1>10. Alike(f, e)
  BY <1>1, <1>2, <1>4, <1>5, <1>8, <1>9 DEF Alike
<1> QED
  BY <1>10 DEF f

(* The same event, one that refers to no other, emitted to both.           *)
SaysItself(event) == event.kind \notin {"partial", "degraded", "speaker", "polished"}

LEMMA EmitBoth ==
  ASSUME NEW d, NEW e, NEW now \in Nat, Twin(d, e, now),
         NEW event, event.at = now, SaysItself(event)
  PROVE  /\ Alike(Emit(d, event), Emit(e, event))
         /\ Emit(d, event) = Plus(d, event) /\ Emit(e, event) = Plus(e, event)
         /\ Renumbered(Append(d.log, event), Len(d.log) + 1)
              = Renumbered(Append(e.log, event), Len(e.log) + 1)
<1>1. Shape(d, now) /\ Shape(e, now)
  BY DEF Twin, Fit
<1>2. Emit(d, event) = Plus(d, event) /\ Emit(e, event) = Plus(e, event)
  BY <1>1, EmitIsPlus
<1>3. Lasts(event)
  BY DEF Lasts, SaysItself
<1>4. \A l : Reads(l, event) = event
  BY DEF Reads, SaysItself
<1>5. Reads(Append(d.log, event), event) = Reads(Append(e.log, event), event)
  BY <1>4
<1> QED
  BY <1>2, <1>3, <1>5, PlusBoth

LEMMA EmitOne ==
  ASSUME NEW d, NEW e, NEW now \in Nat, Twin(d, e, now), NEW event, event.at = now,
         ~ Lasts(event)
  PROVE  Alike(Emit(d, event), e)
<1>1. Emit(d, event) = Plus(d, event)
  BY EmitIsPlus DEF Twin, Fit
<1> QED
  BY <1>1, PlusOne

LEMMA BothAreTwins ==
  ASSUME NEW d, NEW e, NEW now, Both(d, e, now)
  PROVE  Twin(d, e, now)
  BY SoundIsFit DEF Both, Twin
-----------------------------------------------------------------------------
(* The same word said to both.                                             *)
LEMMA OpenedBoth ==
  ASSUME NEW d, NEW e, NEW now, Twin(d, e, now), NEW t, NEW s
  PROVE  Twin(Opened(d, t, s), Opened(e, t, s), now)
<1> DEFINE f == Opened(d, t, s)
           g == Opened(e, t, s)
<1>1. Fit(d, now) /\ Fit(e, now) /\ Alike(d, e) /\ Shape(d, now) /\ Shape(e, now)
  BY DEF Twin, Fit
<1>2. /\ Shape(f, now)
      /\ f.log = d.log /\ f.unlabeled = d.unlabeled /\ f.turn = t /\ f.speaker = s
      /\ f.lastEnd = d.lastEnd /\ f.utterance = d.utterance
  BY <1>1, OpenedShape
<1>3. /\ Shape(g, now)
      /\ g.log = e.log /\ g.unlabeled = e.unlabeled /\ g.turn = t /\ g.speaker = s
      /\ g.lastEnd = e.lastEnd /\ g.utterance = e.utterance
  BY <1>1, OpenedShape
<1> HIDE DEF f, g
<1>4. f.error = FALSE /\ g.error = FALSE
  BY <1>2, <1>3 DEF Shape
<1>5. Fit(f, now) /\ Fit(g, now)
  BY <1>1, <1>2, <1>3 DEF Fit
<1>6. Alike(f, g)
  BY <1>1, <1>2, <1>3, <1>4 DEF Alike
<1> QED
  BY <1>5, <1>6 DEF Twin, f, g

LEMMA OpenBoth ==
  ASSUME NEW d, NEW e, NEW now \in Nat, Both(d, e, now), NEW speaker, NEW start
  PROVE  Both(OpenTurn(d, speaker, now, start), OpenTurn(e, speaker, now, start), now)
<1> DEFINE f == OpenTurn(d, speaker, now, start)
           g == OpenTurn(e, speaker, now, start)
<1>1. /\ Sound(d, now) /\ Sound(e, now) /\ Alike(d, e) /\ Twin(d, e, now)
      /\ d.turn = e.turn /\ d.speaker = e.speaker /\ IsDoc(d) /\ IsDoc(e)
  BY BothAreTwins DEF Both, Alike, Sound, Shape
<1>2. Sound(f, now) /\ Sound(g, now)
  BY <1>1, OpenTurnKeeps
<1>3. Alike(f, g)
  <2>1. CASE d.turn > 0 /\ speaker \in {None, d.speaker}
    <3>1. f = d /\ g = e
      BY <1>1, <2>1 DEF OpenTurn
    <3> QED
      BY <1>1, <3>1
  <2>2. CASE ~ (d.turn > 0 /\ speaker \in {None, d.speaker}) /\ d.turn > 0 /\ d.speaker = None
    <3> DEFINE event == [kind |-> "turn_speaker", at |-> now, turn |-> d.turn,
                         speaker |-> speaker]
    <3>1. /\ [d EXCEPT !.speaker = speaker] = Opened(d, d.turn, speaker)
          /\ [e EXCEPT !.speaker = speaker] = Opened(e, d.turn, speaker)
      BY <1>1 DEF Opened, IsDoc
    <3>2. /\ f = Emit(Opened(d, d.turn, speaker), event)
          /\ g = Emit(Opened(e, d.turn, speaker), event)
      BY <1>1, <2>2, <3>1 DEF OpenTurn
    <3>3. event.at = now /\ SaysItself(event)
      BY DEF SaysItself
    <3> HIDE DEF event, f, g
    <3>4. Twin(Opened(d, d.turn, speaker), Opened(e, d.turn, speaker), now)
      BY <1>1, OpenedBoth
    <3> QED
      BY <3>2, <3>3, <3>4, EmitBoth
  <2>3. CASE /\ ~ (d.turn > 0 /\ speaker \in {None, d.speaker})
             /\ ~ (d.turn > 0 /\ d.speaker = None)
    <3> DEFINE event == [kind |-> "turn_start", at |-> now, turn |-> d.turn + 1,
                         speaker |-> speaker, start |-> start]
    <3>2. /\ f = Emit(Opened(d, d.turn + 1, speaker), event)
          /\ g = Emit(Opened(e, d.turn + 1, speaker), event)
      BY <1>1, <2>3 DEF OpenTurn, Opened
    <3>3. event.at = now /\ SaysItself(event)
      BY DEF SaysItself
    <3> HIDE DEF event, f, g
    <3>4. Twin(Opened(d, d.turn + 1, speaker), Opened(e, d.turn + 1, speaker), now)
      BY <1>1, OpenedBoth
    <3> QED
      BY <3>2, <3>3, <3>4, EmitBoth
  <2> QED
    BY <2>1, <2>2, <2>3
<1> QED
  BY <1>2, <1>3 DEF Both

LEMMA SameLength ==
  ASSUME NEW a \in Nat, NEW b \in Nat, 1 .. a = 1 .. b
  PROVE  a = b
<1>1. ~ (a < b)
  <2> SUFFICES ASSUME a < b PROVE FALSE
    OBVIOUS
  <2>1. b \in 1 .. b
    OBVIOUS
  <2> QED
    BY <2>1
<1>2. ~ (b < a)
  <2> SUFFICES ASSUME b < a PROVE FALSE
    OBVIOUS
  <2>1. a \in 1 .. a
    OBVIOUS
  <2> QED
    BY <2>1
<1> QED
  BY <1>1, <1>2

(* One more reference on each side, to events that stand for each other.   *)
LEMMA OneMoreRef ==
  ASSUME NEW l, NEW k, NEW s, NEW t, IsSeq(s), IsSeq(t), AlikeRefs(l, s, k, t),
         NEW i, NEW j, Renumbered(l, i) = Renumbered(k, j)
  PROVE  AlikeRefs(l, Append(s, i), k, Append(t, j))
<1>1. /\ Len(s) \in Nat /\ DOMAIN s = 1 .. Len(s)
      /\ DOMAIN Append(s, i) = 1 .. (Len(s) + 1)
      /\ \A n \in 1 .. Len(s) : Append(s, i)[n] = s[n]
      /\ Append(s, i)[Len(s) + 1] = i
  BY Longer
<1>2. /\ Len(t) \in Nat /\ DOMAIN t = 1 .. Len(t)
      /\ DOMAIN Append(t, j) = 1 .. (Len(t) + 1)
      /\ \A n \in 1 .. Len(t) : Append(t, j)[n] = t[n]
      /\ Append(t, j)[Len(t) + 1] = j
  BY ONLY IsSeq(t), Longer, SMTT(30), ZenonT(60)
<1>3. Len(s) = Len(t)
  BY <1>1, <1>2, SameLength DEF AlikeRefs
<1>4. PICK x, y : x = Append(s, i) /\ y = Append(t, j)
  OBVIOUS
<1>5. \A n \in DOMAIN x : Renumbered(l, x[n]) = Renumbered(k, y[n])
  BY <1>1, <1>2, <1>3, <1>4 DEF AlikeRefs
<1> QED
  BY <1>1, <1>2, <1>3, <1>4, <1>5 DEF AlikeRefs

LEMMA OneMoreWaits ==
  ASSUME NEW l, NEW k, NEW s, NEW t, IsSeq(s), IsSeq(t), AlikeQueues(l, s, k, t),
         NEW u, NEW v, Renumbered(l, u.seq) = Renumbered(k, v.seq),
         u.start = v.start, u.end = v.end
  PROVE  AlikeQueues(l, Append(s, u), k, Append(t, v))
<1>1. /\ Len(s) \in Nat /\ DOMAIN s = 1 .. Len(s)
      /\ DOMAIN Append(s, u) = 1 .. (Len(s) + 1)
      /\ \A n \in 1 .. Len(s) : Append(s, u)[n] = s[n]
      /\ Append(s, u)[Len(s) + 1] = u
  BY Longer, SMTT(30)
<1>2. /\ Len(t) \in Nat /\ DOMAIN t = 1 .. Len(t)
      /\ DOMAIN Append(t, v) = 1 .. (Len(t) + 1)
      /\ \A n \in 1 .. Len(t) : Append(t, v)[n] = t[n]
      /\ Append(t, v)[Len(t) + 1] = v
  BY ONLY IsSeq(t), Longer, SMTT(30), ZenonT(60)
<1>3. Len(s) = Len(t)
  BY <1>1, <1>2, SameLength DEF AlikeQueues
<1>4. PICK x, y : x = Append(s, u) /\ y = Append(t, v)
  OBVIOUS
<1>5. \A n \in DOMAIN x : /\ Renumbered(l, x[n].seq) = Renumbered(k, y[n].seq)
                          /\ x[n].start = y[n].start /\ x[n].end = y[n].end
  BY <1>1, <1>2, <1>3, <1>4 DEF AlikeQueues
<1> QED
  BY <1>1, <1>2, <1>3, <1>4, <1>5 DEF AlikeQueues

(* What committing a word makes of the document it has opened a turn in.   *)
Commit(o, word, speaker, now) ==
  [kind |-> "commit", at |-> now, text |-> word.text, whole |-> word.whole,
   start |-> word.start, end |-> word.end, speaker |-> speaker, turn |-> o.turn]

Place(o, word) == [seq |-> Len(o.log) + 1, start |-> word.start, end |-> word.end]

Wrote(o, word, speaker, now, e) ==
  /\ e.log = Append(o.log, Commit(o, word, speaker, now))
  /\ e.turn = o.turn /\ e.speaker = o.speaker
  /\ e.lastEnd = word.end /\ e.error = FALSE
  /\ e.utterance = Append(o.utterance, Len(o.log) + 1)
  /\ speaker = None => e.unlabeled = Append(o.unlabeled, Place(o, word))
  /\ speaker # None => e.unlabeled = o.unlabeled

LEMMA CommitWordWrites ==
  ASSUME NEW d, NEW now \in Nat, Sound(d, now), NEW tr, NEW word,
         word.end \in Nat, word.end <= now, word.start \in Nat, d.lastEnd <= word.start
  PROVE  Wrote(OpenTurn(d, SpeakerFor(tr, word), now, word.start), word,
               SpeakerFor(tr, word), now, CommitWord(d, tr, word, now))
<1>0. PICK speaker, o, e : /\ speaker = SpeakerFor(tr, word)
                           /\ o = OpenTurn(d, speaker, now, word.start)
                           /\ e = CommitWord(d, tr, word, now)
  OBVIOUS
<1>13. PICK event : event = Commit(o, word, speaker, now)
  OBVIOUS
<1> DEFINE u == Place(o, word)
           said == Append(d.utterance, Len(o.log) + 1)
           waiting == IF speaker = None THEN Append(d.unlabeled, u) ELSE d.unlabeled
           f == Plus(o, event)
<1>1. /\ Sound(o, now)
      /\ o.lastEnd = d.lastEnd /\ o.unlabeled = d.unlabeled /\ o.utterance = d.utterance
  BY <1>0, OpenTurnKeeps
<1>2. Shape(d, now) /\ Shape(o, now)
  BY <1>1 DEF Sound
<1>3. /\ IsDoc(o) /\ IsSeq(d.unlabeled) /\ IsSeq(d.utterance)
      /\ o.error = FALSE /\ d.error = FALSE /\ d.lastEnd \in Nat
  BY <1>2 DEF Shape
<1>4. e = Counted(Emit(o, event), word.end, said, waiting)
  <2>1. ~ (word.end > now) /\ ~ (o.error \/ word.start < o.lastEnd)
    BY <1>1, <1>3
  <2> QED
    BY <1>0, <1>3, <1>13, <2>1 DEF CommitWord, Counted, Commit, Place
<1>5. event.at = now
  BY <1>13 DEF Commit
<1>7. Emit(o, event) = f /\ Shape(f, now)
  BY <1>2, <1>5, EmitIsPlus
<1>8. f.log = Append(o.log, event) /\ f.turn = o.turn /\ f.speaker = o.speaker
  BY <1>3, PlusFields
<1>9. IsSeq(said) /\ IsSeq(waiting)
  <2> HIDE DEF u
  <2> QED
    BY <1>3, Longer
<1> HIDE DEF f, u
<1>10. e = Counted(f, word.end, said, waiting)
  BY <1>4, <1>7
<1>11. /\ Shape(e, now)
       /\ e.log = f.log /\ e.turn = f.turn /\ e.speaker = f.speaker
       /\ e.lastEnd = word.end /\ e.unlabeled = waiting /\ e.utterance = said
  <2> HIDE DEF waiting, said
  <2> QED
    BY <1>7, <1>9, <1>10, CountedShape
<1>12. e.error = FALSE
  BY <1>11 DEF Shape
<1> QED
  BY <1>0, <1>1, <1>8, <1>11, <1>12, <1>13 DEF u, Wrote

LEMMA CommitBoth ==
  ASSUME NEW d, NEW e, NEW now \in Nat, Both(d, e, now), NEW tr, NEW word,
         word.end \in Nat, word.end <= now, word.start \in Nat, d.lastEnd <= word.start
  PROVE  Alike(CommitWord(d, tr, word, now), CommitWord(e, tr, word, now))
<1>1. PICK speaker : speaker = SpeakerFor(tr, word)
  OBVIOUS
<1>2. PICK o, q : /\ o = OpenTurn(d, speaker, now, word.start)
                  /\ q = OpenTurn(e, speaker, now, word.start)
  OBVIOUS
<1>3. PICK f, g : f = CommitWord(d, tr, word, now) /\ g = CommitWord(e, tr, word, now)
  OBVIOUS
<1>4. Both(o, q, now)
  BY <1>2, OpenBoth
<1>5. PICK event : event = Commit(o, word, speaker, now)
  OBVIOUS
<1>6. event = Commit(q, word, speaker, now)
  BY <1>4, <1>5 DEF Both, Alike, Commit
<1>7. /\ Sound(d, now) /\ Sound(e, now)
      /\ d.lastEnd <= word.start /\ e.lastEnd <= word.start
      /\ now \in Nat /\ word.end \in Nat /\ word.end <= now /\ word.start \in Nat
  BY DEF Both, Alike
<1>8. /\ f.log = Append(o.log, event) /\ f.turn = o.turn /\ f.speaker = o.speaker
      /\ f.lastEnd = word.end /\ f.error = FALSE
      /\ f.utterance = Append(o.utterance, Len(o.log) + 1)
      /\ speaker = None => f.unlabeled = Append(o.unlabeled, Place(o, word))
      /\ speaker # None => f.unlabeled = o.unlabeled
  <2>1. Wrote(o, word, speaker, now, f)
    BY <1>1, <1>2, <1>3, <1>7, CommitWordWrites
  <2> QED
    BY <1>5, <2>1 DEF Wrote
<1>9. /\ g.log = Append(q.log, event) /\ g.turn = q.turn /\ g.speaker = q.speaker
      /\ g.lastEnd = word.end /\ g.error = FALSE
      /\ g.utterance = Append(q.utterance, Len(q.log) + 1)
      /\ speaker = None => g.unlabeled = Append(q.unlabeled, Place(q, word))
      /\ speaker # None => g.unlabeled = q.unlabeled
  <2>1. Wrote(q, word, speaker, now, g)
    BY <1>1, <1>2, <1>3, <1>7, CommitWordWrites
  <2> QED
    BY <1>6, <2>1 DEF Wrote
<1>10. event.at = now /\ SaysItself(event)
  BY <1>5 DEF Commit, SaysItself
<1>11. /\ Twin(o, q, now) /\ IsDoc(o) /\ IsDoc(q) /\ Alike(o, q)
       /\ IsSeq(o.utterance) /\ IsSeq(o.unlabeled)
       /\ IsSeq(q.utterance) /\ IsSeq(q.unlabeled)
  BY <1>4, BothAreTwins DEF Both, Sound, Shape
<1>12. /\ Alike(Plus(o, event), Plus(q, event))
       /\ Renumbered(f.log, Len(o.log) + 1) = Renumbered(g.log, Len(q.log) + 1)
  BY <1>8, <1>9, <1>10, <1>11, EmitBoth
<1>13. PICK x, y : x = Plus(o, event) /\ y = Plus(q, event)
  OBVIOUS
<1>14. /\ x.log = f.log /\ x.unlabeled = o.unlabeled /\ x.utterance = o.utterance
       /\ y.log = g.log /\ y.unlabeled = q.unlabeled /\ y.utterance = q.utterance
  <2>1. x.log = Append(o.log, event) /\ x.unlabeled = o.unlabeled /\ x.utterance = o.utterance
    BY ONLY <1>11, <1>13, PlusFields
  <2>2. y.log = Append(q.log, event) /\ y.unlabeled = q.unlabeled /\ y.utterance = q.utterance
    BY ONLY <1>11, <1>13, PlusFields
  <2> QED
    BY ONLY <1>8, <1>9, <2>1, <2>2
<1>15. /\ AlikeLogs(f.log, g.log)
       /\ AlikeQueues(f.log, o.unlabeled, g.log, q.unlabeled)
       /\ AlikeRefs(f.log, o.utterance, g.log, q.utterance)
  BY <1>12, <1>13, <1>14 DEF Alike
<1>16. AlikeRefs(f.log, f.utterance, g.log, g.utterance)
  BY <1>8, <1>9, <1>11, <1>12, <1>15, OneMoreRef
<1>17. AlikeQueues(f.log, f.unlabeled, g.log, g.unlabeled)
  <2>1. CASE speaker # None
    BY <1>8, <1>9, <1>15, <2>1
  <2>2. CASE speaker = None
    <3>1. PICK u, v : u = Place(o, word) /\ v = Place(q, word)
      OBVIOUS
    <3>2. /\ Renumbered(f.log, u.seq) = Renumbered(g.log, v.seq)
          /\ u.start = v.start /\ u.end = v.end
      BY <1>12, <3>1 DEF Place
    <3>3. f.unlabeled = Append(o.unlabeled, u) /\ g.unlabeled = Append(q.unlabeled, v)
      BY <1>8, <1>9, <2>2, <3>1
    <3>4. AlikeQueues(f.log, Append(o.unlabeled, u), g.log, Append(q.unlabeled, v))
      BY ONLY <1>11, <1>15, <3>2, OneMoreWaits
    <3> QED
      BY <3>3, <3>4
  <2> QED
    BY <2>1, <2>2
<1>18. Alike(f, g)
  BY <1>8, <1>9, <1>11, <1>15, <1>16, <1>17 DEF Alike
<1> QED
  BY <1>3, <1>18

(* A set of words, said to both: the two loops, word by word.              *)
BothSaid(p, s, docs) ==
  Said(p[1], s, docs[1]) /\ Said(p[2], s, docs[2]) /\ Alike(docs[1], docs[2])

Saying == INSTANCE Folding WITH Op <- Say, Pick <- LastOf, Keeps <- BothSaid

LEMMA SayBoth ==
  ASSUME NEW p, NEW q, NEW ws, Follows(p, ws), Follows(q, ws), p.tr = q.tr, p.now = q.now,
         NEW s \in SUBSET ws, s # {}, NEW d, NEW e,
         BothSaid(<<p, q>>, s \ {LastOf(s)}, <<d, e>>)
  PROVE  BothSaid(<<p, q>>, s, <<Say(p, LastOf(s), d), Say(q, LastOf(s), e)>>)
<1>1. PICK w, r : w = LastOf(s) /\ r = s \ {LastOf(s)}
  OBVIOUS
<1>2. Said(p, r, d) /\ Said(q, r, e) /\ Alike(d, e)
  BY <1>1 DEF BothSaid
<1>3. Said(p, s, Say(p, w, d)) /\ Said(q, s, Say(q, w, e))
  BY <1>1, <1>2, SayStep
<1>4. /\ w.start \in Nat /\ w.end \in Nat /\ w.end <= p.now /\ d.lastEnd <= w.start
  BY <1>1, <1>2, NextWord
<1>5. p.now \in Nat /\ Both(d, e, p.now)
  BY <1>2 DEF Said, Both, Follows
<1>6. Alike(CommitWord(d, p.tr, w, p.now), CommitWord(e, p.tr, w, p.now))
  BY ONLY <1>4, <1>5, CommitBoth
<1>7. Alike(Say(p, w, d), Say(q, w, e))
  BY <1>6 DEF Say
<1> QED
  BY <1>1, <1>3, <1>7 DEF BothSaid

LEMMA WordsBoth ==
  ASSUME NEW d, NEW e, NEW now \in Nat, Both(d, e, now), NEW tr,
         NEW ws, Tiling(ws, now), \A w \in ws : d.lastEnd <= w.start
  PROVE  Both(EmitWords(d, tr, ws, now), EmitWords(e, tr, ws, now), now)
<1> DEFINE p == [tr |-> tr, now |-> now, doc |-> d]
           q == [tr |-> tr, now |-> now, doc |-> e]
<1>0. /\ p.tr = tr /\ p.now = now /\ p.doc = d
      /\ q.tr = tr /\ q.now = now /\ q.doc = e
  OBVIOUS
<1> HIDE DEF p, q
<1>1. /\ Sound(d, now) /\ Sound(e, now) /\ Alike(d, e)
      /\ d.lastEnd \in Nat /\ e.lastEnd = d.lastEnd
  BY DEF Both, Sound, Shape, Alike
<1>2. Follows(p, ws) /\ Follows(q, ws)
  BY <1>0, <1>1 DEF Follows
<1>3. BothSaid(<<p, q>>, {}, <<d, e>>)
  <2>1. Said(p, {}, d)
    BY <1>0, <1>1, SameIsLater DEF Said
  <2>2. Said(q, {}, e)
    BY <1>0, <1>1, SameIsLater DEF Said
  <2> QED
    BY <1>1, <2>1, <2>2 DEF BothSaid
<1>4. \A acc, bcc : \A s \in SUBSET ws :
        s # {} /\ BothSaid(<<p, q>>, s \ {LastOf(s)}, <<acc, bcc>>)
          => BothSaid(<<p, q>>, s, <<Say(p, LastOf(s), acc), Say(q, LastOf(s), bcc)>>)
  BY <1>0, <1>2, SayBoth
<1>5. Saying!Picks(ws)
  <2>1. Committing!Picks(ws)
    BY WordsPick
  <2> QED
    BY <2>1 DEF Committing!Picks, Committing!IsFiniteSet, Saying!Picks, Saying!IsFiniteSet
<1>6. BothSaid(<<p, q>>, ws, <<Saying!Fold(p, d, ws), Saying!Fold(q, e, ws)>>)
  BY ONLY <1>3, <1>4, <1>5, Saying!FoldsAgree
<1>7. /\ EmitWords(d, tr, ws, now) = Saying!Fold(p, d, ws)
      /\ EmitWords(e, tr, ws, now) = Saying!Fold(q, e, ws)
  BY <1>0 DEF EmitWords, MapThenFoldSet, Saying!Fold, Saying!Folds, Say
<1> QED
  BY <1>0, <1>6, <1>7 DEF BothSaid, Said, Both
-----------------------------------------------------------------------------
(* The words that wait, looked up in both.                                 *)
LEMMA SameNumber ==
  ASSUME NEW d, NEW e, GoesOn(d, e), IsSeq(d.log), IsSeq(e.log), NEW i \in DOMAIN d.log
  PROVE  Renumbered(e.log, i) = Renumbered(d.log, i)
<1>1. /\ Len(d.log) \in Nat /\ DOMAIN d.log = 1 .. Len(d.log)
      /\ \A j \in DOMAIN d.log : e.log[j] = d.log[j]
  BY Longer DEF GoesOn
<1>2. i \in Nat /\ \A j \in 1 .. i : j \in DOMAIN d.log
  BY <1>1
<1>3. {j \in 1 .. i : Lasts(e.log[j])} = {j \in 1 .. i : Lasts(d.log[j])}
  BY <1>1, <1>2
<1> QED
  BY <1>3 DEF Renumbered

(* One word of the queue: what waits in p.doc and q.doc is alike, and so   *)
(* is what has become of them.                                             *)
Alongside(p, q) ==
  /\ p.tr = q.tr /\ p.now = q.now /\ p.final = q.final
  /\ p.now \in Nat /\ p.final \in BOOLEAN
  /\ Both(p.doc, q.doc, p.now)

LEMMA FillStepBoth ==
  ASSUME NEW p, NEW q, Alongside(p, q), ~ Solo, NEW n \in DOMAIN p.doc.unlabeled,
         NEW d, FilledTo(p, n - 1, d), NEW e, FilledTo(q, n - 1, e), Alike(d, e)
  PROVE  Alike(Fill(p, n, d), Fill(q, n, e))
<1>1. PICK u, v : u = p.doc.unlabeled[n] /\ v = q.doc.unlabeled[n]
  OBVIOUS
<1>2. PICK now : now = p.now /\ now = q.now /\ now \in Nat
  BY DEF Alongside
<1>3. /\ Sound(p.doc, now) /\ Sound(q.doc, now) /\ Alike(p.doc, q.doc)
      /\ Sound(d, now) /\ Sound(e, now) /\ Later(p.doc, d) /\ Later(q.doc, e)
  BY <1>2 DEF Alongside, Both, FilledTo
<1>4. /\ n \in DOMAIN q.doc.unlabeled
      /\ Renumbered(p.doc.log, u.seq) = Renumbered(q.doc.log, v.seq)
      /\ u.start = v.start /\ u.end = v.end
  BY <1>1, <1>3 DEF Alike, AlikeQueues
<1>5. /\ IsSeq(p.doc.log) /\ IsSeq(q.doc.log) /\ IsSeq(d.log) /\ IsSeq(e.log)
      /\ IsSeq(d.unlabeled) /\ IsSeq(e.unlabeled) /\ IsDoc(d) /\ IsDoc(e)
      /\ Shape(d, now) /\ Shape(e, now)
      /\ GoesOn(p.doc, d) /\ GoesOn(q.doc, e)
  BY <1>3 DEF Sound, Shape, Later
<1>6. u.seq \in DOMAIN p.doc.log /\ v.seq \in DOMAIN q.doc.log
  BY <1>1, <1>3, <1>4, SoundIsFit DEF Fit
<1>7. Renumbered(d.log, u.seq) = Renumbered(e.log, v.seq)
  BY <1>4, <1>5, <1>6, SameNumber
<1>8. u.seq \in DOMAIN d.log /\ v.seq \in DOMAIN e.log
  BY <1>5, <1>6, Longer DEF GoesOn
<1>9. PICK label : label = LabelFor(p.tr, u.start, u.end)
  OBVIOUS
<1>10. label = LabelFor(q.tr, v.start, v.end)
  BY <1>4, <1>9 DEF Alongside
<1>11. CASE label # None
  <2> DEFINE one == [kind |-> "speaker", at |-> now, seq |-> u.seq,
                     speaker |-> label, turn |-> d.turn]
             two == [kind |-> "speaker", at |-> now, seq |-> v.seq,
                     speaker |-> label, turn |-> e.turn]
             l == Append(d.log, one)
             k == Append(e.log, two)
  <2>1. Fill(p, n, d) = Emit(d, one) /\ Fill(q, n, e) = Emit(e, two)
    BY <1>1, <1>2, <1>9, <1>10, <1>11 DEF Fill
  <2>2. d.turn = e.turn
    BY DEF Alike
  <2>3. /\ Reads(l, one) = [kind |-> "speaker", at |-> now, seq |-> Renumbered(l, u.seq),
                            speaker |-> label, turn |-> d.turn]
        /\ Reads(k, two) = [kind |-> "speaker", at |-> now, seq |-> Renumbered(k, v.seq),
                            speaker |-> label, turn |-> e.turn]
    BY DEF Reads
  <2>4. one.at = now /\ two.at = now /\ Lasts(one) /\ Lasts(two)
    BY DEF Lasts
  <2> HIDE DEF one, two
  <2>5. Renumbered(l, u.seq) = Renumbered(d.log, u.seq)
    BY <1>5, <1>8, RefsOn
  <2>6. Renumbered(k, v.seq) = Renumbered(e.log, v.seq)
    BY <1>5, <1>8, RefsOn
  <2>7. Reads(l, one) = Reads(k, two)
    BY <1>7, <2>2, <2>3, <2>5, <2>6
  <2>8. Twin(d, e, now)
    BY <1>3, SoundIsFit DEF Twin
  <2>9. Emit(d, one) = Plus(d, one) /\ Emit(e, two) = Plus(e, two)
    BY <1>2, <1>5, <2>4, EmitIsPlus
  <2> QED
    BY <2>1, <2>4, <2>7, <2>8, <2>9, PlusBoth
<1>12. CASE label = None /\ p.final
  BY <1>1, <1>9, <1>10, <1>12 DEF Fill, Alongside
<1>13. CASE label = None /\ ~ p.final
  <2>1. PICK x, y : x = Append(d.unlabeled, u) /\ y = Append(e.unlabeled, v)
    OBVIOUS
  <2>2. PICK f, g : f = Waits(d, x) /\ g = Waits(e, y)
    OBVIOUS
  <2>9. Fill(p, n, d) = f /\ Fill(q, n, e) = g
    BY <1>1, <1>9, <1>10, <1>13, <2>1, <2>2 DEF Fill, Waits, Alongside
  <2>3. IsSeq(x) /\ IsSeq(y)
    BY <1>5, <2>1, Longer
  <2>4. /\ Shape(f, now) /\ f.log = d.log /\ f.turn = d.turn /\ f.speaker = d.speaker
        /\ f.lastEnd = d.lastEnd /\ f.unlabeled = x /\ f.utterance = d.utterance
    <3>1. Shape(d, now) /\ IsSeq(x) /\ f = Waits(d, x)
      BY <1>5, <2>2, <2>3
    <3> QED
      BY ONLY <3>1, WaitsShape
  <2>5. /\ Shape(g, now) /\ g.log = e.log /\ g.turn = e.turn /\ g.speaker = e.speaker
        /\ g.lastEnd = e.lastEnd /\ g.unlabeled = y /\ g.utterance = e.utterance
    <3>1. Shape(e, now) /\ IsSeq(y) /\ g = Waits(e, y)
      BY <1>5, <2>2, <2>3
    <3> QED
      BY ONLY <3>1, WaitsShape
  <2>6. AlikeQueues(f.log, f.unlabeled, g.log, g.unlabeled)
    <3>1. AlikeQueues(d.log, d.unlabeled, e.log, e.unlabeled)
      BY DEF Alike
    <3>2. AlikeQueues(d.log, Append(d.unlabeled, u), e.log, Append(e.unlabeled, v))
      BY ONLY <1>4, <1>5, <1>7, <3>1, OneMoreWaits
    <3> QED
      BY <2>1, <2>4, <2>5, <3>2
  <2>7. f.error = g.error
    BY <2>4, <2>5 DEF Shape
  <2>8. Alike(f, g)
    BY <2>4, <2>5, <2>6, <2>7 DEF Alike
  <2> QED
    BY <2>8, <2>9
<1> QED
  BY <1>11, <1>12, <1>13

(* The two loops, word by word. *)
BothFilled(p, s, docs) ==
  \A n \in Nat : s = 1 .. n =>
    FilledTo(p[1], n, docs[1]) /\ FilledTo(p[2], n, docs[2]) /\ Alike(docs[1], docs[2])

Labelled == INSTANCE Folding WITH Op <- Fill, Pick <- Top, Keeps <- BothFilled

LEMMA FillNext ==
  ASSUME NEW p, NEW q, Alongside(p, q), ~ Solo,
         NEW L \in Nat, DOMAIN p.doc.unlabeled = 1 .. L, DOMAIN q.doc.unlabeled = 1 .. L,
         NEW s \in SUBSET (1 .. L), s # {}, NEW d, NEW e,
         BothFilled(<<p, q>>, s \ {Top(s)}, <<d, e>>)
  PROVE  BothFilled(<<p, q>>, s, <<Fill(p, Top(s), d), Fill(q, Top(s), e)>>)
<1> SUFFICES ASSUME NEW n \in Nat, s = 1 .. n
             PROVE  /\ FilledTo(p, n, Fill(p, Top(s), d))
                    /\ FilledTo(q, n, Fill(q, Top(s), e))
                    /\ Alike(Fill(p, Top(s), d), Fill(q, Top(s), e))
  BY DEF BothFilled
<1>1. n \in 1 .. n /\ n - 1 \in Nat /\ Top(s) = n /\ s \ {Top(s)} = 1 .. (n - 1)
  BY TopOfMany
<1>2. FilledTo(p, n - 1, d) /\ FilledTo(q, n - 1, e) /\ Alike(d, e)
  BY <1>1 DEF BothFilled
<1>3. n \in DOMAIN p.doc.unlabeled /\ n \in DOMAIN q.doc.unlabeled
  BY <1>1
<1>4. /\ p.now \in Nat /\ p.final \in BOOLEAN /\ Sound(p.doc, p.now)
      /\ q.now \in Nat /\ q.final \in BOOLEAN /\ Sound(q.doc, q.now)
  BY DEF Alongside, Both
<1>5. FilledTo(p, n, Fill(p, n, d)) /\ FilledTo(q, n, Fill(q, n, e))
  BY <1>2, <1>3, <1>4, FillStep
<1>6. Alike(Fill(p, n, d), Fill(q, n, e))
  BY <1>2, <1>3, FillStepBoth
<1> QED
  BY <1>1, <1>5, <1>6

LEMMA NobodyWaitsBoth ==
  ASSUME NEW d, NEW e, NEW now, Both(d, e, now),
         NEW f, f = Waits(d, << >>), NEW g, g = Waits(e, << >>)
  PROVE  Alike(f, g)
<1>1. /\ Shape(d, now) /\ Shape(e, now) /\ Alike(d, e) /\ IsSeq(<< >>)
  BY EmptyIsSeq DEF Both, Sound
<1>2. /\ Shape(f, now) /\ f.log = d.log /\ f.turn = d.turn /\ f.speaker = d.speaker
      /\ f.lastEnd = d.lastEnd /\ f.unlabeled = << >> /\ f.utterance = d.utterance
  BY <1>1, WaitsShape
<1>3. /\ Shape(g, now) /\ g.log = e.log /\ g.turn = e.turn /\ g.speaker = e.speaker
      /\ g.lastEnd = e.lastEnd /\ g.unlabeled = << >> /\ g.utterance = e.utterance
  BY <1>1, WaitsShape
<1>4. AlikeQueues(f.log, f.unlabeled, g.log, g.unlabeled)
  BY <1>2, <1>3, EmptyIsSeq DEF AlikeQueues
<1>5. f.error = FALSE /\ g.error = FALSE
  BY <1>2, <1>3 DEF Shape
<1> QED
  BY <1>1, <1>2, <1>3, <1>4, <1>5 DEF Alike

LEMMA FillBoth ==
  ASSUME NEW d, NEW e, NEW now \in Nat, Both(d, e, now), NEW tr, NEW final \in BOOLEAN
  PROVE  Both(FillUnlabeled(d, tr, final, now), FillUnlabeled(e, tr, final, now), now)
<1> DEFINE f == FillUnlabeled(d, tr, final, now)
           g == FillUnlabeled(e, tr, final, now)
<1>1. /\ Sound(d, now) /\ Sound(e, now) /\ Alike(d, e)
      /\ d.error = FALSE /\ e.error = FALSE
      /\ IsSeq(d.unlabeled) /\ IsSeq(e.unlabeled)
      /\ DOMAIN d.unlabeled = DOMAIN e.unlabeled
  BY DEF Both, Sound, Shape, Alike, AlikeQueues
<1>2. PICK p, q : /\ p = [tr |-> tr, now |-> now, doc |-> d, final |-> final]
                  /\ q = [tr |-> tr, now |-> now, doc |-> e, final |-> final]
  OBVIOUS
<1>3. /\ p.tr = tr /\ p.now = now /\ p.doc = d /\ p.final = final
      /\ q.tr = tr /\ q.now = now /\ q.doc = e /\ q.final = final
  BY <1>2
<1>4. Sound(f, now) /\ Sound(g, now)
  <2>1. f = FillUnlabeled(p.doc, p.tr, p.final, p.now) /\ p.now \in Nat /\ p.final \in BOOLEAN
        /\ Sound(p.doc, p.now)
    BY <1>1, <1>3
  <2>2. g = FillUnlabeled(q.doc, q.tr, q.final, q.now) /\ q.now \in Nat /\ q.final \in BOOLEAN
        /\ Sound(q.doc, q.now)
    BY <1>1, <1>3
  <2> HIDE DEF f, g
  <2>3. Sound(f, p.now)
    BY ONLY <2>1, FillKeeps
  <2>4. Sound(g, q.now)
    BY ONLY <2>2, FillKeeps
  <2> QED
    BY <1>3, <2>3, <2>4
<1>5. CASE Solo
  BY <1>1, <1>5 DEF FillUnlabeled, Both
<1>6. CASE ~ Solo
  <2>1. PICK L \in Nat : DOMAIN d.unlabeled = 1 .. L
    BY <1>1, Longer
  <2>2. PICK a, b : a = Waits(d, << >>) /\ b = Waits(e, << >>)
    OBVIOUS
  <2>3. Alongside(p, q)
    BY <1>3 DEF Alongside
  <2>4. BothFilled(<<p, q>>, {}, <<a, b>>)
    <3>1. FilledTo(p, 0, a)
      BY <1>1, <1>3, <2>2, FillStarts
    <3>2. FilledTo(q, 0, b)
      BY <1>1, <1>3, <2>2, FillStarts
    <3>3. Alike(a, b)
      BY <2>2, NobodyWaitsBoth
    <3>4. \A n \in Nat : {} = 1 .. n => n = 0
      OBVIOUS
    <3> QED
      BY <3>1, <3>2, <3>3, <3>4 DEF BothFilled
  <2>5. \A acc, bcc : \A s \in SUBSET (1 .. L) :
          s # {} /\ BothFilled(<<p, q>>, s \ {Top(s)}, <<acc, bcc>>)
            => BothFilled(<<p, q>>, s, <<Fill(p, Top(s), acc), Fill(q, Top(s), bcc)>>)
    BY <1>1, <1>3, <1>6, <2>1, <2>3, FillNext
  <2>6. Labelled!Picks(1 .. L)
    <3>1. Filling!Picks(1 .. L)
      BY TopPicks
    <3> QED
      BY <3>1 DEF Filling!Picks, Filling!IsFiniteSet, Labelled!Picks, Labelled!IsFiniteSet
  <2>7. BothFilled(<<p, q>>, 1 .. L, <<Labelled!Fold(p, a, 1 .. L), Labelled!Fold(q, b, 1 .. L)>>)
    BY ONLY <2>4, <2>5, <2>6, Labelled!FoldsAgree
  <2>8. f = Labelled!Fold(p, a, 1 .. L)
    <3>1. f = Labelled!Fold(p, Waits(d, << >>), DOMAIN d.unlabeled)
      BY <1>1, <1>3, <1>6 DEF FillUnlabeled, FoldLeft, MapThenFoldSet,
                              Labelled!Fold, Labelled!Folds, Fill, Top, Waits
    <3> QED
      BY <2>1, <2>2, <3>1
  <2>9. g = Labelled!Fold(q, b, 1 .. L)
    <3>1. g = Labelled!Fold(q, Waits(e, << >>), DOMAIN e.unlabeled)
      BY <1>1, <1>3, <1>6 DEF FillUnlabeled, FoldLeft, MapThenFoldSet,
                              Labelled!Fold, Labelled!Folds, Fill, Top, Waits
    <3> QED
      BY <1>1, <2>1, <2>2, <3>1
  <2> HIDE DEF f, g
  <2>10. Alike(f, g)
    BY <2>1, <2>7, <2>8, <2>9 DEF BothFilled
  <2> QED
    BY <1>4, <2>10 DEF Both, f, g
<1> QED
  BY <1>5, <1>6
-----------------------------------------------------------------------------
(* The end of an utterance, in both.                                       *)
LEMMA PolishBoth ==
  ASSUME NEW d, NEW e, NEW now \in Nat, Both(d, e, now), NEW rewrites
  PROVE  Both(Polish(d, rewrites, now), Polish(e, rewrites, now), now)
<1> DEFINE ds == [d EXCEPT !.utterance = << >>]
           es == [e EXCEPT !.utterance = << >>]
           one == [kind |-> "polished", at |-> now, from |-> Head(d.utterance),
                   to |-> Last(d.utterance), words |-> d.utterance, turn |-> d.turn]
           two == [kind |-> "polished", at |-> now, from |-> Head(e.utterance),
                   to |-> Last(e.utterance), words |-> e.utterance, turn |-> e.turn]
           f == Polish(d, rewrites, now)
           g == Polish(e, rewrites, now)
           l == Append(d.log, one)
           k == Append(e.log, two)
<1>1. /\ Sound(d, now) /\ Sound(e, now) /\ Alike(d, e) /\ Fit(d, now) /\ Fit(e, now)
      /\ Shape(d, now) /\ Shape(e, now) /\ IsDoc(d) /\ IsDoc(e)
      /\ d.error = FALSE /\ e.error = FALSE
      /\ IsSeq(d.log) /\ IsSeq(e.log) /\ IsSeq(d.utterance) /\ IsSeq(e.utterance)
      /\ AlikeRefs(d.log, d.utterance, e.log, e.utterance) /\ d.turn = e.turn
  BY SoundIsFit DEF Both, Sound, Shape, Alike
<1>2. Sound(f, now) /\ Sound(g, now)
  BY <1>1, PolishKeeps
<1>3. /\ IsDoc(ds)
      /\ ds.log = d.log /\ ds.turn = d.turn /\ ds.speaker = d.speaker
      /\ ds.error = d.error /\ ds.lastEnd = d.lastEnd /\ ds.utterance = << >>
      /\ ds.unlabeled = d.unlabeled
  BY <1>1 DEF IsDoc
<1>4. /\ IsDoc(es)
      /\ es.log = e.log /\ es.turn = e.turn /\ es.speaker = e.speaker
      /\ es.error = e.error /\ es.lastEnd = e.lastEnd /\ es.utterance = << >>
      /\ es.unlabeled = e.unlabeled
  BY <1>1 DEF IsDoc
<1>5. d.utterance = << >> <=> e.utterance = << >>
  <2>1. DOMAIN d.utterance = DOMAIN e.utterance
    BY <1>1 DEF AlikeRefs
  <2>2. \A s : IsSeq(s) => (s = << >> <=> DOMAIN s = {})
    <3> SUFFICES ASSUME NEW s, IsSeq(s) PROVE s = << >> <=> DOMAIN s = {}
      OBVIOUS
    <3>1. PICK T : s \in Seq(T)
      BY DEF IsSeq
    <3>2. Len(s) \in Nat /\ DOMAIN s = 1 .. Len(s) /\ (Len(s) = 0 => s = << >>)
      BY <3>1, EmptySeq, LenProperties
    <3>3. DOMAIN s = {} => Len(s) = 0
      <4> SUFFICES ASSUME DOMAIN s = {}, Len(s) # 0 PROVE FALSE
        OBVIOUS
      <4>1. 1 \in 1 .. Len(s)
        BY <3>2
      <4> QED
        BY <3>2, <4>1
    <3> QED
      BY <3>2, <3>3, EmptyIsSeq
  <2> QED
    BY <1>1, <2>1, <2>2
<1>6. \/ /\ HasPolish /\ rewrites /\ d.utterance # << >> /\ e.utterance # << >>
         /\ f = Emit(ds, one) /\ g = Emit(es, two)
      \/ f = ds /\ g = es
  BY <1>1, <1>5 DEF Polish
<1>7. /\ one.at = now /\ two.at = now /\ Lasts(one) /\ Lasts(two)
  BY DEF Lasts
<1>8. /\ Reads(l, one) = [kind |-> "polished", at |-> now,
                          from |-> Renumbered(l, Head(d.utterance)),
                          to |-> Renumbered(l, Last(d.utterance)),
                          words |-> Numbers(l, d.utterance), turn |-> d.turn]
      /\ Reads(k, two) = [kind |-> "polished", at |-> now,
                          from |-> Renumbered(k, Head(e.utterance)),
                          to |-> Renumbered(k, Last(e.utterance)),
                          words |-> Numbers(k, e.utterance), turn |-> e.turn]
  BY DEF Reads
<1> HIDE DEF ds, es, one, two
<1>9. Twin(ds, es, now)
  <2>1. Shape(ds, now) /\ Shape(es, now)
    BY <1>1, <1>3, <1>4, EmptyIsSeq DEF Shape
  <2>2. Fit(ds, now) /\ Fit(es, now)
    BY <1>1, <1>3, <1>4, <2>1, EmptyIsSeq DEF Fit
  <2>3. AlikeRefs(ds.log, ds.utterance, es.log, es.utterance)
    BY <1>3, <1>4, EmptyIsSeq DEF AlikeRefs
  <2>4. Alike(ds, es)
    BY <1>1, <1>3, <1>4, <2>3 DEF Alike
  <2> QED
    BY <2>2, <2>4 DEF Twin
<1>10. CASE f = ds /\ g = es
  BY <1>2, <1>9, <1>10 DEF Both, Twin
<1>11. CASE /\ d.utterance # << >> /\ e.utterance # << >>
            /\ f = Emit(ds, one) /\ g = Emit(es, two)
  <2> HIDE DEF f, g
  <2>1. /\ Head(d.utterance) = d.utterance[1] /\ 1 \in DOMAIN d.utterance
        /\ Last(d.utterance) = d.utterance[Len(d.utterance)]
        /\ Len(d.utterance) \in DOMAIN d.utterance
        /\ Len(d.utterance) \in Nat /\ DOMAIN d.utterance = 1 .. Len(d.utterance)
    <3>1. PICK T : d.utterance \in Seq(T)
      BY <1>1 DEF IsSeq
    <3> QED
      BY <1>11, <3>1 DEF Last
  <2>2. /\ Head(e.utterance) = e.utterance[1]
        /\ Last(e.utterance) = e.utterance[Len(e.utterance)]
        /\ Len(e.utterance) \in Nat /\ DOMAIN e.utterance = 1 .. Len(e.utterance)
    <3>1. PICK T : e.utterance \in Seq(T)
      BY <1>1 DEF IsSeq
    <3> QED
      BY <1>11, <3>1 DEF Last
  <2>3. Len(d.utterance) = Len(e.utterance)
    BY <1>1, <2>1, <2>2, SameLength DEF AlikeRefs
  <2>4. \A n \in DOMAIN d.utterance : Renumbered(l, d.utterance[n]) = Renumbered(k, e.utterance[n])
    <3>1. \A n \in DOMAIN d.utterance :
            Renumbered(l, d.utterance[n]) = Renumbered(d.log, d.utterance[n])
      BY <1>1, RefersOn
    <3>2. \A n \in DOMAIN e.utterance :
            Renumbered(k, e.utterance[n]) = Renumbered(e.log, e.utterance[n])
      BY <1>1, RefersOn
    <3> QED
      BY <1>1, <3>1, <3>2 DEF AlikeRefs
  <2> HIDE DEF l, k
  <2>5. Numbers(l, d.utterance) = Numbers(k, e.utterance)
    BY <1>1, <2>4 DEF Numbers, AlikeRefs
  <2>6. Reads(l, one) = Reads(k, two)
    BY <1>1, <1>8, <2>1, <2>2, <2>3, <2>4, <2>5
  <2>7. Emit(ds, one) = Plus(ds, one) /\ Emit(es, two) = Plus(es, two)
    BY <1>7, <1>9, EmitIsPlus DEF Twin, Fit
  <2>8. Alike(Plus(ds, one), Plus(es, two))
    BY <1>3, <1>4, <1>7, <1>9, <2>6, PlusBoth DEF l, k
  <2>9. Alike(f, g)
    BY <1>11, <2>7, <2>8
  <2> QED
    BY <1>2, <2>9 DEF Both, f, g
<1> QED
  BY <1>6, <1>10, <1>11

LEMMA EndpointBoth ==
  ASSUME NEW d, NEW e, NEW now \in Nat, Both(d, e, now), NEW tr, NEW reason, NEW rewrites
  PROVE  Both(EmitEndpoint(d, tr, reason, rewrites, now),
              EmitEndpoint(e, tr, reason, rewrites, now), now)
<1> DEFINE event == [kind |-> "endpoint", at |-> now, reason |-> reason, turn |-> d.turn]
           f == Emit(d, event)
           g == Emit(e, event)
<1>1. d.turn = e.turn /\ Twin(d, e, now) /\ Sound(d, now) /\ Sound(e, now)
  BY BothAreTwins DEF Both, Alike
<1>2. /\ EmitEndpoint(d, tr, reason, rewrites, now)
           = Polish(FillUnlabeled(f, tr, TRUE, now), rewrites, now)
      /\ EmitEndpoint(e, tr, reason, rewrites, now)
           = Polish(FillUnlabeled(g, tr, TRUE, now), rewrites, now)
  BY <1>1 DEF EmitEndpoint
<1>3. event.at = now /\ Plain(event) /\ SaysItself(event)
  BY DEF Plain, SaysItself
<1> HIDE DEF event
<1>4. Sound(f, now) /\ Sound(g, now)
  BY <1>1, <1>3, EmitPlain
<1>5. Alike(f, g)
  BY <1>1, <1>3, EmitBoth
<1> HIDE DEF f, g
<1>6. Both(FillUnlabeled(f, tr, TRUE, now), FillUnlabeled(g, tr, TRUE, now), now)
  BY <1>4, <1>5, FillBoth DEF Both
<1> QED
  BY <1>2, <1>6, PolishBoth
-----------------------------------------------------------------------------
(* What lag touches.                                                       *)
LEMMA NoticesBoth ==
  ASSUME NEW d, NEW e, NEW now \in Nat, Both(d, e, now), NEW reading, NEW one, NEW two,
         one = d \/ \E lagging :
           one = Emit(d, [kind |-> "degraded", at |-> now, degraded |-> lagging]),
         two = e \/ \E lagging :
           two = Emit(e, [kind |-> "degraded", at |-> now, degraded |-> lagging])
  PROVE  Both(Onset(one, reading, now), Onset(two, reading, now), now)
<1>1. \A lagging : LET told == [kind |-> "degraded", at |-> now, degraded |-> lagging]
                   IN  told.at = now /\ Plain(told) /\ ~ Lasts(told)
  BY DEF Plain, Lasts
<1>2. Sound(d, now) /\ Sound(e, now) /\ Alike(d, e) /\ Twin(d, e, now)
  BY BothAreTwins DEF Both
<1>3. Both(one, e, now)
  <2>1. CASE one = d
    BY <1>2, <2>1 DEF Both
  <2>2. ASSUME NEW told, told.at = now, Plain(told), ~ Lasts(told), one = Emit(d, told)
        PROVE  Both(one, e, now)
    BY <1>2, <2>2, EmitPlain, EmitOne DEF Both
  <2> QED
    BY <1>1, <2>1, <2>2
<1>4. Both(one, two, now)
  <2>0. Sound(one, now) /\ Sound(e, now) /\ Alike(e, one)
    BY <1>3, AlikeFlips DEF Both
  <2>3. Twin(e, one, now)
    BY <2>0, SoundIsFit DEF Twin
  <2>1. CASE two = e
    BY <1>3, <2>1
  <2>2. ASSUME NEW told, told.at = now, Plain(told), ~ Lasts(told), two = Emit(e, told)
        PROVE  Both(one, two, now)
    <3>1. Sound(two, now)
      BY <1>2, <2>2, EmitPlain
    <3>2. Alike(two, one)
      BY <2>2, <2>3, EmitOne
    <3>3. Alike(one, two)
      BY <3>2, AlikeFlips
    <3> QED
      BY <2>0, <3>1, <3>3 DEF Both
  <2> QED
    BY <1>1, <2>1, <2>2
<1>5. CASE ~ (reading = TRUE /\ ~ spokeYet)
  BY <1>4, <1>5 DEF Onset
<1>6. CASE reading = TRUE /\ ~ spokeYet
  <2> DEFINE event == [kind |-> "speech_onset", at |-> now]
  <2>1. Onset(one, reading, now) = Emit(one, event) /\ Onset(two, reading, now) = Emit(two, event)
    BY <1>6 DEF Onset
  <2>2. event.at = now /\ Plain(event) /\ SaysItself(event)
    BY DEF Plain, SaysItself
  <2> HIDE DEF event
  <2>3. Sound(one, now) /\ Sound(two, now) /\ Twin(one, two, now)
    BY <1>4, BothAreTwins DEF Both
  <2>4. Sound(Emit(one, event), now) /\ Sound(Emit(two, event), now)
    BY <2>2, <2>3, EmitPlain
  <2>5. Alike(Emit(one, event), Emit(two, event))
    BY <2>2, <2>3, EmitBoth
  <2> QED
    BY <2>1, <2>4, <2>5 DEF Both
<1> QED
  BY <1>5, <1>6

(* A partial that one of them leaves out. *)
LEMMA PartialBoth ==
  ASSUME NEW d, NEW e, NEW now \in Nat, Both(d, e, now), NEW words, NEW slow, NEW fast
  PROVE  Both(EmitPartial(d, words, slow, now), EmitPartial(e, words, fast, now), now)
<1> DEFINE event == [kind |-> "partial", at |-> now, texts |-> {w.text : w \in words}]
           f == EmitPartial(d, words, slow, now)
           g == EmitPartial(e, words, fast, now)
<1>1. (f = d \/ f = Emit(d, event)) /\ (g = e \/ g = Emit(e, event))
  BY DEF EmitPartial
<1>2. event.at = now /\ Plain(event) /\ ~ Lasts(event)
  BY DEF Plain, Lasts
<1> HIDE DEF event, f, g
<1>3. Sound(d, now) /\ Sound(e, now) /\ Alike(d, e) /\ Twin(d, e, now)
  BY BothAreTwins DEF Both
<1>4. Sound(f, now) /\ Alike(f, e)
  BY <1>1, <1>2, <1>3, EmitPlain, EmitOne
<1>5. Twin(e, f, now)
  BY <1>3, <1>4, AlikeFlips, SoundIsFit DEF Twin
<1>6. Sound(g, now) /\ Alike(g, f)
  <2>1. CASE g = e
    BY <1>3, <1>4, <2>1, AlikeFlips
  <2>2. CASE g = Emit(e, event)
    BY <1>2, <1>3, <1>5, <2>2, EmitPlain, EmitOne
  <2> QED
    BY <1>1, <2>1, <2>2
<1> QED
  BY <1>4, <1>6, AlikeFlips DEF Both, f, g

-----------------------------------------------------------------------------
(* A hypothesis, heard by both.                                            *)
LEMMA HearBoth ==
  ASSUME NEW d, NEW e, NEW now \in Nat, Both(d, e, now), NEW tr, NEW slow, NEW fast,
         NEW h, Tiling(WordsOf(h), now), d.lastEnd = policy.frontier
  PROVE  Both(HearWords(d, tr, h, slow, now), HearWords(e, tr, h, fast, now), now)
<1> DEFINE ws == Words!Taken(h, policy, now)
           pending == Words!Pending(h.tentative, Advanced(policy, ws, None).frontier)
           f == EmitWords(d, tr, ws, now)
           g == EmitWords(e, tr, ws, now)
<1>1. /\ HearWords(d, tr, h, slow, now) = EmitPartial(f, pending, slow, now)
      /\ HearWords(e, tr, h, fast, now) = EmitPartial(g, pending, fast, now)
  BY DEF HearWords
<1>2. Tiling(ws, now) /\ \A w \in ws : d.lastEnd <= w.start
  <2> HIDE DEF ws
  <2>1. ws \in SUBSET Words!Pending(h.stable \cup Words!EarlyWords(h), policy.frontier)
        /\ h.stable \cup Words!EarlyWords(h) \in SUBSET WordsOf(h)
    BY TakenArePending DEF ws
  <2>2. Tiling(ws, now) /\ \A w \in ws : policy.frontier <= w.start
    BY <2>1, PendingTiles
  <2> QED
    BY <2>2
<1> HIDE DEF ws, pending
<1>3. Both(f, g, now)
  BY <1>2, WordsBoth
<1> HIDE DEF f, g
<1> QED
  BY <1>1, <1>3, PartialBoth

(* What push makes of a document, once its notices are written.            *)
Told(opened, tr, h, slow, settled, verdict, rewrites, now) ==
  LET said     == IF h = None THEN opened ELSE HearWords(opened, tr, h, slow, now)
      filled   == FillUnlabeled(said, tr, FALSE, now)
      released == EmitWords(filled, tr, settled, now)
  IN  IF verdict = None THEN released
      ELSE EmitEndpoint(released, tr, verdict, rewrites, now)

LEMMA ToldBoth ==
  ASSUME NEW d, NEW e, NEW now \in Nat, Both(d, e, now), NEW tr, NEW slow, NEW fast,
         NEW h, h # None => Tiling(WordsOf(h), now), d.lastEnd = policy.frontier,
         NEW settled, Tiling(settled, now),
         \A w \in settled : PolicyAfter(h, now).frontier <= w.start,
         NEW verdict, NEW rewrites
  PROVE  Both(Told(d, tr, h, slow, settled, verdict, rewrites, now),
              Told(e, tr, h, fast, settled, verdict, rewrites, now), now)
<1> DEFINE said == IF h = None THEN d ELSE HearWords(d, tr, h, slow, now)
           pSaid == IF h = None THEN e ELSE HearWords(e, tr, h, fast, now)
           filled == FillUnlabeled(said, tr, FALSE, now)
           pFilled == FillUnlabeled(pSaid, tr, FALSE, now)
           released == EmitWords(filled, tr, settled, now)
           pReleased == EmitWords(pFilled, tr, settled, now)
<1>1. Sound(d, now)
  BY DEF Both
<1>2. Both(said, pSaid, now) /\ said.lastEnd = PolicyAfter(h, now).frontier
  <2>1. CASE h = None
    BY <2>1 DEF PolicyAfter
  <2>2. CASE h # None
    <3> DEFINE f == HearWords(d, tr, h, slow, now)
               g == HearWords(e, tr, h, fast, now)
               held == Words!HeldAfter(h, policy, now)
               aim == Advanced(policy, Words!Taken(h, policy, now), held).frontier
    <3>1. said = f /\ pSaid = g /\ PolicyAfter(h, now).frontier = aim
      BY <2>2 DEF PolicyAfter
    <3> HIDE DEF said, pSaid, held
    <3>2. Both(f, g, now)
      BY <2>2, HearBoth
    <3>3. f.lastEnd = aim
      <4> HIDE DEF f
      <4> QED
        BY <1>1, <2>2, HearKeeps DEF f
    <3> QED
      BY <3>1, <3>2, <3>3
  <2> QED
    BY <2>1, <2>2
<1> HIDE DEF said, pSaid
<1>3. Both(filled, pFilled, now)
  BY <1>2, FillBoth
<1>4. filled.lastEnd = PolicyAfter(h, now).frontier
  <2>1. Sound(said, now) /\ filled = FillUnlabeled(said, tr, FALSE, now)
    BY <1>2 DEF Both
  <2> HIDE DEF filled
  <2>2. filled.lastEnd = said.lastEnd
    BY <2>1, EarlyFill
  <2> QED
    BY <1>2, <2>2
<1> HIDE DEF filled, pFilled
<1>5. Both(released, pReleased, now)
  <2>1. \A w \in settled : filled.lastEnd <= w.start
    BY <1>4
  <2> QED
    BY <1>3, <2>1, WordsBoth
<1>6. /\ Told(d, tr, h, slow, settled, verdict, rewrites, now)
           = IF verdict = None THEN released
             ELSE EmitEndpoint(released, tr, verdict, rewrites, now)
      /\ Told(e, tr, h, fast, settled, verdict, rewrites, now)
           = IF verdict = None THEN pReleased
             ELSE EmitEndpoint(pReleased, tr, verdict, rewrites, now)
  BY DEF Told, said, pSaid, filled, pFilled
<1> HIDE DEF released, pReleased
<1>7. Both(EmitEndpoint(released, tr, verdict, rewrites, now),
           EmitEndpoint(pReleased, tr, verdict, rewrites, now), now)
  BY <1>5, EndpointBoth
<1> QED
  BY <1>5, <1>6, <1>7

(* ... and finish.                                                         *)
Ended(d, tr, rest, verdict, rewrites, now) ==
  LET filled == FillUnlabeled(EmitWords(d, tr, rest, now), tr, TRUE, now)
  IN  IF verdict = None THEN Polish(filled, rewrites, now)
      ELSE EmitEndpoint(filled, tr, verdict, rewrites, now)

LEMMA EndedBoth ==
  ASSUME NEW d, NEW e, NEW now \in Nat, Both(d, e, now), NEW tr,
         NEW rest, Tiling(rest, now), \A w \in rest : d.lastEnd <= w.start,
         NEW verdict, NEW rewrites
  PROVE  Both(Ended(d, tr, rest, verdict, rewrites, now),
              Ended(e, tr, rest, verdict, rewrites, now), now)
<1> DEFINE said == EmitWords(d, tr, rest, now)
           pSaid == EmitWords(e, tr, rest, now)
           filled == FillUnlabeled(said, tr, TRUE, now)
           pFilled == FillUnlabeled(pSaid, tr, TRUE, now)
<1>1. Both(said, pSaid, now)
  BY WordsBoth
<1> HIDE DEF said, pSaid
<1>2. Both(filled, pFilled, now)
  BY <1>1, FillBoth
<1>3. /\ Ended(d, tr, rest, verdict, rewrites, now)
           = IF verdict = None THEN Polish(filled, rewrites, now)
             ELSE EmitEndpoint(filled, tr, verdict, rewrites, now)
      /\ Ended(e, tr, rest, verdict, rewrites, now)
           = IF verdict = None THEN Polish(pFilled, rewrites, now)
             ELSE EmitEndpoint(pFilled, tr, verdict, rewrites, now)
  BY DEF Ended, said, pSaid
<1> HIDE DEF filled, pFilled
<1>4. /\ Both(Polish(filled, rewrites, now), Polish(pFilled, rewrites, now), now)
      /\ Both(EmitEndpoint(filled, tr, verdict, rewrites, now),
              EmitEndpoint(pFilled, tr, verdict, rewrites, now), now)
  BY <1>2, PolishBoth, EndpointBoth
<1> QED
  BY <1>3, <1>4

-----------------------------------------------------------------------------
(* What the two sessions keep alike besides their documents.               *)
Shared ==
  /\ gate = pGate /\ scorer = pScorer /\ policy = pPolicy /\ tracker = pTracker
  /\ latest = pLatest /\ spokeYet = pSpokeYet

(* The steps of push that read that state.                                 *)
LEMMA SameHear ==
  ASSUME Shared, NEW d, NEW tr, NEW slow, NEW now, NEW h, Tiling(WordsOf(h), now)
  PROVE  Prompt!HearWords(d, tr, h, slow, now) = HearWords(d, tr, h, slow, now)
<1> DEFINE ws == Words!Taken(h, policy, now)
           frontier == Advanced(policy, ws, None).frontier
           pending == Words!Pending(h.tentative, frontier)
<1>1. policy = pPolicy
  BY DEF Shared
<1>2. Prompt!Words!Taken(h, pPolicy, now) = ws
  BY <1>1, SamePolicy
<1>3. Prompt!Advanced(pPolicy, ws, None).frontier = frontier
  BY <1>1, SameAdvanced
<1>4. Prompt!Words!Pending(h.tentative, frontier) = pending
  BY DEF Words!Pending, Prompt!Words!Pending
<1>5. Tiling(ws, now)
  <2> HIDE DEF ws
  <2>1. ws \in SUBSET Words!Pending(h.stable \cup Words!EarlyWords(h), policy.frontier)
        /\ h.stable \cup Words!EarlyWords(h) \in SUBSET WordsOf(h)
    BY TakenArePending DEF ws
  <2> QED
    BY <2>1, PendingTiles
<1>6. HearWords(d, tr, h, slow, now)
        = EmitPartial(EmitWords(d, tr, ws, now), pending, slow, now)
  BY DEF HearWords
<1>7. Prompt!HearWords(d, tr, h, slow, now)
        = Prompt!EmitPartial(Prompt!EmitWords(d, tr, ws, now), pending, slow, now)
  BY <1>2, <1>3, <1>4 DEF Prompt!HearWords
<1> HIDE DEF ws, frontier, pending
<1>8. Prompt!EmitWords(d, tr, ws, now) = EmitWords(d, tr, ws, now)
  BY <1>5, SameWords
<1>9. \A f : Prompt!EmitPartial(f, pending, slow, now) = EmitPartial(f, pending, slow, now)
  BY SameEmit DEF EmitPartial, Prompt!EmitPartial
<1> QED
  BY <1>6, <1>7, <1>8, <1>9

LEMMA SameRest ==
  ASSUME Shared, NEW h, NEW heard, NEW reading, NEW now, NEW measured
  PROVE  /\ Prompt!PolicyAfter(h, now) = PolicyAfter(h, now)
         /\ Prompt!Releases(heard, reading, now) = Releases(heard, reading, now)
         /\ \A d : Prompt!Onset(d, reading, now) = Onset(d, reading, now)
         /\ Prompt!Gate!MaybeScore(pGate, pScorer, now, measured)
              = Gate!MaybeScore(gate, scorer, now, measured)
         /\ Prompt!Gate!Scored(pGate, pScorer, now, measured)
              = Gate!Scored(gate, scorer, now, measured)
         /\ \A score : /\ Prompt!Gate!Verdict(pGate, now, score) = Gate!Verdict(gate, now, score)
                       /\ Prompt!Gate!Observed(pGate, reading, now, score)
                            = Gate!Observed(gate, reading, now, score)
<1>1. gate = pGate /\ scorer = pScorer /\ policy = pPolicy /\ spokeYet = pSpokeYet
  BY DEF Shared
<1>2. Prompt!PolicyAfter(h, now) = PolicyAfter(h, now)
  BY <1>1, SamePolicy, SameAdvanced DEF PolicyAfter, Prompt!PolicyAfter
<1>3. Prompt!Gate!SilenceHeld(pGate, now) = Gate!SilenceHeld(gate, now)
  BY <1>1, SameGate
<1>4. Prompt!Releases(heard, reading, now) = Releases(heard, reading, now)
  BY <1>3 DEF Releases, Prompt!Releases
<1>5. \A d : Prompt!Onset(d, reading, now) = Onset(d, reading, now)
  BY <1>1, SameEmit DEF Onset, Prompt!Onset
<1> QED
  BY <1>1, <1>2, <1>4, <1>5, SameGate

(* What push works out besides the document.                               *)
Trained(segment) ==
  IF segment = None THEN tracker
  ELSE Taught(tracker, Segments[closed + 1], segment.voice, segment.pairs)

Lately(h) == IF h = None THEN latest ELSE h

Settles(h, reading, now) ==
  IF Releases(Lately(h), reading, now)
  THEN Words!Settled(Lately(h), PolicyAfter(h, now)) ELSE {}

Decides(reading, measured, now) ==
  IF reading = FALSE
  THEN Gate!Verdict(gate, now, Gate!MaybeScore(gate, scorer, now, measured)) ELSE None

(* push, in the session that may lag ...                                   *)
LEMMA PushTells ==
  ASSUME NEW size, NEW reading, NEW segment, NEW h, NEW measured, NEW rewrites, NEW lagging,
         Push(size, reading, segment, h, measured, rewrites, lagging)
  PROVE  LET now == at + size
         IN  /\ at' = now
             /\ spokeYet' = (spokeYet \/ reading = TRUE)
             /\ tracker' = Trained(segment) /\ latest' = Lately(h)
             /\ policy' = IF Releases(Lately(h), reading, now)
                          THEN Advanced(PolicyAfter(h, now), Settles(h, reading, now), None)
                          ELSE PolicyAfter(h, now)
             /\ scorer' = IF reading = None THEN scorer
                          ELSE Gate!Scored(gate, scorer, now, measured)
             /\ gate' = IF reading = None THEN gate
                        ELSE Gate!Observed(gate, reading, now,
                                           Gate!MaybeScore(gate, scorer, now, measured))
             /\ \E d : /\ d = doc \/ \E late :
                            d = Emit(doc, [kind |-> "degraded", at |-> now, degraded |-> late])
                       /\ doc' = Told(Onset(d, reading, now), Trained(segment), h, lagging,
                                      Settles(h, reading, now),
                                      Decides(reading, measured, now), rewrites, now)
<1> DEFINE now == at + size
           d == ObserveLag(doc, lagging, now)
<1>1. doc' = Told(Onset(d, reading, now), Trained(segment), h, lagging,
                  Settles(h, reading, now), Decides(reading, measured, now), rewrites, now)
  BY DEF Push, Told, Trained, Lately, Settles, Decides
<1>2. /\ at' = now
      /\ spokeYet' = (spokeYet \/ reading = TRUE)
      /\ tracker' = Trained(segment) /\ latest' = Lately(h)
      /\ policy' = IF Releases(Lately(h), reading, now)
                   THEN Advanced(PolicyAfter(h, now), Settles(h, reading, now), None)
                   ELSE PolicyAfter(h, now)
      /\ scorer' = IF reading = None THEN scorer ELSE Gate!Scored(gate, scorer, now, measured)
      /\ gate' = IF reading = None THEN gate
                 ELSE Gate!Observed(gate, reading, now,
                                    Gate!MaybeScore(gate, scorer, now, measured))
  BY DEF Push, Trained, Lately, Settles
<1>3. d = doc \/ \E late :
        d = Emit(doc, [kind |-> "degraded", at |-> now, degraded |-> late])
  BY DEF ObserveLag
<1> HIDE DEF d
<1> QED
  BY <1>1, <1>2, <1>3

(* ... and in the one that does not.                                       *)
LEMMA PromptTells ==
  ASSUME Shared,
         NEW size, NEW reading, NEW segment, NEW h, NEW measured, NEW rewrites,
         Prompt!Push(size, reading, segment, h, measured, rewrites, FALSE),
         h # None => Tiling(WordsOf(h), at + size),
         Tiling(Settles(h, reading, at + size), at + size)
  PROVE  LET now == at + size
         IN  /\ pSpokeYet' = (spokeYet \/ reading = TRUE)
             /\ pTracker' = Trained(segment) /\ pLatest' = Lately(h)
             /\ pPolicy' = IF Releases(Lately(h), reading, now)
                           THEN Advanced(PolicyAfter(h, now), Settles(h, reading, now), None)
                           ELSE PolicyAfter(h, now)
             /\ pScorer' = IF reading = None THEN scorer
                           ELSE Gate!Scored(gate, scorer, now, measured)
             /\ pGate' = IF reading = None THEN gate
                         ELSE Gate!Observed(gate, reading, now,
                                            Gate!MaybeScore(gate, scorer, now, measured))
             /\ \E d : /\ d = pDoc \/ \E late :
                            d = Emit(pDoc, [kind |-> "degraded", at |-> now, degraded |-> late])
                       /\ pDoc' = Told(Onset(d, reading, now), Trained(segment), h, FALSE,
                                       Settles(h, reading, now),
                                       Decides(reading, measured, now), rewrites, now)
<1> DEFINE now == at + size
           trained == Trained(segment)
           heardH == Lately(h)
           settled == Settles(h, reading, now)
           score == Gate!MaybeScore(gate, scorer, now, measured)
           verdict == Decides(reading, measured, now)
           d == Prompt!ObserveLag(pDoc, FALSE, now)
           opened == Prompt!Onset(d, reading, now)
           pTrained == IF segment = None THEN pTracker
                       ELSE Prompt!Taught(pTracker, Segments[closed + 1],
                                          segment.voice, segment.pairs)
           pHeard == IF h = None THEN pLatest ELSE h
           policyT == Prompt!PolicyAfter(h, now)
           pSettled == IF Prompt!Releases(pHeard, reading, now)
                       THEN Prompt!Words!Settled(pHeard, policyT) ELSE {}
           pScore == Prompt!Gate!MaybeScore(pGate, pScorer, now, measured)
           pVerdict == IF reading = FALSE THEN Prompt!Gate!Verdict(pGate, now, pScore) ELSE None
           said == IF h = None THEN opened
                   ELSE Prompt!HearWords(opened, pTrained, h, FALSE, now)
           filled == Prompt!FillUnlabeled(said, pTrained, FALSE, now)
           released == Prompt!EmitWords(filled, pTrained, pSettled, now)
<1>1. /\ pSpokeYet' = (pSpokeYet \/ reading = TRUE)
      /\ pTracker' = pTrained /\ pLatest' = pHeard
      /\ pPolicy' = IF Prompt!Releases(pHeard, reading, now)
                    THEN Prompt!Advanced(policyT, pSettled, None) ELSE policyT
      /\ pScorer' = IF reading = None THEN pScorer
                    ELSE Prompt!Gate!Scored(pGate, pScorer, now, measured)
      /\ pGate' = IF reading = None THEN pGate
                  ELSE Prompt!Gate!Observed(pGate, reading, now, pScore)
      /\ pDoc' = IF pVerdict = None THEN released
                 ELSE Prompt!EmitEndpoint(released, pTrained, pVerdict, rewrites, now)
  BY DEF Prompt!Push
<1>2. /\ gate = pGate /\ scorer = pScorer /\ policy = pPolicy /\ tracker = pTracker
      /\ latest = pLatest /\ spokeYet = pSpokeYet
  BY DEF Shared
<1>3. pTrained = trained
  BY <1>2, SameTaught DEF Trained
<1>4. pHeard = heardH
  BY <1>2 DEF Lately
<1>5. policyT = PolicyAfter(h, now)
  BY SameRest
<1>6. Prompt!Releases(heardH, reading, now) = Releases(heardH, reading, now)
  BY SameRest
<1>7. pSettled = settled
  BY <1>4, <1>5, <1>6, SamePolicy DEF Settles
<1>8. pScore = score
  BY SameRest
<1>9. pVerdict = verdict
  BY <1>8, SameRest DEF Decides
<1>10. opened = Onset(d, reading, now)
  BY SameRest
<1>11. d = pDoc \/ \E late :
         d = Emit(pDoc, [kind |-> "degraded", at |-> now, degraded |-> late])
  BY SameEmit DEF Prompt!ObserveLag
<1> HIDE DEF d, opened, pTrained, pHeard, policyT, pSettled, pScore, pVerdict,
             trained, heardH, settled, score, verdict
<1>12. said = IF h = None THEN opened ELSE HearWords(opened, trained, h, FALSE, now)
  BY <1>3, SameHear
<1> HIDE DEF said
<1>13. filled = FillUnlabeled(said, trained, FALSE, now)
  BY <1>3, SameFill
<1> HIDE DEF filled
<1>14. released = EmitWords(filled, trained, settled, now)
  BY <1>3, <1>7, SameWords DEF settled
<1> HIDE DEF released
<1>15. pDoc' = IF verdict = None THEN released
               ELSE EmitEndpoint(released, trained, verdict, rewrites, now)
  BY <1>1, <1>3, <1>9, SameEndpoint
<1>16. pDoc' = Told(Onset(d, reading, now), trained, h, FALSE, settled, verdict, rewrites, now)
  BY <1>10, <1>12, <1>13, <1>14, <1>15 DEF Told
<1>17. /\ pSpokeYet' = (spokeYet \/ reading = TRUE)
       /\ pTracker' = trained /\ pLatest' = heardH
  BY <1>1, <1>2, <1>3, <1>4
<1>18. pPolicy' = IF Releases(heardH, reading, now)
                  THEN Advanced(PolicyAfter(h, now), settled, None)
                  ELSE PolicyAfter(h, now)
  BY <1>1, <1>4, <1>5, <1>6, <1>7, SameAdvanced
<1>19. /\ pScorer' = IF reading = None THEN scorer ELSE Gate!Scored(gate, scorer, now, measured)
       /\ pGate' = IF reading = None THEN gate ELSE Gate!Observed(gate, reading, now, score)
  BY <1>1, <1>2, <1>8, SameRest
<1> QED
  BY <1>11, <1>16, <1>17, <1>18, <1>19 DEF trained, heardH, settled, score, verdict

-----------------------------------------------------------------------------
(* The inductive invariant of the pair.                                    *)
TInv ==
  /\ IInv
  /\ Shared /\ ended = pEnded
  /\ Both(doc, pDoc, at)

LEMMA TwinStart == TwinInit => TInv
<1> SUFFICES ASSUME TwinInit PROVE TInv
  OBVIOUS
<1>1. Init /\ Prompt!Init
  BY DEF TwinInit
<1>2. IInv
  BY <1>1, InitHolds
<1>3. Shared /\ ended = pEnded
  BY <1>1 DEF Init, Prompt!Init, Shared, Gate!FreshGate, Prompt!Gate!FreshGate,
              Gate!FreshScorer, Prompt!Gate!FreshScorer, Words!FreshCommit,
              Prompt!Words!FreshCommit, EmptyTracker, Prompt!EmptyTracker
<1>4. doc = pDoc
  BY <1>1 DEF Init, Prompt!Init, EmptyDoc, Prompt!EmptyDoc
<1>5. Sound(doc, at)
  BY <1>2 DEF IInv
<1>6. Alike(doc, doc)
  BY DEF Alike, AlikeLogs, AlikeQueues, AlikeRefs
<1> QED
  BY <1>2, <1>3, <1>4, <1>5, <1>6 DEF TInv, Both

LEMMA TwinPush ==
  ASSUME TInv, NEW size \in Nat, NEW reading, NEW segment, NEW h, NEW measured,
         NEW rewrites, NEW lagging,
         Push(size, reading, segment, h, measured, rewrites, lagging),
         Prompt!Push(size, reading, segment, h, measured, rewrites, FALSE),
         h # None => Tiling(WordsOf(h), at + size)
  PROVE  Shared' /\ Both(doc', pDoc', at')
<1> DEFINE now == at + size
           trained == Trained(segment)
           settled == Settles(h, reading, now)
           verdict == Decides(reading, measured, now)
<1>1. /\ TypeOK /\ Shared /\ Both(doc, pDoc, at)
      /\ latest # None => Tiling(WordsOf(latest), at)
  BY DEF TInv, IInv
<1>2. at \in Nat /\ now \in Nat /\ at <= now /\ doc.lastEnd = policy.frontier
  BY <1>1 DEF TypeOK
<1>3. h # None => Tiling(WordsOf(h), now)
  OBVIOUS
<1>4. Lately(h) # None => Tiling(WordsOf(Lately(h)), now)
  BY <1>1, <1>2, <1>3, TilesLater DEF Lately
<1>5. Tiling(settled, now) /\ \A w \in settled : PolicyAfter(h, now).frontier <= w.start
  <2>1. CASE ~ Releases(Lately(h), reading, now)
    BY <2>1, FS_EmptySet DEF Tiling, Settles
  <2>2. CASE Releases(Lately(h), reading, now)
    <3>1. settled = Words!Pending(Lately(h).tentative, PolicyAfter(h, now).frontier)
      BY <2>2 DEF Settles, Words!Settled
    <3>2. Tiling(WordsOf(Lately(h)), now) /\ Lately(h).tentative \in SUBSET WordsOf(Lately(h))
      BY <1>4, <2>2 DEF Releases, WordsOf
    <3> HIDE DEF settled
    <3> QED
      BY <3>1, <3>2, PendingTiles
  <2> QED
    BY <2>1, <2>2
<1>6. /\ at' = now
      /\ spokeYet' = (spokeYet \/ reading = TRUE)
      /\ tracker' = trained /\ latest' = Lately(h)
      /\ policy' = IF Releases(Lately(h), reading, now)
                   THEN Advanced(PolicyAfter(h, now), settled, None)
                   ELSE PolicyAfter(h, now)
      /\ scorer' = IF reading = None THEN scorer ELSE Gate!Scored(gate, scorer, now, measured)
      /\ gate' = IF reading = None THEN gate
                 ELSE Gate!Observed(gate, reading, now,
                                    Gate!MaybeScore(gate, scorer, now, measured))
      /\ \E d : /\ d = doc \/ \E late :
                     d = Emit(doc, [kind |-> "degraded", at |-> now, degraded |-> late])
                /\ doc' = Told(Onset(d, reading, now), trained, h, lagging,
                               settled, verdict, rewrites, now)
  BY PushTells
<1>7. /\ pSpokeYet' = (spokeYet \/ reading = TRUE)
      /\ pTracker' = trained /\ pLatest' = Lately(h)
      /\ pPolicy' = IF Releases(Lately(h), reading, now)
                    THEN Advanced(PolicyAfter(h, now), settled, None)
                    ELSE PolicyAfter(h, now)
      /\ pScorer' = IF reading = None THEN scorer ELSE Gate!Scored(gate, scorer, now, measured)
      /\ pGate' = IF reading = None THEN gate
                  ELSE Gate!Observed(gate, reading, now,
                                     Gate!MaybeScore(gate, scorer, now, measured))
      /\ \E d : /\ d = pDoc \/ \E late :
                     d = Emit(pDoc, [kind |-> "degraded", at |-> now, degraded |-> late])
                /\ pDoc' = Told(Onset(d, reading, now), trained, h, FALSE,
                                settled, verdict, rewrites, now)
  BY <1>1, <1>3, <1>5, PromptTells
<1> HIDE DEF now, trained, settled, verdict
<1>8. Shared'
  BY <1>6, <1>7 DEF Shared
<1>9. PICK one : /\ one = doc \/ \E late :
                      one = Emit(doc, [kind |-> "degraded", at |-> now, degraded |-> late])
                 /\ doc' = Told(Onset(one, reading, now), trained, h, lagging,
                                settled, verdict, rewrites, now)
  BY <1>6
<1>10. PICK two : /\ two = pDoc \/ \E late :
                       two = Emit(pDoc, [kind |-> "degraded", at |-> now, degraded |-> late])
                  /\ pDoc' = Told(Onset(two, reading, now), trained, h, FALSE,
                                  settled, verdict, rewrites, now)
  BY <1>7
<1>11. Both(doc, pDoc, now)
  BY <1>1, <1>2, SoundLater DEF Both
<1>12. PICK d, e : d = Onset(one, reading, now) /\ e = Onset(two, reading, now)
  OBVIOUS
<1>13. Both(d, e, now)
  BY <1>2, <1>9, <1>10, <1>11, <1>12, NoticesBoth
<1>14. d.lastEnd = policy.frontier
  <2> DEFINE event == [kind |-> "speech_onset", at |-> now]
  <2>1. Sound(doc, now)
    BY <1>11 DEF Both
  <2>2. Sound(one, now) /\ one.lastEnd = doc.lastEnd
    <3>1. CASE one = doc
      BY <2>1, <3>1
    <3>2. ASSUME NEW told, told.at = now, Plain(told), one = Emit(doc, told)
          PROVE  Sound(one, now) /\ one.lastEnd = doc.lastEnd
      BY <1>2, <2>1, <3>2, EmitPlain
    <3>3. \A late : LET told == [kind |-> "degraded", at |-> now, degraded |-> late]
                    IN  told.at = now /\ Plain(told)
      BY DEF Plain
    <3> QED
      BY <1>9, <3>1, <3>2, <3>3
  <2>3. d = one \/ d = Emit(one, event)
    BY <1>12 DEF Onset
  <2>4. event.at = now /\ Plain(event)
    BY DEF Plain
  <2> HIDE DEF event
  <2> QED
    BY <1>2, <2>2, <2>3, <2>4, EmitPlain
<1>15. Both(Told(d, trained, h, lagging, settled, verdict, rewrites, now),
            Told(e, trained, h, FALSE, settled, verdict, rewrites, now), now)
  BY <1>2, <1>3, <1>5, <1>13, <1>14, ToldBoth
<1> QED
  BY <1>6, <1>8, <1>9, <1>10, <1>12, <1>15

LEMMA TwinFinish ==
  ASSUME TInv, NEW segment, NEW h, NEW measured, NEW rewrites,
         Finish(segment, h, measured, rewrites),
         Prompt!Finish(segment, h, measured, rewrites),
         Tiling(WordsOf(h), at)
  PROVE  Shared' /\ ended' = pEnded' /\ Both(doc', pDoc', at')
<1> DEFINE trained == IF segment = None THEN tracker
                      ELSE Taught(tracker, Segments[closed + 1], segment.voice, segment.pairs)
           rest == Words!Flushed(h, policy)
           verdict == Gate!FlushVerdict(gate)
           pTrained == IF segment = None THEN pTracker
                       ELSE Prompt!Taught(pTracker, Segments[closed + 1],
                                          segment.voice, segment.pairs)
           pRest == Prompt!Words!Flushed(h, pPolicy)
           pVerdict == Prompt!Gate!FlushVerdict(pGate)
           said == Prompt!EmitWords(pDoc, pTrained, pRest, at)
           filled == Prompt!FillUnlabeled(said, pTrained, TRUE, at)
<1>1. /\ TypeOK /\ Shared /\ Both(doc, pDoc, at)
      /\ gate = pGate /\ scorer = pScorer /\ policy = pPolicy /\ tracker = pTracker
      /\ latest = pLatest /\ spokeYet = pSpokeYet
  BY DEF TInv, IInv, Shared
<1>2. at \in Nat /\ doc.lastEnd = policy.frontier
  BY <1>1 DEF TypeOK
<1>3. /\ at' = at /\ ended' = TRUE /\ latest' = latest /\ spokeYet' = spokeYet
      /\ tracker' = trained
      /\ policy' = Advanced(policy, rest, None)
      /\ scorer' = Gate!FinallyScored(scorer, measured)
      /\ gate' = IF verdict = None THEN gate ELSE Gate!Fired(gate)
      /\ doc' = Ended(doc, trained, rest, verdict, rewrites, at)
  BY DEF Finish, Ended
<1>4. /\ pEnded' = TRUE /\ pLatest' = pLatest /\ pSpokeYet' = pSpokeYet
      /\ pTracker' = pTrained
      /\ pPolicy' = Prompt!Advanced(pPolicy, pRest, None)
      /\ pScorer' = Prompt!Gate!FinallyScored(pScorer, measured)
      /\ pGate' = IF pVerdict = None THEN pGate ELSE Prompt!Gate!Fired(pGate)
      /\ pDoc' = IF pVerdict = None THEN Prompt!Polish(filled, rewrites, at)
                 ELSE Prompt!EmitEndpoint(filled, pTrained, pVerdict, rewrites, at)
  BY DEF Prompt!Finish
<1>5. pTrained = trained
  BY <1>1, SameTaught
<1>6. pRest = rest
  BY <1>1, SamePolicy
<1>7. pVerdict = verdict
  BY <1>1, SameGate
<1>8. Tiling(rest, at) /\ \A w \in rest : doc.lastEnd <= w.start
  <2>1. rest = Words!Pending(WordsOf(h), policy.frontier)
    BY DEF Words!Flushed, WordsOf
  <2> HIDE DEF rest
  <2> QED
    BY <1>2, <2>1, PendingTiles
<1> HIDE DEF trained, rest, verdict, pTrained, pRest, pVerdict
<1>9. said = EmitWords(pDoc, trained, rest, at)
  BY <1>5, <1>6, <1>8, SameWords
<1> HIDE DEF said
<1>10. filled = FillUnlabeled(said, trained, TRUE, at)
  BY <1>5, SameFill
<1> HIDE DEF filled
<1>11. pDoc' = Ended(pDoc, trained, rest, verdict, rewrites, at)
  BY <1>4, <1>5, <1>7, <1>9, <1>10, SamePolish, SameEndpoint DEF Ended
<1>12. Shared'
  <2>1. policy' = pPolicy'
    BY <1>1, <1>3, <1>4, <1>6, SameAdvanced
  <2>2. scorer' = pScorer' /\ gate' = pGate'
    BY <1>1, <1>3, <1>4, <1>7, SameGate
  <2> QED
    BY <1>1, <1>3, <1>4, <1>5, <2>1, <2>2 DEF Shared
<1>13. Both(doc', pDoc', at)
  BY <1>1, <1>2, <1>3, <1>8, <1>11, EndedBoth
<1> QED
  BY <1>3, <1>4, <1>12, <1>13

LEMMA TwinStep == TInv /\ [TwinNext]_twins => TInv'
<1> SUFFICES ASSUME TInv, [TwinNext]_twins PROVE TInv'
  OBVIOUS
<1>1. IInv /\ TypeOK /\ at \in Nat /\ stable \in Seq(Renderings)
  BY DEF TInv, IInv, TypeOK
<1>2. CASE UNCHANGED twins
  <2>1. UNCHANGED vars /\ UNCHANGED Prompt!vars
    BY <1>2 DEF twins
  <2>2. IInv'
    BY <1>1, <2>1, StepHolds
  <2> QED
    BY <2>1, <2>2 DEF TInv, Shared, Both, vars, Prompt!vars
<1>3. ASSUME NEW size \in Steps, BothPush(size) PROVE TInv'
  <2>1. PICK reading \in Readings, segment \in Closing(at + size), measured \in Gate!Completeness,
             rewrites \in BOOLEAN, lagging \in {FALSE, CanLag} :
          /\ Running /\ Prompt!Running
          /\ at + size <= MaxAt
          /\ UNCHANGED <<ended, pEnded>>
          /\ \/ /\ Push(size, reading, segment, None, measured, rewrites, lagging)
                /\ Prompt!Push(size, reading, segment, None, measured, rewrites, FALSE)
                /\ UNCHANGED stable
             \/ \E words \in Sayings, s \in 0 .. MostWords, fragment \in BOOLEAN,
                   conf \in Confidences :
                  LET h == Heard(words, s, fragment, conf)
                  IN  /\ CanSay(stable, words, s, at + size)
                      /\ Push(size, reading, segment, h, measured, rewrites, lagging)
                      /\ Prompt!Push(size, reading, segment, h, measured, rewrites, FALSE)
                      /\ stable' = SubSeq(words, 1, s)
    BY <1>3, Zenon DEF BothPush
  <2>2. size \in Nat /\ at + size \in Nat
    BY <1>1, CoordinatorAssumption
  <2>3. PushChunk(size)
    <3>1. \/ /\ Push(size, reading, segment, None, measured, rewrites, lagging)
             /\ UNCHANGED stable
          \/ \E words \in Sayings, s \in 0 .. MostWords, fragment \in BOOLEAN,
                conf \in Confidences :
               /\ CanSay(stable, words, s, at + size)
               /\ Push(size, reading, segment, Heard(words, s, fragment, conf),
                       measured, rewrites, lagging)
               /\ stable' = SubSeq(words, 1, s)
      BY <2>1, ZenonT(60)
    <3>2. UNCHANGED ended
      BY <2>1
    <3> DEFINE Chunk(r, g, m, w, l) ==
          /\ Running
          /\ at + size <= MaxAt
          /\ UNCHANGED ended
          /\ \/ /\ Push(size, r, g, None, m, w, l)
                /\ UNCHANGED stable
             \/ \E words \in Sayings, s \in 0 .. MostWords, fragment \in BOOLEAN,
                   conf \in Confidences :
                  /\ CanSay(stable, words, s, at + size)
                  /\ Push(size, r, g, Heard(words, s, fragment, conf), m, w, l)
                  /\ stable' = SubSeq(words, 1, s)
    <3>3. Chunk(reading, segment, measured, rewrites, lagging)
      BY ONLY <2>1, <3>1, <3>2, ZenonT(60)
    <3> HIDE DEF Chunk
    <3>4. \E r \in Readings, g \in Closing(at + size), m \in Gate!Completeness,
             w \in BOOLEAN, l \in {FALSE, CanLag} : Chunk(r, g, m, w, l)
      BY <2>1, <3>3, Zenon
    <3> QED
      BY ONLY <3>4, ZenonT(60) DEF PushChunk, Chunk
  <2>4. IInv'
    BY <1>1, <2>3, PushStep
  <2>5. PICK h : /\ Push(size, reading, segment, h, measured, rewrites, lagging)
                 /\ Prompt!Push(size, reading, segment, h, measured, rewrites, FALSE)
                 /\ h # None => Tiling(WordsOf(h), at + size)
    <3>1. CASE /\ Push(size, reading, segment, None, measured, rewrites, lagging)
               /\ Prompt!Push(size, reading, segment, None, measured, rewrites, FALSE)
      BY <3>1
    <3>2. ASSUME NEW words \in Sayings, NEW s \in 0 .. MostWords, NEW fragment \in BOOLEAN,
                 NEW conf \in Confidences, NEW g, g = Heard(words, s, fragment, conf),
                 CanSay(stable, words, s, at + size),
                 Push(size, reading, segment, g, measured, rewrites, lagging),
                 Prompt!Push(size, reading, segment, g, measured, rewrites, FALSE)
          PROVE  \E h : /\ Push(size, reading, segment, h, measured, rewrites, lagging)
                        /\ Prompt!Push(size, reading, segment, h, measured, rewrites, FALSE)
                        /\ h # None => Tiling(WordsOf(h), at + size)
      <4>1. PICK now : now = at + size
        OBVIOUS
      <4>2. now \in Nat /\ s \in Nat /\ CanSay(stable, words, s, now)
        BY <2>2, <3>2, <4>1, ContractAssumption
      <4>3. Tiling(WordsOf(g), now)
        BY <3>2, <4>2, HeardTiles
      <4> QED
        BY <3>2, <4>1, <4>3
    <3> QED
      BY <2>1, <3>1, <3>2
  <2>6. Shared' /\ Both(doc', pDoc', at')
    BY <2>2, <2>5, TwinPush
  <2>7. ended' = pEnded'
    BY <2>1 DEF TInv
  <2> QED
    BY <2>4, <2>6, <2>7 DEF TInv, Both
<1>4. CASE BothEnd
  <2>1. PICK segment \in Closing(at), words \in Sayings, conf \in Confidences,
             measured \in Gate!Completeness, rewrites \in BOOLEAN :
          LET h == Heard(words, Len(words), FALSE, conf)
          IN  /\ Running /\ Prompt!Running
              /\ CanSay(stable, words, Len(words), at)
              /\ Finish(segment, h, measured, rewrites)
              /\ Prompt!Finish(segment, h, measured, rewrites)
              /\ stable' = words
    BY <1>4, Zenon DEF BothEnd
  <2>2. EndStream
    BY <2>1, Zenon DEF EndStream
  <2>3. IInv'
    BY <1>1, <2>2, FinishStep
  <2>4. PICK h : h = Heard(words, Len(words), FALSE, conf)
    OBVIOUS
  <2>5. Len(words) \in Nat
    BY SayingIs, ContractAssumption
  <2>6. Tiling(WordsOf(h), at)
    BY <1>1, <2>1, <2>4, <2>5, HeardTiles
  <2>7. /\ Finish(segment, h, measured, rewrites)
        /\ Prompt!Finish(segment, h, measured, rewrites)
    BY <2>1, <2>4
  <2>8. Shared' /\ ended' = pEnded' /\ Both(doc', pDoc', at')
    BY <2>6, <2>7, TwinFinish
  <2> QED
    BY <2>3, <2>8 DEF TInv, Both
<1> QED
  BY <1>2, <1>3, <1>4 DEF TwinNext

(* Two documents that are alike read alike.                                *)
LEMMA NothingChanged == TInv => LagChangesNothing
<1> SUFFICES ASSUME TInv PROVE LagChangesNothing
  OBVIOUS
<1>1. Shared /\ ended = pEnded /\ Alike(doc, pDoc)
  BY DEF TInv, Both
<1>2. Lasting(doc.log) = Lasting(pDoc.log)
  BY <1>1 DEF Alike, AlikeLogs
<1>3. <<gate, scorer, policy, tracker, latest, spokeYet, ended>>
        = <<pGate, pScorer, pPolicy, pTracker, pLatest, pSpokeYet, pEnded>>
  BY <1>1 DEF Shared
<1>4. <<doc.turn, doc.speaker, doc.lastEnd, doc.error>>
        = <<pDoc.turn, pDoc.speaker, pDoc.lastEnd, pDoc.error>>
  BY <1>1 DEF Alike
<1>5. Waiting(doc.log, doc.unlabeled) = Waiting(pDoc.log, pDoc.unlabeled)
  BY <1>1 DEF Alike, AlikeQueues, Waiting
<1>6. Numbers(doc.log, doc.utterance) = Numbers(pDoc.log, pDoc.utterance)
  BY <1>1 DEF Alike, AlikeRefs, Numbers
<1> QED
  BY <1>2, <1>3, <1>4, <1>5, <1>6 DEF LagChangesNothing

(* "It only gates whether partials are emitted" (push): whatever the       *)
(* engine says, the policy, the segments and the answers of the models, a       *)
(* session that falls behind and catches up writes the same turns, words,  *)
(* labels, endpoints and polish as one that never does, and waits for the  *)
(* same labels and the same polish.                                        *)
THEOREM LagIsInvisible == TwinSpec => []LagChangesNothing
  BY TwinStart, TwinStep, NothingChanged, PTL DEF TwinSpec

=============================================================================
