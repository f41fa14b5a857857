------------------------- MODULE Committing_proofs -------------------------
(***************************************************************************)
(* Proofs about Committing, for every set of renderings, policy and chunk  *)
(* length.                                                                 *)
(*                                                                         *)
(* The argument rests on what a hypothesis looks like (WellHeard) and on   *)
(* one fact about the two positions the code keeps in different objects:   *)
(* CommitPolicy._committed_to and EventLog._last_commit_end stay equal.    *)
(***************************************************************************)
EXTENDS Committing, TLAPS

Words(h) == h.stable \cup h.tentative

WellFormed(w, now) ==
  /\ w.id \in Nat /\ w.text \in Nat /\ w.start \in Nat /\ w.end \in Nat
  /\ w.start <= w.end /\ w.end <= now

(* A set of words that follow one another in the audio, in their order.    *)
Tiled(ws, now) ==
  /\ \A w \in ws : WellFormed(w, now)
  /\ \A v, w \in ws : v.id = w.id => v = w
  /\ \A v, w \in ws : v.id < w.id => v.end <= w.start

(* A hypothesis lays its words one after another, the stable ones first.   *)
WellHeard(h, now) ==
  /\ Tiled(Words(h), now)
  /\ \A v \in h.stable, w \in h.tentative : v.id < w.id

(* The words a hypothesis calls stable are `words`. *)
Voices(h, words) ==
  /\ \A i \in DOMAIN words : \E w \in h.stable : Rendering(w) = words[i]
  /\ \A w \in h.stable : \E i \in DOMAIN words : Rendering(w) = words[i]

(* Words that can be committed together. *)
InOrder(ws, frontier, now) ==
  /\ Tiled(ws, now)
  /\ \A w \in ws : frontier <= w.start

FrontiersAgree == lastEnd = policy.frontier

CInv ==
  /\ TypeOK
  /\ FrontiersAgree
  /\ NothingRaised
  /\ latest # None => WellHeard(latest, at)
  /\ latest # None /\ ~ ended => Voices(latest, stable)

-----------------------------------------------------------------------------
(* The order of a hypothesis is time order. *)
LEMMA OrderIsTime ==
  ASSUME NEW ws, NEW now \in Nat, Tiled(ws, now), NEW v \in ws, NEW w \in ws
  PROVE  /\ v.id \in Nat /\ w.id \in Nat
         /\ Before(v, w) <=> v.id < w.id
<1>1. WellFormed(v, now) /\ WellFormed(w, now) /\ (v.id = w.id => v = w)
  BY DEF Tiled
<1>2. CASE v.id < w.id
  <2>1. v.end <= w.start BY <1>2 DEF Tiled
  <2> QED BY <1>1, <1>2, <2>1 DEF WellFormed, Before
<1>3. CASE w.id < v.id
  <2>1. w.end <= v.start BY <1>3 DEF Tiled
  <2> QED BY <1>1, <1>3, <2>1 DEF WellFormed, Before
<1>4. CASE v.id = w.id BY <1>1, <1>4 DEF WellFormed, Before
<1> QED BY <1>1, <1>2, <1>3, <1>4 DEF WellFormed

(* ... so what comes up to a word comes up to every later one. *)
LEMMA UpToGrows ==
  ASSUME NEW ws, NEW now \in Nat, Tiled(ws, now), NEW S, S \subseteq ws,
         NEW v \in ws, NEW w \in ws, v.id < w.id
  PROVE  UpTo(v, S) \subseteq UpTo(w, S)
<1> SUFFICES ASSUME NEW u \in S, u = v \/ Before(u, v) PROVE Before(u, w)
  BY DEF UpTo
<1>1. u \in ws OBVIOUS
<1>2. u.id \in Nat /\ v.id \in Nat /\ w.id \in Nat /\ u.id <= v.id
  BY <1>1, OrderIsTime
<1>3. u.id < w.id BY <1>2
<1> QED BY <1>1, <1>3, OrderIsTime

(* What an engine can say is a sequence of words, one after another.       *)
LEMMA SayingIs ==
  ASSUME NEW words \in Sayings
  PROVE  /\ words \in Seq(Renderings) /\ Len(words) \in 0 .. MostWords
         /\ \A i \in 1 .. Len(words) :
              /\ words[i] \in Renderings
              /\ words[i] = [text |-> words[i].text,
                             start |-> words[i].start, end |-> words[i].end]
              /\ words[i].text \in Nat /\ words[i].start \in Nat /\ words[i].end \in Nat
              /\ words[i].start <= words[i].end
         /\ \A i, j \in 1 .. Len(words) : i < j => words[i].end <= words[j].start
<1>1. PICK n \in 0 .. MostWords : words \in [1 .. n -> Renderings] /\ OneAfterAnother(words)
  BY DEF Sayings
<1>2. n \in Nat /\ MostWords \in Nat
  BY ContractAssumption
<1>3. words \in Seq(Renderings) /\ Len(words) = n /\ DOMAIN words = 1 .. n
  BY <1>1, <1>2
<1>4. \A r \in Renderings : /\ r.text \in Nat /\ r.start \in Nat /\ r.end \in Nat
                            /\ r.start <= r.end
                            /\ r = [text |-> r.text, start |-> r.start, end |-> r.end]
  BY ContractAssumption
<1>5. \A i \in 1 .. n : words[i] \in Renderings
  BY <1>1
<1> QED
  BY <1>1, <1>2, <1>3, <1>4, <1>5 DEF OneAfterAnother

(* A hypothesis the engine contract allows is well heard, and says what    *)
(* the engine said.                                                        *)
LEMMA ContractHeard ==
  ASSUME NEW before, NEW words \in Sayings, NEW s \in Nat, NEW fragment \in BOOLEAN,
         NEW conf \in Confidences, NEW now \in Nat, CanSay(before, words, s, now),
         NEW h, h = Heard(words, s, fragment, conf)
  PROVE  /\ WellHeard(h, now)
         /\ h \in Hypothesis
         /\ SubSeq(words, 1, s) \in Seq(Renderings) /\ Len(SubSeq(words, 1, s)) = s
         /\ \A i \in 1 .. s : SubSeq(words, 1, s)[i] = words[i]
         /\ Voices(h, SubSeq(words, 1, s))
<1> DEFINE n == Len(words)
           word == [i \in 1 .. n |->
                      [id |-> i, text |-> words[i].text,
                       start |-> words[i].start, end |-> words[i].end,
                       whole |-> ~ (fragment /\ i = n) \/ i <= s, conf |-> conf[i]]]
           A == {word[i] : i \in 1 .. s}
           B == {word[i] : i \in (s + 1) .. n}
<1>1. /\ words \in Seq(Renderings) /\ n \in Nat /\ n <= MostWords /\ MostWords \in Nat
      /\ \A i \in 1 .. n :
           /\ words[i] \in Renderings
           /\ words[i].text \in Nat /\ words[i].start \in Nat /\ words[i].end \in Nat
           /\ words[i].start <= words[i].end
      /\ \A i, j \in 1 .. n : i < j => words[i].end <= words[j].start
  BY SayingIs, ContractAssumption
<1>2. s <= n /\ \A i \in 1 .. n : words[i].end <= now
  <2>1. DOMAIN words = 1 .. n BY <1>1
  <2> QED BY <2>1 DEF CanSay
<1>3. \A i \in 1 .. n : conf[i] \in 0 .. FullConfidence
  BY <1>1 DEF Confidences
<1>4. h.stable = A /\ h.tentative = B /\ h.fragment \in BOOLEAN
      /\ h = [stable |-> h.stable, tentative |-> h.tentative, fragment |-> h.fragment]
  <2>1. \A i \in 1 .. s : i \in 1 .. n BY <1>1, <1>2
  <2>2. \A i \in (s + 1) .. n : i \in 1 .. n BY <1>1, <1>2
  <2>3. /\ h = [stable |-> h.stable, tentative |-> h.tentative, fragment |-> h.fragment]
        /\ h.fragment = (fragment /\ s < n)
    BY DEF Heard
  <2>4. h.fragment \in BOOLEAN BY <2>3, Zenon
  <2>5. h.stable = A BY <2>1 DEF Heard
  <2>6. h.tentative = B BY <2>2 DEF Heard
  <2> QED BY <2>3, <2>4, <2>5, <2>6
<1>5. ASSUME NEW i \in 1 .. n
      PROVE  /\ word[i].id = i /\ word[i].text = words[i].text
             /\ word[i].start = words[i].start /\ word[i].end = words[i].end
             /\ word[i] \in Word
  <2>1. PICK b : b = (~ (fragment /\ i = n) \/ i <= s) OBVIOUS
  <2>2. b \in BOOLEAN BY <2>1, Zenon
  <2>3. word[i] = [id |-> i, text |-> words[i].text,
                   start |-> words[i].start, end |-> words[i].end,
                   whole |-> b, conf |-> conf[i]]
    BY <2>1
  <2>4. /\ i \in Nat /\ words[i].text \in Nat /\ words[i].start \in Nat
        /\ words[i].end \in Nat /\ conf[i] \in 0 .. FullConfidence
    BY <1>1, <1>3
  <2> HIDE DEF word, n
  <2> QED BY <2>2, <2>3, <2>4 DEF Word
<1>6. \A i \in 1 .. n : Rendering(word[i]) = words[i]
  BY <1>5, SayingIs DEF Rendering
<1> HIDE DEF word
<1>7. ASSUME NEW w \in A \cup B PROVE \E i \in 1 .. n : w = word[i]
  BY <1>1, <1>2, <1>7
<1>8. ASSUME NEW w \in A \cup B PROVE w \in Word /\ WellFormed(w, now)
  <2>1. PICK i \in 1 .. n : w = word[i] BY <1>7
  <2>2. w \in Word /\ w.start = words[i].start /\ w.end = words[i].end
    BY <1>5, <2>1
  <2>3. words[i].start <= words[i].end /\ words[i].end <= now
    BY <1>1, <1>2
  <2> QED BY <2>2, <2>3 DEF WellFormed, Word
<1>9. ASSUME NEW v \in A \cup B, NEW w \in A \cup B
      PROVE  /\ v.id = w.id => v = w
             /\ v.id < w.id => v.end <= w.start
  <2>1. PICK i \in 1 .. n : v = word[i] BY <1>7
  <2>2. PICK j \in 1 .. n : w = word[j] BY <1>7
  <2> QED BY <1>1, <1>5, <2>1, <2>2
<1>10. ASSUME NEW v \in A, NEW w \in B PROVE v.id < w.id
  <2>1. PICK i \in 1 .. s : v = word[i] OBVIOUS
  <2>2. PICK j \in (s + 1) .. n : w = word[j] OBVIOUS
  <2>3. i \in 1 .. n /\ j \in 1 .. n /\ i < j BY <1>1, <1>2
  <2> QED BY <1>5, <2>1, <2>2, <2>3
<1>11. SubSeq(words, 1, s) \in Seq(Renderings) /\ Len(SubSeq(words, 1, s)) = s
       /\ \A i \in 1 .. s : SubSeq(words, 1, s)[i] = words[i]
  <2>1. s <= Len(words) /\ words \in Seq(Renderings) BY <1>1, <1>2
  <2> HIDE DEF n
  <2> QED BY <2>1
<1>12. Voices(h, SubSeq(words, 1, s))
  <2>1. DOMAIN SubSeq(words, 1, s) = 1 .. s BY <1>11
  <2>2. \A i \in 1 .. s : i \in 1 .. n /\ word[i] \in h.stable
    BY <1>1, <1>2, <1>4
  <2>3. \A w \in h.stable : \E i \in 1 .. s : w = word[i]
    BY <1>4
  <2> HIDE DEF A, B, n
  <2>4. \A i \in 1 .. s : Rendering(word[i]) = SubSeq(words, 1, s)[i]
    BY <2>2, <1>6, <1>11
  <2> QED BY <2>1, <2>2, <2>3, <2>4 DEF Voices
<1> HIDE DEF A, B
<1>13. WellHeard(h, now)
  BY <1>4, <1>8, <1>9, <1>10 DEF WellHeard, Tiled, Words
<1>14. h \in Hypothesis
  <2>1. h.stable \subseteq Word /\ h.tentative \subseteq Word BY <1>4, <1>8
  <2> QED BY <1>4, <2>1 DEF Hypothesis
<1> QED BY <1>11, <1>12, <1>13, <1>14

(* Both ends move to f, which is the end of a word unless none moved.      *)
Agree(ws, frontier, f, now) ==
  /\ Admitted(ws, frontier, now) = ws
  /\ \A e \in LastEndAfter(frontier, ws) : e = f
  /\ f \in Nat /\ frontier <= f /\ f <= now
  /\ f = frontier \/ \E w \in ws : w.end = f

(* The log refuses none of the words the policy hands it together, and the *)
(* policy's frontier and the log's end move to the same place.             *)
LEMMA CommitAgrees ==
  ASSUME NEW ws, NEW now \in Nat, NEW frontier \in Nat, frontier <= now,
         InOrder(ws, frontier, now),
         NEW f \in FrontierAfter(frontier, ws)
  PROVE  Agree(ws, frontier, f, now)
<1>1. \A w \in ws : /\ w.start \in Nat /\ w.end \in Nat /\ w.id \in Nat
                    /\ w.start <= w.end /\ w.end <= now /\ frontier <= w.start
  BY DEF InOrder, Tiled, WellFormed
<1>3. \A v, w \in ws : Before(v, w) => v.end <= w.start
  <2> SUFFICES ASSUME NEW v \in ws, NEW w \in ws, Before(v, w) PROVE v.end <= w.start
    OBVIOUS
  <2>1. v.id < w.id BY OrderIsTime DEF InOrder
  <2> QED BY <2>1 DEF InOrder, Tiled
<1>4. \A w \in ws : ~ Refused(w, ws, frontier, now)
  <2> SUFFICES ASSUME NEW w \in ws PROVE ~ Refused(w, ws, frontier, now)
    OBVIOUS
  <2>1. ~ (w.end > now) /\ ~ (w.start < frontier) BY <1>1
  <2>2. \A v \in UpTo(w, ws) \ {w} : v \in ws /\ Before(v, w) BY DEF UpTo
  <2>3. \A v \in UpTo(w, ws) \ {w} : ~ (w.start < v.end) BY <2>2, <1>3, <1>1
  <2> QED BY <2>1, <2>3 DEF Refused
<1>5. Admitted(ws, frontier, now) = ws
  BY <1>4 DEF Admitted, UpTo
<1>6. f \in Nat /\ frontier <= f /\ f <= now /\ (f = frontier \/ \E w \in ws : w.end = f)
      /\ \A w \in ws : w.end <= f
  BY <1>1 DEF FrontierAfter
<1>7. ASSUME NEW e \in LastEndAfter(frontier, ws) PROVE e = f
  <2>1. CASE ws = {} BY <2>1, <1>6, <1>7 DEF LastEndAfter
  <2>2. CASE ws # {}
    <3>1. PICK w \in ws : UpTo(w, ws) = ws /\ e = w.end
      BY <2>2, <1>7 DEF LastEndAfter
    <3>2. \A v \in ws : v = w \/ Before(v, w) BY <3>1 DEF UpTo
    <3>3. \A v \in ws : v.end <= w.end BY <3>2, <1>3, <1>1
    <3> QED BY <3>1, <3>3, <1>6, <1>1
  <2> QED BY <2>1, <2>2
<1> QED BY <1>5, <1>6, <1>7 DEF Agree

(* Pending words of a well heard hypothesis are in order. *)
LEMMA PendingInOrder ==
  ASSUME NEW h, NEW now \in Nat, NEW frontier \in Nat, WellHeard(h, now),
         NEW S, S \subseteq Words(h), NEW ws, ws \subseteq Pending(S, frontier)
  PROVE  InOrder(ws, frontier, now) /\ ws \subseteq Words(h)
<1>1. \A w \in ws : w \in Words(h) /\ w.start >= frontier
  BY DEF Pending
<1>2. \A w \in ws : w.start \in Nat
  BY <1>1 DEF WellHeard, Tiled, WellFormed
<1>3. Tiled(ws, now)
  BY <1>1 DEF WellHeard, Tiled
<1> QED BY <1>1, <1>2, <1>3 DEF InOrder

(* What a commit of words in order does to the session. *)
LEMMA CommitEffect ==
  ASSUME CInv, NEW now \in Nat, at <= now, NEW ws, NEW held, NEW heard,
         InOrder(ws, policy.frontier, now), Commit(ws, held, heard, now)
  PROVE  /\ policy'.frontier \in Nat
         /\ policy.frontier <= policy'.frontier /\ policy'.frontier <= now
         /\ policy'.frontier = policy.frontier \/ \E w \in ws : w.end = policy'.frontier
         /\ lastEnd' = policy'.frontier
         /\ ~ raised' /\ raised' \in BOOLEAN
         /\ commits' = commits \cup {[word |-> Rendering(w), heard |-> heard] : w \in ws}
<1>1. policy.frontier \in Nat /\ policy.frontier <= now /\ at \in Nat
  BY DEF CInv, TypeOK
<1>2. lastEnd = policy.frontier BY DEF CInv, FrontiersAgree
<1>3. PICK f \in FrontierAfter(policy.frontier, ws) :
        policy' = [frontier |-> f, held |-> held]
  BY DEF Commit
<1>4. Agree(ws, policy.frontier, f, now)
  <2> DEFINE frontier == policy.frontier
  <2>1. frontier \in Nat /\ frontier <= now /\ InOrder(ws, frontier, now)
        /\ f \in FrontierAfter(frontier, ws)
    BY <1>1
  <2> HIDE DEF frontier
  <2>2. Agree(ws, frontier, f, now)
    BY <2>1, CommitAgrees
  <2> QED BY <2>2 DEF frontier
<1>6. Admitted(ws, lastEnd, now) = ws BY <1>2, <1>4 DEF Agree
<1>7. lastEnd' = f BY <1>2, <1>4, <1>6 DEF Commit, Agree
<1>8. raised' = FALSE BY <1>6 DEF Commit
<1>9. commits' = commits \cup {[word |-> Rendering(w), heard |-> heard] : w \in ws}
  BY <1>6 DEF Commit
<1>10. policy'.frontier = f BY <1>3
<1> QED BY <1>4, <1>7, <1>8, <1>9, <1>10 DEF Agree

(* What is well heard stays so as audio arrives. *)
LEMMA StillHeard ==
  ASSUME NEW h, NEW now \in Nat, NEW later \in Nat, now <= later, WellHeard(h, now)
  PROVE  WellHeard(h, later)
<1>1. \A w \in Words(h) : WellFormed(w, later)
  BY DEF WellHeard, Tiled, WellFormed
<1> QED BY <1>1 DEF WellHeard, Tiled

(* The words take hands over are in order. *)
LEMMA TakenInOrder ==
  ASSUME NEW h, NEW now \in Nat, WellHeard(h, now), NEW c, c.frontier \in Nat
  PROVE  InOrder(Taken(h, c, now), c.frontier, now) /\ Taken(h, c, now) \subseteq Words(h)
<1>1. h.stable \cup EarlyWords(h) \subseteq Words(h)
  BY DEF EarlyWords, Words
<1>2. Taken(h, c, now) \subseteq Pending(h.stable \cup EarlyWords(h), c.frontier)
  BY DEF Taken
<1> QED BY <1>1, <1>2, PendingInOrder

-----------------------------------------------------------------------------
(* The invariant of every session: types, agreement, nothing raised. *)
LEMMA CInit == Init => CInv
<1> SUFFICES ASSUME Init PROVE CInv OBVIOUS
<1>1. /\ at \in Nat /\ stable \in Seq(Renderings) /\ policy.frontier \in 0 .. at
      /\ commits = {} /\ lastEnd \in 0 .. at
  BY DEF Init, FreshCommit
<1>2. raised = FALSE /\ ended = FALSE /\ latest = None
  BY Zenon DEF Init
<1>3. FrontiersAgree
  BY DEF Init, FrontiersAgree, FreshCommit
<1>4. TypeOK
  <2>1. commits \subseteq [word : [text : Nat, start : Nat, end : Nat], heard : Nat]
    BY <1>1
  <2> QED BY <1>1, <1>2, <2>1, Zenon DEF TypeOK
<1> QED BY <1>2, <1>3, <1>4, Zenon DEF CInv, NothingRaised

(* What take is given, and what it commits of it. *)
LEMMA TakeHears ==
  ASSUME CInv, NEW d \in Steps, NEW words \in Sayings, NEW s \in 0 .. MostWords,
         NEW fragment \in BOOLEAN, NEW conf \in Confidences,
         Take(d, words, s, fragment, conf)
  PROVE  \E now \in Nat, h \in Hypothesis :
           /\ at <= now /\ at' = now /\ latest' = h /\ WellHeard(h, now)
           /\ Voices(h, stable') /\ stable' \in Seq(Renderings)
           /\ Len(stable) <= Len(stable') /\ Len(stable') = s
           /\ \A i \in 1 .. Len(stable) : stable'[i] = stable[i]
           /\ \A i, j \in 1 .. s : i < j => stable'[i].end <= stable'[j].start
           /\ InOrder(Taken(h, policy, now), policy.frontier, now)
           /\ Taken(h, policy, now) \subseteq Words(h)
           /\ Commit(Taken(h, policy, now), HeldAfter(h, policy, now), s, now)
           /\ ended' = ended /\ ended = FALSE /\ s \in Nat
<1> DEFINE now == at + d
           h == Heard(words, s, fragment, conf)
<1>0. /\ at \in Nat /\ policy.frontier \in Nat /\ stable \in Seq(Renderings)
      /\ ended \in BOOLEAN
  BY DEF CInv, TypeOK
<1>1. d \in Nat /\ now \in Nat /\ at <= now /\ at' = now /\ stable' = SubSeq(words, 1, s)
      /\ latest' = h /\ ended' = ended /\ CanSay(stable, words, s, now)
      /\ Commit(Taken(h, policy, now), HeldAfter(h, policy, now), s, now)
  BY <1>0, SessionAssumption DEF Take
<1>2. ended = FALSE
  BY <1>0 DEF Take, Running
<1>3. s \in Nat
  BY ContractAssumption
<1> HIDE DEF now, h
<1>4. h = Heard(words, s, fragment, conf)
  BY DEF h
<1>5. /\ WellHeard(h, now) /\ h \in Hypothesis
      /\ SubSeq(words, 1, s) \in Seq(Renderings) /\ Len(SubSeq(words, 1, s)) = s
      /\ \A i \in 1 .. s : SubSeq(words, 1, s)[i] = words[i]
      /\ Voices(h, SubSeq(words, 1, s))
  BY <1>1, <1>3, <1>4, ContractHeard
<1>6. /\ Len(stable) \in Nat /\ Len(stable) <= s /\ s <= Len(words)
      /\ \A i \in 1 .. Len(stable) : words[i] = stable[i]
  BY <1>0, <1>1 DEF CanSay
<1>7. \A i \in 1 .. Len(stable) : i \in 1 .. s
  BY <1>3, <1>6
<1>8. \A i \in 1 .. Len(stable) : stable'[i] = stable[i]
  BY <1>1, <1>5, <1>6, <1>7
<1>9. \A i, j \in 1 .. s : i < j => stable'[i].end <= stable'[j].start
  <2>1. Len(words) \in Nat /\ \A i \in 1 .. s : i \in 1 .. Len(words)
    BY <1>3, <1>6, SayingIs
  <2> QED BY <1>1, <1>5, <2>1, SayingIs
<1>10. InOrder(Taken(h, policy, now), policy.frontier, now)
       /\ Taken(h, policy, now) \subseteq Words(h)
  BY <1>0, <1>1, <1>5, TakenInOrder
<1> QED BY <1>1, <1>2, <1>3, <1>5, <1>6, <1>8, <1>9, <1>10

(* What flush is given, and what it commits of it. *)
LEMMA FlushHears ==
  ASSUME CInv, NEW words \in Sayings, NEW conf \in Confidences, Flush(words, conf)
  PROVE  \E h \in Hypothesis :
           /\ WellHeard(h, at) /\ Voices(h, stable') /\ h.tentative = {}
           /\ stable' \in Seq(Renderings)
           /\ Len(stable) <= Len(stable')
           /\ \A i \in 1 .. Len(stable) : stable'[i] = stable[i]
           /\ \A i, j \in 1 .. Len(stable') : i < j => stable'[i].end <= stable'[j].start
           /\ InOrder(Pending(Words(h), policy.frontier), policy.frontier, at)
           /\ Commit(Pending(Words(h), policy.frontier), None, Len(stable'), at)
           /\ ended' = TRUE /\ UNCHANGED <<at, latest>>
<1> DEFINE s == Len(words)
           h == Heard(words, s, FALSE, conf)
<1>0. at \in Nat /\ policy.frontier \in Nat /\ stable \in Seq(Renderings)
  BY DEF CInv, TypeOK
<1>1. /\ stable' = words /\ CanSay(stable, words, s, at)
      /\ Commit(Flushed(h, policy), None, s, at)
      /\ ended' = TRUE /\ UNCHANGED <<at, latest>>
  BY DEF Flush
<1>2. /\ s \in Nat /\ words \in Seq(Renderings)
      /\ \A i, j \in 1 .. s : i < j => words[i].end <= words[j].start
  BY SayingIs, ContractAssumption
<1>3. h.tentative = {}
  BY <1>2 DEF Heard
<1>4. Flushed(h, policy) = Pending(Words(h), policy.frontier)
  BY DEF Flushed, Words
<1>5. SubSeq(words, 1, s) = words
  BY <1>2
<1>6. /\ Len(stable) <= s
      /\ \A i \in 1 .. Len(stable) : words[i] = stable[i]
  BY <1>0, <1>1 DEF CanSay
<1> HIDE DEF h, s
<1>7. h = Heard(words, s, FALSE, conf)
  BY DEF h
<1>8. WellHeard(h, at) /\ h \in Hypothesis /\ Voices(h, words)
  <2>1. CanSay(stable, words, s, at) /\ FALSE \in BOOLEAN
    BY <1>1
  <2>2. WellHeard(h, at) /\ h \in Hypothesis /\ Voices(h, SubSeq(words, 1, s))
    BY ONLY <1>0, <1>2, <1>7, <2>1, words \in Sayings, conf \in Confidences, ContractHeard
  <2> QED BY <1>5, <2>2
<1>9. InOrder(Pending(Words(h), policy.frontier), policy.frontier, at)
  BY <1>0, <1>8, PendingInOrder
<1>10. Len(stable') = s
  BY <1>1 DEF s
<1> QED BY <1>1, <1>2, <1>3, <1>4, <1>6, <1>8, <1>9, <1>10

(* What settle commits. *)
LEMMA SettleHears ==
  ASSUME CInv, Settle
  PROVE  /\ WellHeard(latest, at) /\ Voices(latest, stable)
         /\ InOrder(Settled(latest, policy), policy.frontier, at)
         /\ Settled(latest, policy) \subseteq Words(latest)
         /\ Commit(Settled(latest, policy), None, Len(stable), at)
         /\ UNCHANGED <<at, stable, latest, ended>>
         /\ CanSettle /\ latest # None /\ ended = FALSE
<1>0. at \in Nat /\ policy.frontier \in Nat /\ ended \in BOOLEAN
  BY DEF CInv, TypeOK
<1>1. latest # None /\ ended = FALSE
  BY <1>0 DEF Settle, Running
<1>2. WellHeard(latest, at) /\ Voices(latest, stable) BY <1>1 DEF CInv
<1>3. InOrder(Settled(latest, policy), policy.frontier, at)
      /\ Settled(latest, policy) \subseteq Words(latest)
  BY <1>0, <1>2, PendingInOrder DEF Settled, Words
<1> QED BY <1>1, <1>2, <1>3 DEF Settle

(* A commit leaves the positions and the record typed and in agreement. *)
LEMMA CommitTypes ==
  ASSUME CInv, NEW now \in Nat, at <= now, NEW ws, NEW held, NEW heard \in Nat,
         InOrder(ws, policy.frontier, now), Commit(ws, held, heard, now)
  PROVE  /\ policy'.frontier \in 0 .. now /\ lastEnd' = policy'.frontier
         /\ ~ raised' /\ raised' \in BOOLEAN
         /\ commits' \subseteq [word : [text : Nat, start : Nat, end : Nat], heard : Nat]
<1>1. \A w \in ws : Rendering(w) \in [text : Nat, start : Nat, end : Nat]
  BY DEF InOrder, Tiled, WellFormed, Rendering
<1>2. /\ policy'.frontier \in 0 .. now /\ lastEnd' = policy'.frontier
      /\ ~ raised' /\ raised' \in BOOLEAN
      /\ commits' = commits \cup {[word |-> Rendering(w), heard |-> heard] : w \in ws}
  BY CommitEffect
<1>3. commits \subseteq [word : [text : Nat, start : Nat, end : Nat], heard : Nat]
  BY DEF CInv, TypeOK
<1> QED BY <1>1, <1>2, <1>3

(* Every step of the session preserves it. *)
LEMMA CStep == CInv /\ [Next]_vars => CInv'
<1> SUFFICES ASSUME CInv, [Next]_vars PROVE CInv' OBVIOUS
<1>0. at \in Nat /\ stable \in Seq(Renderings) /\ TypeOK
  BY DEF TypeOK, CInv
<1>1. ASSUME NEW d \in Steps, Blank(d) PROVE CInv'
  <2>1. d \in Nat /\ at' = at + d /\ at' \in Nat /\ at <= at'
    BY <1>1, <1>0, SessionAssumption DEF Blank
  <2>2. UNCHANGED <<stable, latest, policy, commits, lastEnd, raised, ended>>
    BY <1>1 DEF Blank
  <2>3. TypeOK' BY <2>1, <2>2, <1>0 DEF TypeOK
  <2>4. (latest # None => WellHeard(latest, at))'
    BY <1>0, <2>1, <2>2, StillHeard DEF CInv
  <2>5. (latest # None /\ ~ ended => Voices(latest, stable))'
    BY <2>2 DEF CInv
  <2> QED BY <2>2, <2>3, <2>4, <2>5 DEF CInv, FrontiersAgree, NothingRaised
<1>2. ASSUME NEW d \in Steps, NEW words \in Sayings, NEW s \in 0 .. MostWords,
             NEW fragment \in BOOLEAN, NEW conf \in Confidences,
             Take(d, words, s, fragment, conf)
      PROVE  CInv'
  <2>1. PICK now \in Nat, h \in Hypothesis :
           /\ at <= now /\ at' = now /\ latest' = h /\ WellHeard(h, now)
           /\ Voices(h, stable') /\ stable' \in Seq(Renderings)
           /\ InOrder(Taken(h, policy, now), policy.frontier, now)
           /\ Commit(Taken(h, policy, now), HeldAfter(h, policy, now), s, now)
           /\ ended' = ended /\ s \in Nat
    BY <1>2, TakeHears
  <2>2. /\ policy'.frontier \in 0 .. now /\ lastEnd' = policy'.frontier
        /\ ~ raised' /\ raised' \in BOOLEAN
        /\ commits' \subseteq [word : [text : Nat, start : Nat, end : Nat], heard : Nat]
    BY <2>1, CommitTypes
  <2>3. TypeOK' BY <2>1, <2>2, <1>0 DEF TypeOK
  <2> QED BY <2>1, <2>2, <2>3 DEF CInv, FrontiersAgree, NothingRaised
<1>3. ASSUME Settle PROVE CInv'
  <2>1. /\ WellHeard(latest, at) /\ Voices(latest, stable)
        /\ InOrder(Settled(latest, policy), policy.frontier, at)
        /\ Commit(Settled(latest, policy), None, Len(stable), at)
        /\ UNCHANGED <<at, stable, latest, ended>>
    BY <1>3, SettleHears
  <2>2. /\ policy'.frontier \in 0 .. at /\ lastEnd' = policy'.frontier
        /\ ~ raised' /\ raised' \in BOOLEAN
        /\ commits' \subseteq [word : [text : Nat, start : Nat, end : Nat], heard : Nat]
    BY <2>1, <1>0, CommitTypes
  <2>3. TypeOK' BY <2>1, <2>2, <1>0 DEF TypeOK
  <2> QED BY <2>1, <2>2, <2>3 DEF CInv, FrontiersAgree, NothingRaised
<1>4. ASSUME NEW words \in Sayings, NEW conf \in Confidences, Flush(words, conf)
      PROVE  CInv'
  <2>1. PICK h \in Hypothesis :
           /\ stable' \in Seq(Renderings)
           /\ InOrder(Pending(Words(h), policy.frontier), policy.frontier, at)
           /\ Commit(Pending(Words(h), policy.frontier), None, Len(stable'), at)
           /\ ended' = TRUE /\ UNCHANGED <<at, latest>>
    BY <1>4, FlushHears
  <2>2. /\ policy'.frontier \in 0 .. at /\ lastEnd' = policy'.frontier
        /\ ~ raised' /\ raised' \in BOOLEAN
        /\ commits' \subseteq [word : [text : Nat, start : Nat, end : Nat], heard : Nat]
    BY <2>1, <1>0, CommitTypes
  <2>3. TypeOK' BY <2>1, <2>2, <1>0 DEF TypeOK
  <2> QED BY <2>1, <2>2, <2>3 DEF CInv, FrontiersAgree, NothingRaised
<1>5. CASE UNCHANGED vars
  BY <1>5 DEF vars, CInv, TypeOK, FrontiersAgree, NothingRaised
<1> QED BY <1>1, <1>2, <1>3, <1>4, <1>5 DEF Next

(* CInv holds of every reachable state. *)
LEMMA CInvariance == Spec => []CInv
BY CInit, CStep, PTL DEF Spec

(* Types are kept: in particular the frontier and the log's end never pass *)
(* the audio pushed so far.                                                *)
THEOREM TypeCorrect == Spec => []TypeOK
<1>1. CInv => TypeOK BY DEF CInv
<1> QED BY <1>1, CInvariance, PTL

(* An engine that keeps the contract of engines/base.py never trips the    *)
(* timestamp check of _emit_words or the append-only check of the log,     *)
(* whichever of take, settle and flush released the words and however the  *)
(* engine revises what is still tentative.                                 *)
THEOREM NothingEverRaised == Spec => []NothingRaised
<1>1. CInv => NothingRaised BY DEF CInv
<1> QED BY <1>1, CInvariance, PTL

-----------------------------------------------------------------------------
(* A set of words that leaves out no earlier word of the hypothesis. *)
Gapless(ws, h) ==
  \A w \in ws, v \in Words(h) :
    v.id < w.id => \/ v.start < policy.frontier
                   \/ Committed(Rendering(v))
                   \/ v \in ws

(* take considers its candidates in time order and stops at the first one  *)
(* that is not ripe, so it leaves out no earlier word.                     *)
LEMMA TakenGapless ==
  ASSUME NEW h, NEW now \in Nat, WellHeard(h, now), policy.frontier \in Nat
  PROVE  Gapless(Taken(h, policy, now), h)
<1> DEFINE candidates == h.stable \cup EarlyWords(h)
           waiting == Pending(candidates, policy.frontier)
           ws == Taken(h, policy, now)
<1>1. ws = {w \in waiting : \A v \in UpTo(w, waiting) : Ripe(v, policy.held, now)}
  BY DEF Taken
<1>2. waiting = {w \in candidates : w.start >= policy.frontier}
  BY DEF Pending
<1>3. candidates \subseteq Words(h) /\ EarlyWords(h) \subseteq h.tentative
      /\ h.tentative \subseteq Words(h)
  BY DEF EarlyWords, Words
<1>4. Tiled(Words(h), now)
  BY DEF WellHeard
<1> SUFFICES ASSUME NEW w \in ws, NEW v \in Words(h), v.id < w.id,
                    ~ (v.start < policy.frontier)
             PROVE  v \in ws
  BY DEF Gapless
<1>5. w \in waiting /\ w \in candidates /\ w \in Words(h) BY <1>1, <1>2, <1>3
<1>6. v.start \in Nat /\ v.id \in Nat /\ w.id \in Nat
  BY <1>4, <1>5 DEF Tiled, WellFormed
<1>7. v \in candidates
  <2>1. CASE v \in h.stable BY <2>1
  <2>2. CASE v \in h.tentative
    <3>1. w \notin h.stable
      <4> SUFFICES ASSUME w \in h.stable PROVE FALSE OBVIOUS
      <4>1. w.id < v.id BY <2>2 DEF WellHeard
      <4> QED BY <4>1, <1>6
    <3>2. w \in EarlyWords(h) BY <3>1, <1>5
    <3>3. UpTo(v, h.tentative) \subseteq UpTo(w, h.tentative)
      BY <1>3, <1>4, <1>5, UpToGrows
    <3> QED BY <3>2, <3>3, <2>2 DEF EarlyWords
  <2> QED BY <2>1, <2>2 DEF Words
<1>8. v \in waiting
  <2>1. v.start >= policy.frontier BY <1>6
  <2> HIDE DEF candidates
  <2> QED BY <1>2, <1>7, <2>1
<1>9. waiting \subseteq Words(h) BY <1>2, <1>3
<1>10. UpTo(v, waiting) \subseteq UpTo(w, waiting)
  <2> HIDE DEF waiting
  <2> QED BY <1>4, <1>5, <1>9, UpToGrows
<1> QED BY <1>1, <1>5, <1>8, <1>10

(* Where nothing is held back, take leaves no stable word uncommitted. *)
LEMMA StableTaken ==
  ASSUME ConfidenceGate <= 0, NEW h \in Hypothesis, NEW now \in Nat, WellHeard(h, now),
         policy.frontier \in Nat, NEW w \in h.stable
  PROVE  w \in Taken(h, policy, now) \/ w.start < policy.frontier
<1> DEFINE waiting == Pending(h.stable \cup EarlyWords(h), policy.frontier)
<1>1. \A v \in waiting : Ripe(v, policy.held, now)
  <2> SUFFICES ASSUME NEW v \in waiting PROVE v.conf >= ConfidenceGate
    BY DEF Ripe
  <2>1. v \in Word BY DEF Pending, EarlyWords, Hypothesis
  <2> QED BY <2>1, CommitAssumption DEF Word
<1>2. w.start \in Nat
  BY DEF WellHeard, Tiled, WellFormed, Words
<1>3. CASE w.start >= policy.frontier
  <2>1. w \in waiting BY <1>3 DEF Pending
  <2> QED BY <2>1, <1>1 DEF Taken, UpTo
<1> QED BY <1>2, <1>3

-----------------------------------------------------------------------------
(* What NoHoles says of a step. *)
Fills ==
  \A r \in Believed' :
    r.start < policy'.frontier => r.start < policy.frontier \/ Committed(r)'

(* A commit that leaves out no earlier word fills. *)
LEMMA GaplessFills ==
  ASSUME CInv, NEW now \in Nat, at <= now, NEW h, WellHeard(h, now),
         NEW ws, ws \subseteq Words(h), InOrder(ws, policy.frontier, now), Gapless(ws, h),
         NEW held, NEW heard, Commit(ws, held, heard, now),
         \A r \in Believed' : \E v \in Words(h) : r = Rendering(v)
  PROVE  Fills
<1>1. /\ policy.frontier \in Nat /\ policy'.frontier \in Nat
      /\ policy'.frontier = policy.frontier \/ \E w \in ws : w.end = policy'.frontier
      /\ commits' = commits \cup {[word |-> Rendering(w), heard |-> heard] : w \in ws}
  BY CommitEffect DEF CInv, TypeOK
<1>2. Tiled(Words(h), now) BY DEF WellHeard
<1> SUFFICES ASSUME NEW r \in Believed', r.start < policy'.frontier,
                    ~ (r.start < policy.frontier)
             PROVE  Committed(r)'
  BY DEF Fills
<1>3. PICK v \in Words(h) : r = Rendering(v) OBVIOUS
<1>4. v.start = r.start /\ v.start \in Nat /\ v.id \in Nat
  BY <1>2, <1>3 DEF Rendering, Tiled, WellFormed
<1>5. PICK w \in ws : w.end = policy'.frontier
  BY <1>1, <1>4
<1>6. w \in Words(h) /\ w.id \in Nat /\ w.end \in Nat
  BY <1>2 DEF Tiled, WellFormed
<1>7. ~ (w.id < v.id)
  <2> SUFFICES ASSUME w.id < v.id PROVE FALSE OBVIOUS
  <2>1. w.end <= v.start BY <1>2, <1>6 DEF Tiled
  <2> QED BY <2>1, <1>4, <1>5, <1>6
<1>8. v \in ws \/ Committed(r)
  <2>1. CASE v.id = w.id
    <3>1. v = w BY <2>1, <1>2, <1>6 DEF Tiled
    <3> QED BY <3>1
  <2>2. CASE v.id < w.id
    BY <2>2, <1>3, <1>4 DEF Gapless
  <2> QED BY <2>1, <2>2, <1>4, <1>6, <1>7
<1>9. \E c \in commits' : c.word = r
  <2>1. CASE v \in ws
    <3>1. [word |-> Rendering(v), heard |-> heard] \in commits' BY <2>1, <1>1
    <3> QED BY <3>1, <1>3
  <2>2. CASE Committed(r)
    BY <2>2, <1>1 DEF Committed
  <2> QED BY <1>8, <2>1, <2>2
<1> QED BY <1>9 DEF Committed

-----------------------------------------------------------------------------
(* Settle can only skip a stable word that take has held back, so a policy *)
(* that holds nothing, or a session without a VAD, has no holes.           *)
NeverSkips == ConfidenceGate <= 0 \/ ~ CanSettle

(* No stable word waits for take where settle could pass it. *)
NothingWaits ==
  CanSettle /\ latest # None /\ ~ ended =>
    \A i \in DOMAIN stable : stable[i].start < policy.frontier \/ Committed(stable[i])

(* The frontier is the end of a commit. *)
Reached == policy.frontier = 0 \/ \E c \in commits : c.word.end = policy.frontier

Kept(i) == Committed(stable[i]) \/ \E c \in commits : Obstructs(c, i)

(* Every stable word the frontier has passed is committed or obstructed. *)
PassedKept ==
  /\ Reached
  /\ \A c \in commits : c.heard <= Len(stable)
  /\ \A i \in DOMAIN stable : stable[i].start < policy.frontier => Kept(i)

HoleInv == NothingWaits /\ PassedKept /\ NothingLost

(* The inductive step of PassedKept: a word that becomes stable behind the *)
(* frontier is obstructed by the commit the frontier is the end of.        *)
LEMMA CommitKeeps ==
  ASSUME CInv, PassedKept, Fills, NEW now \in Nat, at <= now,
         stable' \in Seq(Renderings), Len(stable) <= Len(stable'),
         \A i \in 1 .. Len(stable) : stable'[i] = stable[i],
         \A i, j \in 1 .. Len(stable') :
           i < j /\ j > Len(stable) => stable'[i].end <= stable'[j].start,
         NEW ws, NEW held, InOrder(ws, policy.frontier, now),
         Commit(ws, held, Len(stable'), now)
  PROVE  /\ PassedKept'
         /\ \A r : Committed(r) => Committed(r)'
         /\ \A w \in ws : Committed(Rendering(w))'
         /\ policy.frontier \in Nat /\ policy'.frontier \in Nat
         /\ policy.frontier <= policy'.frontier
<1> DEFINE s == Len(stable)
           t == Len(stable')
<1>1. /\ policy.frontier \in Nat /\ policy'.frontier \in Nat
      /\ policy.frontier <= policy'.frontier
      /\ policy'.frontier = policy.frontier \/ \E w \in ws : w.end = policy'.frontier
      /\ commits' = commits \cup {[word |-> Rendering(w), heard |-> t] : w \in ws}
  BY CommitEffect DEF CInv, TypeOK
<1>2. /\ s \in Nat /\ t \in Nat /\ DOMAIN stable = 1 .. s /\ DOMAIN stable' = 1 .. t
      /\ s <= t
  BY DEF CInv, TypeOK
<1>3. \A i \in 1 .. t : stable'[i].start \in Nat /\ stable'[i].end \in Nat
  BY <1>2, ContractAssumption
<1>4. \A w \in ws : [word |-> Rendering(w), heard |-> t] \in commits'
  BY <1>1
<1>5. \A r : Committed(r) => Committed(r)'
  BY <1>1 DEF Committed
<1>6. \A w \in ws : Committed(Rendering(w))'
  BY <1>4 DEF Committed
<1>7. \A c \in commits : /\ c \in commits' /\ c.heard \in Nat /\ c.heard <= s
                         /\ c.word.end \in Nat
  BY <1>1 DEF CInv, TypeOK, PassedKept
<1>8. Reached'
  <2>1. CASE policy'.frontier = policy.frontier
    BY <2>1, <1>1 DEF Reached, PassedKept
  <2>2. ASSUME NEW w \in ws, w.end = policy'.frontier PROVE Reached'
    <3>1. Rendering(w).end = w.end BY DEF Rendering
    <3> QED BY <2>2, <3>1, <1>4 DEF Reached
  <2> QED BY <2>1, <2>2, <1>1
<1>9. \A c \in commits' : c.heard <= t
  BY <1>1, <1>2, <1>7
<1>10. ASSUME NEW i \in 1 .. t, stable'[i].start < policy'.frontier PROVE Kept(i)'
  <2>1. CASE ~ (stable'[i].start < policy.frontier)
    <3>1. stable'[i] \in Believed' BY <1>2 DEF Believed
    <3> QED BY <2>1, <3>1, <1>10 DEF Fills, Kept
  <2>2. CASE stable'[i].start < policy.frontier /\ i \in 1 .. s
    <3>1. Kept(i) BY <2>2, <1>2 DEF PassedKept
    <3>2. CASE Committed(stable[i]) BY <3>2, <2>2, <1>5 DEF Kept
    <3>3. ASSUME NEW c \in commits, Obstructs(c, i) PROVE Obstructs(c, i)'
      <4>1. \A k \in 1 .. c.heard : k \in 1 .. s BY <1>2, <1>7
      <4> QED BY <2>2, <3>3, <4>1 DEF Obstructs, Guessed
    <3> QED BY <3>1, <3>2, <3>3, <1>7 DEF Kept
  <2>3. CASE stable'[i].start < policy.frontier /\ i \notin 1 .. s
    <3>1. PICK c \in commits : c.word.end = policy.frontier
      BY <2>3, <1>1, <1>3 DEF PassedKept, Reached
    <3>2. c.heard < i BY <2>3, <1>2, <1>7
    <3>3. ASSUME NEW k \in 1 .. c.heard PROVE c.word # stable'[k]
      <4>1. k \in 1 .. t /\ k < i BY <3>2, <1>2, <1>7
      <4>2. stable'[k].end <= stable'[i].start BY <4>1, <2>3, <1>2
      <4> QED BY <4>1, <4>2, <3>1, <2>3, <1>1, <1>3
    <3>4. Obstructs(c, i)'
      BY <2>3, <3>1, <3>2, <3>3 DEF Obstructs, Guessed
    <3> QED BY <3>4, <1>7 DEF Kept
  <2> QED BY <2>1, <2>2, <2>3
<1>11. PassedKept'
  BY <1>2, <1>8, <1>9, <1>10 DEF PassedKept
<1> QED BY <1>1, <1>5, <1>6, <1>11

(* A step of each kind fills, and keeps HoleInv. *)
LEMMA TakeKeeps ==
  ASSUME NeverSkips, CInv, HoleInv,
         NEW d \in Steps, NEW words \in Sayings, NEW s \in 0 .. MostWords,
         NEW fragment \in BOOLEAN, NEW conf \in Confidences,
         Take(d, words, s, fragment, conf)
  PROVE  Fills /\ HoleInv'
<1>0. policy.frontier \in Nat BY DEF CInv, TypeOK
<1>1. PICK now \in Nat, h \in Hypothesis :
        /\ at <= now /\ at' = now /\ latest' = h /\ WellHeard(h, now)
        /\ Voices(h, stable') /\ stable' \in Seq(Renderings)
        /\ Len(stable) <= Len(stable') /\ Len(stable') = s
        /\ \A i \in 1 .. Len(stable) : stable'[i] = stable[i]
        /\ \A i, j \in 1 .. s : i < j => stable'[i].end <= stable'[j].start
        /\ InOrder(Taken(h, policy, now), policy.frontier, now)
        /\ Taken(h, policy, now) \subseteq Words(h)
        /\ Commit(Taken(h, policy, now), HeldAfter(h, policy, now), s, now)
        /\ ended' = ended /\ ended = FALSE /\ s \in Nat
  BY TakeHears
<1> DEFINE ws == Taken(h, policy, now)
           held == HeldAfter(h, policy, now)
<1>2. InOrder(ws, policy.frontier, now) /\ ws \subseteq Words(h)
      /\ Commit(ws, held, s, now) /\ Gapless(ws, h)
  BY <1>0, <1>1, TakenGapless
<1>3. ASSUME ConfidenceGate <= 0
      PROVE  \A w \in h.stable : w \in ws \/ w.start < policy.frontier
  BY <1>0, <1>1, <1>3, StableTaken
<1> HIDE DEF ws, held
<1>4. \A r \in Believed' : \E v \in Words(h) : r = Rendering(v)
  BY <1>1 DEF Believed, Voices, Words
<1>5. Fills
  BY <1>1, <1>2, <1>4, GaplessFills
<1>6. /\ PassedKept'
      /\ \A w \in ws : Committed(Rendering(w))'
      /\ policy.frontier \in Nat /\ policy'.frontier \in Nat
      /\ policy.frontier <= policy'.frontier
  BY <1>1, <1>2, <1>5, CommitKeeps DEF HoleInv
<1>7. NothingWaits'
  <2> SUFFICES ASSUME CanSettle, NEW i \in DOMAIN stable'
               PROVE  stable'[i].start < policy'.frontier \/ Committed(stable[i])'
    BY DEF NothingWaits
  <2>1. PICK w \in h.stable : Rendering(w) = stable'[i]
    BY <1>1 DEF Voices
  <2>2. w.start = stable'[i].start /\ w.start \in Nat
    BY <1>1, <2>1 DEF Rendering, WellHeard, Tiled, WellFormed, Words
  <2>3. w \in ws \/ w.start < policy.frontier
    BY <1>3 DEF NeverSkips
  <2> QED BY <1>6, <2>1, <2>2, <2>3
<1>8. NothingLost'
  BY <1>1 DEF NothingLost
<1> QED BY <1>5, <1>6, <1>7, <1>8 DEF HoleInv

LEMMA SettleKeeps ==
  ASSUME NeverSkips, CInv, HoleInv, Settle
  PROVE  Fills /\ HoleInv'
<1>0. at \in Nat /\ policy.frontier \in Nat /\ stable \in Seq(Renderings)
  BY DEF CInv, TypeOK
<1>1. /\ WellHeard(latest, at) /\ Voices(latest, stable)
      /\ InOrder(Settled(latest, policy), policy.frontier, at)
      /\ Settled(latest, policy) \subseteq Words(latest)
      /\ Commit(Settled(latest, policy), None, Len(stable), at)
      /\ UNCHANGED <<at, stable, latest, ended>>
      /\ CanSettle /\ latest # None /\ ended = FALSE
  BY SettleHears
<1> DEFINE ws == Settled(latest, policy)
<1>2. \A w \in latest.stable : w.start < policy.frontier \/ Committed(Rendering(w))
  <2> SUFFICES ASSUME NEW w \in latest.stable
               PROVE  w.start < policy.frontier \/ Committed(Rendering(w))
    OBVIOUS
  <2>1. PICK i \in DOMAIN stable : Rendering(w) = stable[i]
    BY <1>1 DEF Voices
  <2>2. stable[i].start < policy.frontier \/ Committed(stable[i])
    BY <1>1 DEF HoleInv, NothingWaits
  <2>3. w.start = stable[i].start
    BY <2>1 DEF Rendering
  <2> QED BY <2>1, <2>2, <2>3
<1>3. Gapless(ws, latest)
  <2> SUFFICES ASSUME NEW v \in latest.tentative, ~ (v.start < policy.frontier)
               PROVE  v \in ws
    BY <1>2 DEF Gapless, Words
  <2>1. v.start \in Nat BY <1>1 DEF WellHeard, Tiled, WellFormed, Words
  <2> QED BY <1>0, <2>1 DEF Settled, Pending
<1>4. InOrder(ws, policy.frontier, at) /\ ws \subseteq Words(latest)
      /\ Commit(ws, None, Len(stable), at)
  BY <1>1
<1> HIDE DEF ws
<1>5. \A r \in Believed' : \E v \in Words(latest) : r = Rendering(v)
  BY <1>1 DEF Believed, Voices, Words
<1>6. Fills
  BY <1>0, <1>1, <1>3, <1>4, <1>5, GaplessFills
<1>7. /\ stable' \in Seq(Renderings) /\ Len(stable') = Len(stable)
      /\ Len(stable) <= Len(stable')
      /\ \A i \in 1 .. Len(stable) : stable'[i] = stable[i]
  BY <1>0, <1>1
<1>8. \A i, j \in 1 .. Len(stable') :
        i < j /\ j > Len(stable) => stable'[i].end <= stable'[j].start
  BY <1>0, <1>7
<1>9. Commit(ws, None, Len(stable'), at)
  BY <1>4, <1>7
<1>10. /\ PassedKept'
       /\ \A r : Committed(r) => Committed(r)'
       /\ policy.frontier \in Nat /\ policy'.frontier \in Nat
       /\ policy.frontier <= policy'.frontier
  BY <1>0, <1>4, <1>6, <1>7, <1>8, <1>9, CommitKeeps DEF HoleInv
<1>11. NothingWaits'
  <2> SUFFICES ASSUME NEW i \in DOMAIN stable
               PROVE  stable[i].start < policy'.frontier \/ Committed(stable[i])'
    BY <1>1 DEF NothingWaits
  <2>1. stable[i].start < policy.frontier \/ Committed(stable[i])
    BY <1>1 DEF HoleInv, NothingWaits
  <2>2. stable[i].start \in Nat
    BY <1>0, ContractAssumption
  <2> QED BY <1>1, <1>10, <2>1, <2>2
<1>12. NothingLost'
  BY <1>1 DEF NothingLost
<1> QED BY <1>6, <1>10, <1>11, <1>12 DEF HoleInv

LEMMA FlushKeeps ==
  ASSUME CInv, HoleInv, NEW words \in Sayings, NEW conf \in Confidences, Flush(words, conf)
  PROVE  Fills /\ HoleInv'
<1>0. at \in Nat /\ policy.frontier \in Nat BY DEF CInv, TypeOK
<1>1. PICK h \in Hypothesis :
        /\ WellHeard(h, at) /\ Voices(h, stable') /\ h.tentative = {}
        /\ stable' \in Seq(Renderings)
        /\ Len(stable) <= Len(stable')
        /\ \A i \in 1 .. Len(stable) : stable'[i] = stable[i]
        /\ \A i, j \in 1 .. Len(stable') : i < j => stable'[i].end <= stable'[j].start
        /\ InOrder(Pending(Words(h), policy.frontier), policy.frontier, at)
        /\ Commit(Pending(Words(h), policy.frontier), None, Len(stable'), at)
        /\ ended' = TRUE /\ UNCHANGED <<at, latest>>
  BY FlushHears
<1> DEFINE ws == Pending(Words(h), policy.frontier)
<1>2. \A v \in Words(h) : v \in ws \/ v.start < policy.frontier
  BY <1>0, <1>1 DEF Pending, WellHeard, Tiled, WellFormed
<1>3. /\ ws \subseteq Words(h) /\ Gapless(ws, h)
      /\ InOrder(ws, policy.frontier, at) /\ Commit(ws, None, Len(stable'), at)
  BY <1>1, <1>2 DEF Gapless, Pending
<1> HIDE DEF ws
<1>4. \A r \in Believed' : \E v \in Words(h) : r = Rendering(v)
  BY <1>1 DEF Believed, Voices, Words
<1>5. Fills
  BY <1>0, <1>1, <1>3, <1>4, GaplessFills
<1>6. /\ PassedKept'
      /\ \A w \in ws : Committed(Rendering(w))'
      /\ policy.frontier \in Nat /\ policy'.frontier \in Nat
      /\ policy.frontier <= policy'.frontier
  BY <1>0, <1>1, <1>3, <1>5, CommitKeeps DEF HoleInv
<1>7. NothingWaits'
  BY <1>1 DEF NothingWaits
<1>8. NothingLost'
  <2> SUFFICES ASSUME NEW i \in DOMAIN stable' PROVE Kept(i)'
    BY DEF NothingLost, Kept
  <2>1. PICK w \in h.stable : Rendering(w) = stable'[i]
    BY <1>1 DEF Voices
  <2>2. w \in Words(h) /\ w.start = stable'[i].start /\ w.start \in Nat
    BY <1>1, <2>1 DEF Rendering, WellHeard, Tiled, WellFormed, Words
  <2>3. CASE w \in ws
    BY <1>6, <2>1, <2>3 DEF Kept
  <2>4. CASE w.start < policy.frontier
    BY <1>6, <2>2, <2>4 DEF PassedKept
  <2> QED BY <1>2, <2>2, <2>3, <2>4
<1> QED BY <1>5, <1>6, <1>7, <1>8 DEF HoleInv

LEMMA HoleStep ==
  ASSUME NeverSkips, CInv, HoleInv, [Next]_vars
  PROVE  [Fills]_vars /\ HoleInv'
<1>1. ASSUME NEW d \in Steps, Blank(d) PROVE Fills /\ HoleInv'
  <2>1. UNCHANGED <<stable, latest, policy, commits, ended>>
    BY <1>1 DEF Blank
  <2> QED BY <2>1 DEF HoleInv, NothingWaits, PassedKept, Reached, Kept, NothingLost,
                      Committed, Obstructs, Guessed, Fills
<1>2. ASSUME NEW d \in Steps, NEW words \in Sayings, NEW s \in 0 .. MostWords,
             NEW fragment \in BOOLEAN, NEW conf \in Confidences,
             Take(d, words, s, fragment, conf)
      PROVE  Fills /\ HoleInv'
  BY <1>2, TakeKeeps
<1>3. ASSUME Settle PROVE Fills /\ HoleInv'
  BY <1>3, SettleKeeps
<1>4. ASSUME NEW words \in Sayings, NEW conf \in Confidences, Flush(words, conf)
      PROVE  Fills /\ HoleInv'
  BY <1>4, FlushKeeps
<1>5. CASE UNCHANGED vars
  BY <1>5 DEF vars, HoleInv, NothingWaits, PassedKept, Reached, Kept, NothingLost,
              Committed, Obstructs, Guessed
<1> QED BY <1>1, <1>2, <1>3, <1>4, <1>5 DEF Next

(* A session that never skips keeps HoleInv. *)
LEMMA HoleInvariance == ASSUME NeverSkips PROVE Spec => []HoleInv
<1>1. Init => HoleInv
  <2> SUFFICES ASSUME Init PROVE HoleInv OBVIOUS
  <2>1. ended = FALSE /\ latest = None BY Zenon DEF Init
  <2>2. stable = << >> /\ commits = {} /\ policy.frontier = 0
    BY DEF Init, FreshCommit
  <2> QED BY <2>1, <2>2 DEF HoleInv, NothingWaits, PassedKept, Reached, NothingLost
<1>2. CInv /\ HoleInv /\ [Next]_vars => HoleInv' BY HoleStep
<1> QED BY <1>1, <1>2, CInvariance, PTL DEF Spec

(* The committed sequence has no holes: no step takes the commit frontier  *)
(* past a word the engine says without committing it, as long as the       *)
(* confidence gate is off or there is no VAD to settle for, whatever the   *)
(* engine makes of its tentative words.  MCCommitting_hole.cfg shows the   *)
(* assumption is needed.                                                   *)
THEOREM NoHolesEver == NeverSkips => (Spec => NoHoles)
<1> SUFFICES ASSUME NeverSkips PROVE Spec => NoHoles OBVIOUS
<1>1. CInv /\ HoleInv /\ [Next]_vars => [Fills]_vars BY HoleStep
<1>2. Spec => [][Fills]_vars
  BY <1>1, CInvariance, HoleInvariance, PTL DEF Spec
<1> QED BY <1>2 DEF NoHoles, Fills

(* Under the same assumption every word the engine stands behind at the    *)
(* end of the stream is in the log, or behind a guess that was committed   *)
(* before the engine had settled on the word and that runs into it.        *)
THEOREM NothingEverLost == NeverSkips => (Spec => []NothingLost)
<1> SUFFICES ASSUME NeverSkips PROVE Spec => []NothingLost OBVIOUS
<1>1. HoleInv => NothingLost BY DEF HoleInv
<1> QED BY <1>1, HoleInvariance, PTL

=============================================================================
