---------------------------- MODULE WhisperEngine ----------------------------
(***************************************************************************)
(* engines/whisper.py (WhisperStreamingEngine): LocalAgreement over an     *)
(* offline model.  The audio is kept in a buffer that is transcribed anew  *)
(* every interval; the prefix on which two passes agree becomes stable,    *)
(* and the buffer is cut a little behind it.                               *)
(*                                                                         *)
(* The model is outside: a pass hears every word that is whole in the      *)
(* buffer and perhaps the ones cut at its ends, any of them wrongly, and   *)
(* dates them by up to Jitter off the truth.  A text is the number of the  *)
(* spoken word, negative if it was misheard: _key already ignores what a   *)
(* pass is free to revise.  `agreed`, `lost` and `moved` are history.      *)
(***************************************************************************)
EXTENDS Integers, Sequences, SequencesExt, FiniteSetsExt

CONSTANTS
  SpokenFrom, SpokenTo,  \* the audio span of each spoken word, two sequences
  Jitter,      \* how far a pass may misplace a boundary
  Interval,    \* _interval: new audio between two passes
  Context,     \* _context: audio kept behind the agreement point
  MaxBuffer,   \* _max_buffer
  Steps,       \* chunk lengths
  MaxAt        \* bound on the length of the stream

Ids == DOMAIN SpokenFrom

WhisperAssumption ==
  /\ Jitter \in Nat /\ Interval \in Nat /\ Context \in Nat /\ MaxBuffer \in Nat
  /\ Steps \subseteq Nat /\ MaxAt \in Nat
  /\ SpokenFrom \in Seq(Nat) /\ SpokenTo \in Seq(Nat) /\ Ids = DOMAIN SpokenTo
  /\ \A i \in Ids : SpokenFrom[i] < SpokenTo[i]
  /\ \A i, j \in Ids : i < j => SpokenTo[i] <= SpokenFrom[j]

VARIABLES
  at,         \* _position
  offset,     \* _offset: where the buffer begins
  held,       \* len(_buffer)
  fresh,      \* _pending: audio no pass has heard
  previous,   \* _previous: the last pass
  stable,     \* _stable
  settled,    \* _settled_to
  said,       \* the hypothesis last returned, or the empty one
  ended,      \* flush() has been called
  agreed,     \* the spoken words two passes in a row have agreed on
  lost,       \* audio before this was cut by the cap, settled or not
  moved       \* some pass misplaced a boundary

vars == <<at, offset, held, fresh, previous, stable, settled, said, ended, agreed, lost, moved>>

Least(a, b) == IF a <= b THEN a ELSE b
Most(a, b) == IF a <= b THEN b ELSE a

Word == [text : Int \ {0}, start : Nat, end : Nat]

Spoken(word) == IF word.text < 0 THEN - word.text ELSE word.text

Silent == [stable |-> << >>, tentative |-> << >>]

Init ==
  /\ at = 0 /\ offset = 0 /\ held = 0 /\ fresh = 0
  /\ previous = << >> /\ stable = << >> /\ settled = 0
  /\ said = Silent /\ ended = FALSE
  /\ agreed = {} /\ lost = 0 /\ moved = FALSE

-----------------------------------------------------------------------------
(* One inference over the buffer, which ends at `now`: the words of `run`  *)
(* in order, the ones in `wrong` misheard, every boundary off by `drift`.  *)
(* An empty buffer is not transcribed.                                     *)
Audible(now) == {i \in Ids : SpokenTo[i] > offset /\ SpokenFrom[i] < now}
Whole(now) == {i \in Ids : SpokenFrom[i] >= offset /\ SpokenTo[i] <= now}

Pass(run, wrong, drift) ==
  [n \in DOMAIN run |->
     LET i == run[n]
     IN  [text  |-> IF i \in wrong THEN - i ELSE i,
          start |-> Most(SpokenFrom[i] + drift, offset),
          end   |-> Most(SpokenTo[i] + drift, offset)]]

Runs(now) ==
  {run \in SeqOf(Audible(now), Len(SpokenFrom)) :
     /\ \A m, n \in DOMAIN run : m < n => run[m] < run[n]
     /\ \A i \in Whole(now) : \E n \in DOMAIN run : run[n] = i}

Passes(now, drift) ==
  IF now = offset THEN {<< >>}
  ELSE UNION {{Pass(run, wrong, drift) : wrong \in SUBSET {run[n] : n \in DOMAIN run}}
              : run \in Runs(now)}

Drifts == (- Jitter) .. Jitter

(* _transcribe, one word: it cannot end after the audio, nor before its    *)
(* start.                                                                  *)
MutTimed(now, out, word) == Append(out, word)

Timed(now, out, word) ==
  IF Least(word.end, now) < word.start THEN out
  ELSE Append(out, [word EXCEPT !.end = Least(@, now)])

Transcribed(pass, now) ==
  FoldLeft(LAMBDA out, word : Timed(now, out, word), << >>, pass)

(* _common_prefix: the newer pass's words up to the first disagreement.    *)
CommonPrefix(before, now) ==
  LET n == Max({n \in 0 .. Least(Len(before), Len(now)) :
                  \A k \in 1 .. n : before[k].text = now[k].text})
  IN  SubSeq(now, 1, n)

(* _absorb, one agreed word: it is promoted unless it starts behind the    *)
(* agreement point.                                                        *)
MutPromoted(state, word) ==
  IF word.start >= state.settled
  THEN [stable |-> Append(state.stable, word), settled |-> state.settled]
  ELSE state

Promoted(state, word) ==
  IF word.start >= state.settled
  THEN [stable |-> Append(state.stable, word), settled |-> Most(state.settled, word.end)]
  ELSE state

(* _trim: how much of a buffer of `length` goes, once settled to `to`.     *)
Dropped(to, length) ==
  LET behind == Most(0, to - Context) - offset
      over   == IF length > MaxBuffer THEN length - MaxBuffer ELSE 0
  IN  Least(Most(0, Most(behind, over)), length)

(* What flush and _hypothesis take: the words not behind the agreement.   *)
MutKept(to, out, word) == Append(out, word)

Kept(to, out, word) == IF word.start >= to THEN Append(out, word) ELSE out

Taken(words, to, out) == FoldLeft(LAMBDA taken, word : Kept(to, taken, word), out, words)

-----------------------------------------------------------------------------
(* push: between two passes there is nothing to say (None).                *)
Wait(d) ==
  /\ fresh + d < Interval
  /\ fresh' = fresh + d
  /\ held' = held + d
  /\ UNCHANGED <<offset, previous, stable, settled, said, agreed, lost, moved>>

Infer(d, pass) ==
  LET current == Transcribed(pass, at + d)
      common  == CommonPrefix(previous, current)
      state   == FoldLeft(Promoted, [stable |-> stable, settled |-> settled], common)
      drop    == Dropped(state.settled, held + d)
  IN  /\ fresh + d >= Interval
      /\ fresh' = 0
      /\ previous' = current
      /\ stable' = state.stable
      /\ settled' = state.settled
      /\ offset' = offset + drop
      /\ held' = held + d - drop
      /\ said' = [stable |-> state.stable, tentative |-> Taken(current, state.settled, << >>)]
      /\ agreed' = agreed \cup {Spoken(common[n]) : n \in DOMAIN common}
      /\ lost' = IF held + d > MaxBuffer THEN at + d - MaxBuffer ELSE lost

Push(d) ==
  /\ ~ ended /\ at + d <= MaxAt
  /\ at' = at + d
  /\ \/ Wait(d)
     \/ \E drift \in Drifts : \E pass \in Passes(at + d, drift) :
          Infer(d, pass) /\ moved' = (moved \/ drift # 0)
  /\ UNCHANGED ended

(* flush: no second pass will come, so what is left is as settled as it    *)
(* will ever be.                                                           *)
Sorted(words) ==
  LET notAfter(n) == {m \in DOMAIN words :
                        \/ words[m].start < words[n].start
                        \/ (words[m].start = words[n].start /\ m <= n)}
  IN  [k \in DOMAIN words |->
         words[CHOOSE n \in DOMAIN words : Cardinality(notAfter(n)) = k]]

Flushed(current) == Sorted(Taken(current, settled, stable))

Flush ==
  /\ ~ ended
  /\ ended' = TRUE
  /\ \E drift \in Drifts : \E pass \in Passes(at, drift) :
       stable' = Flushed(Transcribed(pass, at)) /\ moved' = (moved \/ drift # 0)
  /\ previous' = << >>
  /\ said' = [stable |-> stable', tentative |-> << >>]
  /\ UNCHANGED <<at, offset, held, fresh, settled, agreed, lost>>

(* reset: the engine on another stream. *)
Reset ==
  /\ ended
  /\ at' = 0 /\ offset' = 0 /\ held' = 0 /\ fresh' = 0
  /\ previous' = << >> /\ stable' = << >> /\ settled' = 0
  /\ said' = Silent /\ ended' = FALSE
  /\ agreed' = {} /\ lost' = 0 /\ moved' = FALSE

Next == (\E d \in Steps : Push(d)) \/ Flush \/ Reset

Spec == Init /\ [][Next]_vars

-----------------------------------------------------------------------------
TypeOK ==
  /\ {at, offset, held, fresh, settled, lost} \subseteq Nat
  /\ previous \in Seq(Word) /\ stable \in Seq(Word)
  /\ said \in [stable : Seq(Word), tentative : Seq(Word)]
  /\ ended \in BOOLEAN
  /\ agreed \subseteq Ids

(* "Promote the prefix two consecutive passes agree on" (_absorb): every   *)
(* word in such a prefix has become stable, and still is.                  *)
SaidWords == {Spoken(said.stable[n]) : n \in DOMAIN said.stable}

AgreedIsSaid == agreed \subseteq SaidWords

(* Over any number of passes, trims and repeats of the context no word is  *)
(* said twice, and at the end of the stream every word that was wholly in  *)
(* it has been said, as long as no pass moves a boundary and some context  *)
(* is kept; but for the words the cap cut, which may be missing and, cut   *)
(* in two, may be said twice.                                              *)
EachWordOnce == ~ moved /\ Context > 0 =>
  /\ \A m, n \in DOMAIN said.stable :
       \/ Spoken(said.stable[m]) = Spoken(said.stable[n]) => m = n
       \/ SpokenFrom[Spoken(said.stable[m])] < lost
  /\ ended => \A i \in Ids : SpokenTo[i] <= at => i \in SaidWords \/ SpokenFrom[i] < lost

=============================================================================
