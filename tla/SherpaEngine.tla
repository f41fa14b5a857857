---------------------------- MODULE SherpaEngine ----------------------------
(***************************************************************************)
(* engines/sherpa.py (SherpaStreamingEngine): the pieces of words a        *)
(* streaming transducer decodes, joined into timed words.  A piece says    *)
(* when it was heard and nothing of how long it lasts, so the end of a     *)
(* word is an estimate: a fixed tail after its last piece, capped by the   *)
(* start of the next word, or by the audio there is.                       *)
(*                                                                         *)
(* The recognizer is outside: it decodes any pieces it likes, dated in     *)
(* order and never after the audio it was fed.  Confidences are left out.  *)
(***************************************************************************)
EXTENDS Integers, Sequences, SequencesExt

CONSTANTS
  TokenTail,  \* TOKEN_TAIL
  Padding,   \* flush_padding: the silence fed at the end
  Steps,     \* chunk lengths
  MaxAt,     \* bound on the length of the stream
  MaxNew,    \* bound on the pieces one chunk releases
  MaxPieces  \* bound on the pieces decoded

EngineAssumption ==
  /\ TokenTail \in Nat /\ Padding \in Nat
  /\ Steps \subseteq Nat /\ MaxAt \in Nat /\ MaxNew \in Nat /\ MaxPieces \in Nat

VARIABLES
  decoded,    \* recognizer.tokens and .timestamps of the stream
  seen,       \* _tokens_seen
  words,      \* _words
  pending,    \* _pending: the pieces of the word not yet complete
  consumed,   \* _consumed_to
  said,       \* the hypothesis last returned, or the empty one
  ended       \* flush() has been called

vars == <<decoded, seen, words, pending, consumed, said, ended>>

(* A decoded piece: its place in the stream's output, its timestamp, and   *)
(* whether it begins with the space that begins a word.                    *)
Piece == [id : Nat, time : Nat, opens : BOOLEAN]

Word == [ids : Seq(Nat), start : Nat, end : Nat]

TypeOK ==
  /\ decoded \in Seq(Piece) /\ pending \in Seq(Piece)
  /\ words \in Seq(Word)
  /\ seen = Len(decoded)
  /\ consumed \in Nat
  /\ said \in [stable : Seq(Word), tentative : Seq(Word)]
  /\ ended \in BOOLEAN

Silent == [stable |-> << >>, tentative |-> << >>]

Init ==
  /\ decoded = << >> /\ seen = 0
  /\ words = << >> /\ pending = << >>
  /\ consumed = 0
  /\ said = Silent
  /\ ended = FALSE

-----------------------------------------------------------------------------
Least(a, b) == IF a <= b THEN a ELSE b
Most(a, b) == IF a <= b THEN b ELSE a

(* _assemble *)
MutAssembled(pieces, cap) ==
  [ids |-> [i \in DOMAIN pieces |-> pieces[i].id],
   start |-> Head(pieces).time,
   end |-> Last(pieces).time + TokenTail]

MutAssembledLate(pieces, cap) ==
  LET start == Last(pieces).time
  IN  [ids   |-> [i \in DOMAIN pieces |-> pieces[i].id],
       start |-> start,
       end   |-> Least(start + TokenTail, Most(cap, start))]

Assembled(pieces, cap) ==
  LET start == Head(pieces).time
  IN  [ids   |-> [i \in DOMAIN pieces |-> pieces[i].id],
       start |-> start,
       end   |-> Least(Most(Last(pieces).time + TokenTail, start), Most(cap, start))]

(* _drain, one new piece: a piece that begins a word completes the pending one. *)
MutJoined(state, piece) ==
  IF piece.opens /\ state.pending # << >>
  THEN [words |-> Append(state.words, Assembled(state.pending, piece.time)), pending |-> << >>]
  ELSE [state EXCEPT !.pending = Append(@, piece)]

Joined(state, piece) ==
  IF piece.opens /\ state.pending # << >>
  THEN [words |-> Append(state.words, Assembled(state.pending, piece.time)), pending |-> <<piece>>]
  ELSE [state EXCEPT !.pending = Append(@, piece)]

(* _drain: every piece after the first `from`. *)
MutDrained(state, all, from) == FoldLeft(Joined, state, all)

Drained(state, all, from) == FoldLeft(Joined, state, SubSeq(all, from + 1, Len(all)))

MutHypothesis(state, cap, final) ==
  LET tail == IF state.pending = << >> THEN << >> ELSE <<Assembled(state.pending, cap)>>
  IN  [stable |-> state.words \o tail, tentative |-> << >>]

(* _hypothesis: the pending word is tentative until the stream ends. *)
Hypothesis(state, cap, final) ==
  LET tail == IF state.pending = << >> THEN << >> ELSE <<Assembled(state.pending, cap)>>
  IN  IF final THEN [stable |-> state.words \o tail, tentative |-> << >>]
      ELSE [stable |-> state.words, tentative |-> tail]

(* The recognizer, fed up to `fed`, decodes n more pieces. *)
LastTime == IF decoded = << >> THEN 0 ELSE Last(decoded).time

Decodes(n, fed) ==
  \E times \in [1 .. n -> LastTime .. fed], opens \in [1 .. n -> BOOLEAN] :
    /\ \A i \in 2 .. n : times[i - 1] <= times[i]
    /\ decoded' = decoded \o [i \in 1 .. n |->
                    [id |-> Len(decoded) + i, time |-> times[i], opens |-> opens[i]]]

Absorb(final) ==
  LET state == Drained([words |-> words, pending |-> pending], decoded', seen)
  IN  /\ seen' = Len(decoded')
      /\ words' = state.words
      /\ pending' = state.pending
      /\ said' = Hypothesis(state, consumed', final)

-----------------------------------------------------------------------------
(* push: without a new piece there is nothing to say (None). *)
Push(d, n) ==
  /\ ~ ended
  /\ consumed + d <= MaxAt /\ Len(decoded) + n <= MaxPieces
  /\ consumed' = consumed + d
  /\ Decodes(n, consumed')
  /\ IF n = 0 THEN UNCHANGED <<seen, words, pending, said>> ELSE Absorb(FALSE)
  /\ UNCHANGED ended

(* flush: the padding releases the last pieces, and everything is final.   *)
(* (External: padding alone decodes to nothing.)                           *)
Flush(n) ==
  /\ ~ ended
  /\ consumed > 0 \/ n = 0
  /\ Len(decoded) + n <= MaxPieces
  /\ ended' = TRUE
  /\ UNCHANGED consumed
  /\ Decodes(n, consumed + Padding)
  /\ Absorb(TRUE)

(* reset: the engine on another stream. *)
MutReset ==
  /\ ended
  /\ decoded' = << >> /\ UNCHANGED seen
  /\ words' = << >> /\ pending' = << >>
  /\ consumed' = 0
  /\ said' = Silent
  /\ ended' = FALSE

Reset ==
  /\ ended
  /\ decoded' = << >> /\ seen' = 0
  /\ words' = << >> /\ pending' = << >>
  /\ consumed' = 0
  /\ said' = Silent
  /\ ended' = FALSE

Next ==
  \/ \E d \in Steps, n \in 0 .. MaxNew : Push(d, n)
  \/ \E n \in 0 .. MaxNew : Flush(n)
  \/ Reset

Spec == Init /\ [][Next]_vars

-----------------------------------------------------------------------------
Heard == said.stable \o said.tentative

(* Every piece the recognizer decoded is in exactly one word, in order, so *)
(* the text of a hypothesis is the recognizer's own.                       *)
EveryPieceIsSaid ==
  FlattenSeq([i \in DOMAIN Heard |-> Heard[i].ids]) = [i \in DOMAIN decoded |-> decoded[i].id]

(* A word once called tentative keeps its start: the policy's frontier may *)
(* have been moved past it by then.                                        *)
StartsKept ==
  \A i \in DOMAIN Heard :
    IsPrefix(decoded, decoded') =>
      i \in DOMAIN Heard' /\ Heard'[i].start = Heard[i].start

StartsAreFinal == [][StartsKept]_vars

(* The end is an estimate that "must not be allowed to claim audio that    *)
(* has not arrived" (_assemble), and while the stream runs it never does   *)
(* (KeepsContract).  flush may date a word in its padding: that word, and  *)
(* the one it caps, are the only ones to end after the audio, and they end *)
(* in the padding.                                                         *)
EndsWithinTheAudio ==
  \A i \in DOMAIN Heard :
    /\ Heard[i].end > consumed => ended /\ (i = Len(Heard) \/ Heard[i + 1].start > consumed)
    /\ Heard[i].end <= consumed + Padding

=============================================================================
