-------------------------- MODULE HypothesisStream --------------------------
(***************************************************************************)
(* What engines/base.py asks of every engine ("Neither the Coordinator nor *)
(* the wire protocol can tell the two engines apart"), seen from outside:  *)
(* one hypothesis after another over a growing stream.  The words of one   *)
(* follow one another in the audio; the stable ones are never taken back   *)
(* on one stream, its end included; and until the end no word claims audio *)
(* that has not arrived.                                                   *)
(***************************************************************************)
EXTENDS Integers, SequencesExt

VARIABLES
  said,      \* the hypothesis last returned: [stable, tentative], of words
  at,        \* the audio given so far
  ended      \* flush() has been called

vars == <<said, at, ended>>

Silent == [stable |-> << >>, tentative |-> << >>]

Words(hypothesis) == hypothesis.stable \o hypothesis.tentative

Follow(ws) ==
  \A i, j \in DOMAIN ws :
    /\ ws[i].start <= ws[i].end
    /\ i < j => ws[i].end <= ws[j].start

Init == said = Silent /\ at = 0 /\ ended = FALSE

(* push or flush. *)
Answer ==
  /\ ~ ended
  /\ at <= at'
  /\ IsPrefix(said.stable, said'.stable)
  /\ Follow(Words(said'))
  /\ IF ended' THEN said'.tentative = << >>
     ELSE \A i \in DOMAIN Words(said') : Words(said')[i].end <= at'

(* reset. *)
Restart == ended /\ said' = Silent /\ at' = 0 /\ ended' = FALSE

Spec == Init /\ [][Answer \/ Restart]_vars

=============================================================================
