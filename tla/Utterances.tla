----------------------------- MODULE Utterances -----------------------------
(***************************************************************************)
(* What endpointing promises a consumer of the log: speech and pauses      *)
(* alternate inside an utterance, every utterance is closed by exactly one *)
(* endpoint, and only a pause or the end of the stream closes one.         *)
(***************************************************************************)
EXTENDS Naturals

VARIABLES
  phase,    \* "quiet", "speaking", "pausing" or, once the stream ended, "over"
  begun,    \* utterances begun
  closed    \* endpoints emitted

vars == <<phase, begun, closed>>

Init == phase = "quiet" /\ begun = 0 /\ closed = 0

(* The first speech after an endpoint begins an utterance. *)
Begin ==
  /\ phase = "quiet"
  /\ phase' = "speaking"
  /\ begun' = begun + 1
  /\ UNCHANGED closed

Pause ==
  /\ phase = "speaking"
  /\ phase' = "pausing"
  /\ UNCHANGED <<begun, closed>>

Resume ==
  /\ phase = "pausing"
  /\ phase' = "speaking"
  /\ UNCHANGED <<begun, closed>>

Close ==
  /\ phase = "pausing"
  /\ phase' = "quiet"
  /\ closed' = closed + 1
  /\ UNCHANGED begun

(* The end of the stream closes the utterance still open, if there is one. *)
Stop ==
  /\ phase # "over"
  /\ phase' = "over"
  /\ closed' = IF phase = "quiet" THEN closed ELSE closed + 1
  /\ UNCHANGED begun

Next == Begin \/ Pause \/ Resume \/ Close \/ Stop

Spec == Init /\ [][Next]_vars

=============================================================================
