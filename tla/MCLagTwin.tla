----------------------------- MODULE MCLagTwin -----------------------------
(* Twin Coordinators of a solo session with a VAD, a turn detector, early  *)
(* commits and polish, on a short stream of two words with a pause between *)
(* them.  A tick stands for about half a second.                           *)
EXTENDS LagTwin

UnitStep == {1}

NoSegments == << >>

(* Two words with a pause between them, which the engine may take for one  *)
(* when it has heard it all.                                               *)
Pausing ==
  {[text |-> 1, start |-> 0, end |-> 1], [text |-> 1, start |-> 2, end |-> 4],
   [text |-> 2, start |-> 0, end |-> 4]}

=============================================================================
