---------------------------- MODULE MCCoordinator ----------------------------
(* The Coordinator on short streams.  A tick stands for about half a       *)
(* second.                                                                 *)
EXTENDS Coordinator

MCSteps == {1, 2}

UnitStep == {1}

NoSegments == << >>

Span(text, start, end) == [text |-> text, start |-> start, end |-> end]

(* A word, then a pause and a second one, which is heard half said first.  *)
Pausing == {Span(1, 0, 1), Span(1, 3, 4), Span(2, 3, 5)}

(* Two voices: a word across the boundary between their segments, which    *)
(* may be dated short of it at first, then one inside the second.          *)
Voices2 == {Span(1, 0, 3), Span(2, 0, 1), Span(1, 3, 4)}

TwoSegments == << [start |-> 0, end |-> 1], [start |-> 1, end |-> 4] >>

=============================================================================
