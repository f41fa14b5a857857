---------------------------- MODULE MCCommitting ----------------------------
(* Committing on short streams.  A tick stands for about 0.2s of audio.    *)
EXTENDS Committing

MCSteps == 1 .. 2

UnitStep == {1}

Span(text, start, end) == [text |-> text, start |-> start, end |-> end]

(* One word, its second half, what follows it, and what an engine may make *)
(* of them meanwhile: a word cut short, dated too late or too early, heard *)
(* as another, or heard as one with the next.                              *)
Revised ==
  {Span(1, 0, 2), Span(1, 0, 1), Span(2, 0, 2), Span(1, 1, 3), Span(3, 0, 3),
   Span(2, 2, 3), Span(1, 3, 4)}

(* Three words that are never revised. *)
Settled3 == {Span(1, 0, 2), Span(1, 2, 3), Span(1, 4, 6)}

=============================================================================
