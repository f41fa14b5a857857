---------------------------- MODULE MCLabelling ----------------------------
(* Labelling on a short stream.  A tick stands for about a second; a gap   *)
(* between two segments is a stretch too short to embed.                   *)
EXTENDS Labelling

MCSegments ==
  << [start |-> 0, end |-> 2], [start |-> 3, end |-> 5], [start |-> 5, end |-> 7],
     [start |-> 7, end |-> 9], [start |-> 9, end |-> 11] >>

MCSpoken ==
  { [start |-> 1, end |-> 2], [start |-> 2, end |-> 3], [start |-> 4, end |-> 6],
    [start |-> 8, end |-> 9] }

=============================================================================
