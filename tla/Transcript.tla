----------------------------- MODULE Transcript -----------------------------
(***************************************************************************)
(* What the event log promises a consumer who keeps only the words and who *)
(* said them (events.py, THE ONE RULE): the transcript only grows at its   *)
(* end, and a line, once it has a speaker, keeps it; a line without one    *)
(* may be given one later, once.                                           *)
(***************************************************************************)
EXTENDS Naturals

CONSTANT None

VARIABLE lines    \* from the seq of a commit to its line, [word, speaker]

Init == DOMAIN lines = {}

Next ==
  /\ DOMAIN lines \subseteq DOMAIN lines'
  /\ \A i \in DOMAIN lines, j \in DOMAIN lines' \ DOMAIN lines : i < j
  /\ \A i \in DOMAIN lines :
       /\ lines'[i].word = lines[i].word
       /\ lines[i].speaker # None => lines'[i].speaker = lines[i].speaker

Spec == Init /\ [][Next]_lines

=============================================================================
