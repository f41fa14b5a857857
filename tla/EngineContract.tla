--------------------------- MODULE EngineContract ---------------------------
(***************************************************************************)
(* What the Coordinator is told by any engine that keeps the contract of   *)
(* engines/base.py (Word, Hypothesis, ASREngine).  The words of one        *)
(* hypothesis follow one another in the audio and end within what has been *)
(* pushed.  A word that was called stable comes back in every later        *)
(* hypothesis, as it was; a tentative one is bound to nothing: the next    *)
(* hypothesis may date it anew, say something else in its place, or drop   *)
(* it, and words may appear before it.                                     *)
(***************************************************************************)
EXTENDS Integers, Sequences

CONSTANTS
  Renderings,    \* what can be said of a stretch of audio: [text, start, end]
  MostWords      \* bound on the words of a hypothesis

ASSUME ContractAssumption ==
  /\ Renderings \subseteq [text : Nat, start : Nat, end : Nat]
  /\ \A r \in Renderings : r.start <= r.end
  /\ MostWords \in Nat

-----------------------------------------------------------------------------
(* One word after another: what an engine can say in one hypothesis. *)
OneAfterAnother(words) ==
  \A i, j \in DOMAIN words : i < j => words[i].end <= words[j].start

Sayings ==
  UNION {{words \in [1 .. n -> Renderings] : OneAfterAnother(words)} : n \in 0 .. MostWords}

(* The first s of `words` may be called stable, now, by an engine that has *)
(* called `stable` so before.                                              *)
CanSay(stable, words, s, now) ==
  /\ Len(stable) <= s /\ s <= Len(words)
  /\ \A i \in DOMAIN stable : words[i] = stable[i]
  /\ \A i \in DOMAIN words : words[i].end <= now

(* The Hypothesis that says so.  If its tail may be half a word            *)
(* (tentative_is_fragment), its last tentative word is not a whole one.    *)
Heard(words, s, fragment, conf) ==
  LET Said(i) == [id |-> i, text |-> words[i].text,
                  start |-> words[i].start, end |-> words[i].end,
                  whole |-> ~ (fragment /\ i = Len(words)) \/ i <= s, conf |-> conf[i]]
  IN  [stable    |-> {Said(i) : i \in 1 .. s},
       tentative |-> {Said(i) : i \in (s + 1) .. Len(words)},
       fragment  |-> fragment /\ s < Len(words)]

=============================================================================
