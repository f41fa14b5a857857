---------------------------- MODULE CommitPolicy ----------------------------
(***************************************************************************)
(* When a word of the engine's hypothesis becomes permanent:               *)
(* coordinator/commit.py (CommitPolicy), with the Word and Hypothesis of   *)
(* engines/base.py and the check EventLog.emit makes of every commit.      *)
(*                                                                         *)
(* A word is a record                                                      *)
(*   id           its place among the words of its hypothesis              *)
(*   text         what it says                                             *)
(*   start, end   its audio span, in ticks                                 *)
(*   whole        FALSE if it may be a fragment ("Ja" of "January")        *)
(*   conf         the engine's confidence                                  *)
(* a hypothesis [stable, tentative, fragment] holds two sets of words, in  *)
(* the time order the code sorts them into, and the policy's state is a    *)
(* record                                                                  *)
(*   frontier     _committed_to                                            *)
(*   held         the one entry _held can have, or None                    *)
(***************************************************************************)
EXTENDS Integers

CONSTANTS
  None,              \* Python's None
  FullConfidence,    \* a confidence of 1.0
  ConfidenceGate,    \* Policy.confidence_gate; 0 disables holding
  SlowTicks,         \* Policy.slow_commit_seconds
  EarlyConfidence    \* Policy.early_commit_confidence; above full disables it

ASSUME CommitAssumption ==
  /\ None \notin Int
  /\ FullConfidence \in Nat
  /\ ConfidenceGate \in Int
  /\ SlowTicks \in Int
  /\ EarlyConfidence \in Int

Word ==
  [id : Nat, text : Nat, start : Nat, end : Nat, whole : BOOLEAN, conf : 0 .. FullConfidence]

Hypothesis == [stable : SUBSET Word, tentative : SUBSET Word, fragment : BOOLEAN]

FreshCommit == [frontier |-> 0, held |-> None]

(* The time order of words; the order of the hypothesis breaks ties.       *)
Before(v, w) == v.start < w.start \/ (v.start = w.start /\ v.id < w.id)

UpTo(w, S) == {v \in S : v = w \/ Before(v, w)}

-----------------------------------------------------------------------------
(* What is not yet behind the commit frontier. *)
MutPending(S, frontier) == {w \in S : w.end > frontier}

Pending(S, frontier) == {w \in S : w.start >= frontier}

(* Early commit takes only the leading run of confident tentative words,   *)
(* and no word of an engine whose tail may be half a word.                 *)
MutEarlyWords(h) ==
  {w \in h.tentative : ~ h.fragment /\ w.conf >= EarlyConfidence}

EarlyWords(h) ==
  {w \in h.tentative :
     /\ EarlyConfidence <= FullConfidence
     /\ ~ h.fragment
     /\ \A v \in UpTo(w, h.tentative) : v.conf >= EarlyConfidence}

Key(w) == <<w.start, w.text>>

IsHeld(w, held) == held # None /\ held.key = Key(w)

(* Confident enough, or held for long enough without being revised. *)
Ripe(w, held, now) ==
  \/ w.conf >= ConfidenceGate
  \/ IsHeld(w, held) /\ now - held.since >= SlowTicks

(* take: the words before the first one that is not ripe. *)
Taken(h, c, now) ==
  LET waiting == Pending(h.stable \cup EarlyWords(h), c.frontier)
  IN  {w \in waiting : \A v \in UpTo(w, waiting) : Ripe(v, c.held, now)}

(* ... and the word that stopped the rest, with when it was first seen.    *)
HeldAfter(h, c, now) ==
  LET waiting == Pending(h.stable \cup EarlyWords(h), c.frontier)
      blocked == waiting \ Taken(h, c, now)
      first   == CHOOSE w \in blocked : UpTo(w, blocked) = {w}
  IN  IF blocked = {} THEN None
      ELSE [key   |-> Key(first),
            since |-> IF IsHeld(first, c.held) THEN c.held.since ELSE now]

(* settle: everything still tentative.  flush: everything.                 *)
Settled(h, c) == Pending(h.tentative, c.frontier)

MutFlushed(h, c) == Pending(h.tentative, c.frontier)

Flushed(h, c) == Pending(h.stable \cup h.tentative, c.frontier)

(* The frontier after committing ws: the furthest of the old one and the   *)
(* ends of the words (a set with that one element).                        *)
MutFrontierAfter(frontier, ws) ==
  {f \in {frontier} \cup {w.end + 1 : w \in ws} :
     frontier <= f /\ \A w \in ws : w.end <= f}

FrontierAfter(frontier, ws) ==
  {f \in {frontier} \cup {w.end : w \in ws} :
     frontier <= f /\ \A w \in ws : w.end <= f}

-----------------------------------------------------------------------------
(* EventLog.emit refuses a commit that starts before the previous commit   *)
(* ended, and _emit_words one that ends after the audio pushed so far.     *)
Refused(w, ws, lastEnd, now) ==
  LET earlier == UpTo(w, ws) \ {w}
  IN  \/ w.end > now
      \/ earlier = {} /\ w.start < lastEnd
      \/ \E v \in earlier : UpTo(v, ws) = earlier /\ w.start < v.end

Admitted(ws, lastEnd, now) ==
  {w \in ws : \A v \in UpTo(w, ws) : ~ Refused(v, ws, lastEnd, now)}

(* The end of the last word admitted (a set with that one element). *)
LastEndAfter(lastEnd, ws) ==
  IF ws = {} THEN {lastEnd}
  ELSE {w.end : w \in {v \in ws : UpTo(v, ws) = ws}}

=============================================================================
