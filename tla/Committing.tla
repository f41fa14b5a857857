----------------------------- MODULE Committing -----------------------------
(***************************************************************************)
(* One session of CommitPolicy against a streaming engine: the calls the   *)
(* Coordinator makes of it (take on a hypothesis, settle on the latest one *)
(* when silence has held, flush at the end) in any order it can make them, *)
(* and the commit check of the event log every word then passes.           *)
(***************************************************************************)
EXTENDS CommitPolicy, EngineContract

CONSTANTS
  CanSettle,  \* a VAD is installed, so settle can be called
  Steps,      \* chunk lengths, in ticks
  MaxAt       \* bound on the length of the stream

ASSUME SessionAssumption ==
  /\ CanSettle \in BOOLEAN
  /\ Steps \subseteq Nat
  /\ MaxAt \in Nat

VARIABLES
  at,        \* StreamClock.position
  stable,    \* what the engine has called stable, in order
  latest,    \* Coordinator._latest
  policy,    \* the CommitPolicy's state
  commits,   \* the words committed, each with how many were stable by then
  lastEnd,   \* EventLog.last_commit_end
  raised,    \* the log or _emit_words has raised
  ended      \* flush() has been called

vars == <<at, stable, latest, policy, commits, lastEnd, raised, ended>>

TypeOK ==
  /\ at \in Nat
  /\ stable \in Seq(Renderings)
  /\ latest \in Hypothesis \cup {None}
  /\ policy.frontier \in 0 .. at
  /\ commits \subseteq [word : [text : Nat, start : Nat, end : Nat], heard : Nat]
  /\ lastEnd \in 0 .. at
  /\ raised \in BOOLEAN
  /\ ended \in BOOLEAN

Init ==
  /\ at = 0
  /\ stable = << >>
  /\ latest = None
  /\ policy = FreshCommit
  /\ commits = {}
  /\ lastEnd = 0
  /\ raised = FALSE
  /\ ended = FALSE

-----------------------------------------------------------------------------
Running == ~ ended /\ ~ raised

Rendering(w) == [text |-> w.text, start |-> w.start, end |-> w.end]

(* ws become permanent as far as the log lets them, and `held` waits; the  *)
(* engine has called `heard` words stable.                                 *)
Commit(ws, held, heard, now) ==
  LET said == Admitted(ws, lastEnd, now)
  IN  /\ \E f \in FrontierAfter(policy.frontier, ws) :
           policy' = [frontier |-> f, held |-> held]
      /\ commits' = commits \cup {[word |-> Rendering(w), heard |-> heard] : w \in said}
      /\ lastEnd' \in LastEndAfter(lastEnd, said)
      /\ raised' = (said # ws)

-----------------------------------------------------------------------------
(* A push the engine has nothing new to say about. *)
Blank(d) ==
  /\ Running
  /\ at + d <= MaxAt
  /\ at' = at + d
  /\ UNCHANGED <<stable, latest, policy, commits, lastEnd, raised, ended>>

(* A push that brings a hypothesis: take. *)
Take(d, words, s, fragment, conf) ==
  LET now == at + d
      h   == Heard(words, s, fragment, conf)
  IN  /\ Running
      /\ now <= MaxAt
      /\ CanSay(stable, words, s, now)
      /\ at' = now
      /\ stable' = SubSeq(words, 1, s)
      /\ latest' = h
      /\ Commit(Taken(h, policy, now), HeldAfter(h, policy, now), s, now)
      /\ UNCHANGED ended

(* The acoustic gate is satisfied: settle the latest hypothesis. *)
Settle ==
  /\ Running
  /\ CanSettle
  /\ latest # None
  /\ Commit(Settled(latest, policy), None, Len(stable), at)
  /\ UNCHANGED <<at, stable, latest, ended>>

(* The stream is over: flush what the engine is left with, all of it stable. *)
Flush(words, conf) ==
  LET h == Heard(words, Len(words), FALSE, conf)
  IN  /\ Running
      /\ CanSay(stable, words, Len(words), at)
      /\ stable' = words
      /\ Commit(Flushed(h, policy), None, Len(words), at)
      /\ ended' = TRUE
      /\ UNCHANGED <<at, latest>>

Confidences == [1 .. MostWords -> 0 .. FullConfidence]

Next ==
  \/ \E d \in Steps : Blank(d)
  \/ \E d \in Steps, words \in Sayings, s \in 0 .. MostWords, fragment \in BOOLEAN,
        conf \in Confidences :
       Take(d, words, s, fragment, conf)
  \/ Settle
  \/ \E words \in Sayings, conf \in Confidences : Flush(words, conf)

Spec == Init /\ [][Next]_vars

-----------------------------------------------------------------------------
Committed(r) == \E c \in commits : c.word = r

(* What the engine still says: its stable words, and the tentative ones of *)
(* its latest hypothesis.                                                  *)
Believed ==
  {stable[i] : i \in DOMAIN stable} \cup
  IF latest = None \/ ended THEN {} ELSE {Rendering(w) : w \in latest.tentative}

(* THE COMMITTED SEQUENCE MUST HAVE NO HOLES: no step moves the commit     *)
(* frontier past a word the engine says, and so out of the reach of every  *)
(* later commit, without committing the word.                              *)
NoHoles ==
  [][\A r \in Believed' :
       r.start < policy'.frontier => r.start < policy.frontier \/ Committed(r)']_vars

(* Neither the append-only check of the log nor the timestamp check of     *)
(* _emit_words is ever tripped by an engine that keeps its contract: the   *)
(* policy's frontier and the log's last_commit_end never drift apart.      *)
NothingRaised == ~ raised

(* A guess: a commit of what the engine had not called stable.  It runs    *)
(* into the i-th stable word if it ends past the start of that word and    *)
(* was made before the engine settled on it.                               *)
Guessed(c) == \A i \in 1 .. c.heard : c.word # stable[i]

Obstructs(c, i) == Guessed(c) /\ c.heard < i /\ stable[i].start < c.word.end

(* At the end of the stream every word the engine stands behind is in the  *)
(* log, but for those a guess had run into before.                         *)
NothingLost ==
  ended => \A i \in DOMAIN stable :
             Committed(stable[i]) \/ \E c \in commits : Obstructs(c, i)

=============================================================================
