------------------------- MODULE Endpointing_proofs -------------------------
(***************************************************************************)
(* Proofs about Endpointing, for every policy, chunking and stream length. *)
(***************************************************************************)
EXTENDS Endpointing, TLAPS

(* The scoring throttle never leaves the range of a completeness. *)
LEMMA ScorerTypes ==
  ASSUME NEW g \in Gate, NEW s \in Scorer, NEW now \in Nat,
         NEW m \in Completeness
  PROVE  /\ Scored(g, s, now, m) \in Scorer
         /\ FinallyScored(s, m) \in Scorer
         /\ MaybeScore(g, s, now, m) \in Completeness
<1>1. Scored(g, s, now, m) \in Scorer
  BY DEF Scored, Scorer
<1>2. FinallyScored(s, m) \in Scorer
  BY DEF FinallyScored, Scorer
<1>3. MaybeScore(g, s, now, m) \in Completeness
  BY EndpointAssumption DEF MaybeScore, Completeness, Scorer
<1> QED BY <1>1, <1>2, <1>3

(* A gate stays a gate whatever it observes. *)
LEMMA GateTypes ==
  ASSUME NEW g \in Gate, NEW speaking \in BOOLEAN, NEW now \in Nat, NEW score
  PROVE  /\ Observed(g, speaking, now, score) \in Gate
         /\ Fired(g) \in Gate
         /\ Verdict(g, now, score) \in {"complete", "timeout", None}
         /\ FlushVerdict(g) \in {"flush", None}
<1>1. Fired(g) \in Gate
  BY DEF Fired, Gate
<1>2. Observed(g, speaking, now, score) \in Gate
  BY <1>1 DEF Observed, Gate
<1> QED BY <1>1, <1>2 DEF Verdict, FlushVerdict

(* Every state of the gate, of the scorer and of the history has its type. *)
LEMMA TypeStep == TypeOK /\ [Next]_vars => TypeOK'
<1> SUFFICES ASSUME TypeOK, [Next]_vars PROVE TypeOK'
  OBVIOUS
<1>1. ASSUME NEW d \in Steps, NEW speaking \in BOOLEAN, NEW m \in Completeness,
             Push(d, speaking, m)
      PROVE  TypeOK'
  <2> DEFINE now == at + d
             score == MaybeScore(gate, scorer, now, m)
  <2>1. now \in Nat
    BY StreamAssumption DEF TypeOK
  <2>2. scorer' \in Scorer /\ gate' \in Gate
    BY <1>1, <2>1, ScorerTypes, GateTypes DEF TypeOK, Push
  <2>3. CASE speaking
    <3>1. HearSpeech(now) /\ at' = now /\ ended' = ended
      BY <1>1, <2>3 DEF Push
    <3>2. begun' \in Nat
      BY <3>1 DEF TypeOK, HearSpeech
    <3>3. spoke' \in Nat /\ quiet' = None /\ closed' = closed /\ last' = last
      BY <2>1, <3>1 DEF HearSpeech
    <3> QED BY <2>1, <2>2, <3>1, <3>2, <3>3 DEF TypeOK
  <2>4. CASE ~ speaking
    <3>1. HearSilence(now, Verdict(gate, now, score))
      BY <1>1, <2>4 DEF Push
    <3>2. Verdict(gate, now, score) \in {"complete", "timeout", None}
      BY <2>1, GateTypes DEF TypeOK
    <3>3. Verdict(gate, now, score) # None => last' \in Endpoint
      BY <2>1, <2>2, <3>1, <3>2
      DEF TypeOK, Scorer, HearSilence, Note, Endpoint, Reason
    <3> QED BY <1>1, <2>1, <2>2, <3>1, <3>2, <3>3 DEF TypeOK, Push, HearSilence
  <2> QED BY <2>3, <2>4
<1>2. ASSUME NEW m \in Completeness, Finish(m)
      PROVE  TypeOK'
  <2>1. scorer' \in Scorer /\ gate' \in Gate
    BY <1>2, ScorerTypes, GateTypes DEF TypeOK, Finish
  <2>2. last' \in Endpoint \cup {None}
    <3>1. CASE FlushVerdict(gate) = None
      BY <1>2, <3>1 DEF TypeOK, Finish
    <3>2. CASE FlushVerdict(gate) # None
      BY <1>2, <2>1, <3>2 DEF TypeOK, Scorer, Finish, Note, Endpoint, Reason
    <3> QED BY <3>1, <3>2
  <2> QED BY <1>2, <2>1, <2>2 DEF TypeOK, Finish
<1>3. CASE UNCHANGED vars
  BY <1>3 DEF TypeOK, vars
<1> QED BY <1>1, <1>2, <1>3 DEF Next

(* A fresh session starts with its state well typed. *)
LEMMA TypeInit == Init => TypeOK
<1>1. FreshGate \in Gate
  BY DEF FreshGate, Gate
<1>2. FreshScorer \in Scorer
  BY EndpointAssumption DEF FreshScorer, Scorer, Completeness
<1>3. Init => ended \in BOOLEAN
  BY Zenon DEF Init
<1>4. Init => at \in Nat /\ begun \in Nat /\ closed \in Nat
  BY DEF Init
<1>5. Init => spoke = None /\ quiet = None /\ last = None
  BY DEF Init
<1>6. Init => gate \in Gate /\ scorer \in Scorer
  BY <1>1, <1>2, Zenon DEF Init
<1> QED BY <1>3, <1>4, <1>5, <1>6, Zenon DEF TypeOK

(* Type correctness of Endpointing. *)
THEOREM TypeCorrect == Spec => []TypeOK
  BY TypeInit, TypeStep, PTL DEF Spec

-----------------------------------------------------------------------------
(* A fresh gate knows the readings: there were none. *)
LEMMA InvInit == Init => IInv
  BY TypeInit
  DEF Init, IInv, FreshGate, GateKnowsTheReadings, HistoryInOrder,
      BoundedSilence, EndpointClosesAPause, EndClosesEverything

(* Every push and the end of the stream preserve what the gate knows, and  *)
(* with it each of the promises.                                           *)
LEMMA InvStep == IInv /\ [Next]_vars => IInv'
<1> SUFFICES ASSUME IInv, [Next]_vars PROVE IInv'
  OBVIOUS
<1>t. TypeOK /\ TypeOK'
  BY TypeStep DEF IInv
<1>1. ASSUME NEW d \in Steps, NEW speaking \in BOOLEAN, NEW m \in Completeness,
             Push(d, speaking, m)
      PROVE  IInv'
  <2> DEFINE now == at + d
             score == MaybeScore(gate, scorer, now, m)
             v == Verdict(gate, now, score)
  <2>1. now \in Nat /\ at <= now /\ at' = now /\ ~ ended /\ ~ ended'
    BY <1>1, <1>t, StreamAssumption DEF TypeOK, Gate, Push
  <2>2. gate' = Observed(gate, speaking, now, score)
    BY <1>1 DEF Push
  <2>3. CASE speaking
    <3>1. /\ spoke' = now /\ quiet' = None /\ last' = last
          /\ gate' = [since |-> None, fired |-> None, had |-> TRUE]
      BY <1>1, <2>2, <2>3 DEF Push, HearSpeech, Observed
    <3> QED
      BY <1>t, <2>1, <3>1, EndpointAssumption
      DEF IInv, TypeOK, Gate, GateKnowsTheReadings, HistoryInOrder, BoundedSilence,
          EndpointClosesAPause, EndClosesEverything
  <2>4. CASE ~ speaking /\ v = None
    <3>1. /\ spoke' = spoke /\ last' = last
          /\ quiet' = IF quiet = None /\ spoke # None THEN now ELSE quiet
      BY <1>1, <2>4 DEF Push, HearSilence
    <3>2. gate' = IF gate.had /\ gate.since = None
                  THEN [gate EXCEPT !.since = now] ELSE gate
      BY <2>2, <2>4 DEF Observed
    <3>3. OpenPause(gate) => now - gate.since < MaxSilenceTicks
      BY <1>t, <2>1, <2>4, EndpointAssumption 
      DEF Verdict, Reason, OpenPause, TypeOK, Gate
    <3>4. GateKnowsTheReadings' /\ HistoryInOrder'
      BY <1>t, <2>1, <3>1, <3>2, EndpointAssumption
      DEF IInv, TypeOK, Gate, GateKnowsTheReadings, HistoryInOrder
    <3>5. BoundedSilence'
      BY <1>t, <2>1, <3>1, <3>2, <3>3, EndpointAssumption
      DEF IInv, TypeOK, Gate, GateKnowsTheReadings, BoundedSilence, OpenPause
    <3> QED
      BY <1>t, <2>1, <3>1, <3>4, <3>5
      DEF IInv, EndpointClosesAPause, EndClosesEverything
  <2>5. CASE ~ speaking /\ v # None
    <3>1. /\ spoke' = None /\ last' = Note(now, v)
          /\ quiet' = IF quiet = None /\ spoke # None THEN now ELSE quiet
      BY <1>1, <2>5 DEF Push, HearSilence
    <3>2. gate' = [gate EXCEPT !.fired = gate.since, !.had = FALSE]
      BY <2>2, <2>5 DEF Observed, Fired
    <3>3. /\ OpenPause(gate)
          /\ v = "complete" => now - gate.since >= SilenceTicks
          /\ v = "timeout" => now - gate.since >= MaxSilenceTicks
      BY <2>5 DEF Verdict
    <3>4. spoke # None /\ quiet # None /\ gate.since = quiet /\ spoke <= quiet
      BY <1>t, <2>1, <3>3, EndpointAssumption
      DEF IInv, TypeOK, Gate, GateKnowsTheReadings, HistoryInOrder, OpenPause
    <3>5. EndpointClosesAPause'
      BY <1>t, <2>1, <3>1, <3>3, <3>4, EndpointAssumption
      DEF TypeOK, Gate, Note, EndpointClosesAPause
    <3>6. GateKnowsTheReadings' /\ HistoryInOrder' /\ BoundedSilence'
      BY <1>t, <2>1, <3>1, <3>2, <3>4
      DEF IInv, TypeOK, Gate, GateKnowsTheReadings, HistoryInOrder, BoundedSilence
    <3> QED
      BY <1>t, <2>1, <3>5, <3>6 DEF IInv, EndClosesEverything
  <2> QED BY <2>3, <2>4, <2>5
<1>2. ASSUME NEW m \in Completeness, Finish(m)
      PROVE  IInv'
  <2>1. ~ ended /\ ended' /\ at' = at /\ quiet' = quiet
    BY <1>2, <1>t DEF Finish, TypeOK
  <2>2. CASE FlushVerdict(gate) = None
    <3>1. ~ gate.had
      BY <1>t, <2>1, <2>2, EndpointAssumption
      DEF IInv, TypeOK, Gate, Reason, GateKnowsTheReadings, FlushVerdict
    <3>2. spoke = None
      BY <2>1, <3>1 DEF IInv, GateKnowsTheReadings
    <3> QED
      BY <1>2, <1>t, <2>1, <2>2, <3>2
      DEF Finish, IInv, GateKnowsTheReadings, HistoryInOrder, BoundedSilence,
          EndpointClosesAPause, EndClosesEverything
  <2>3. CASE FlushVerdict(gate) # None
    <3>1. spoke' = None /\ last' = Note(at, "flush")
      BY <1>2, <2>3 DEF Finish
    <3>2. spoke # None
      BY <2>1, <2>3 DEF IInv, GateKnowsTheReadings, FlushVerdict
    <3>3. EndpointClosesAPause'
      BY <1>t, <3>1, <3>2 DEF Note, EndpointClosesAPause
    <3> QED
      BY <1>t, <2>1, <3>1, <3>3
      DEF IInv, GateKnowsTheReadings, HistoryInOrder, BoundedSilence,
          EndClosesEverything
  <2> QED BY <2>2, <2>3
<1>3. CASE UNCHANGED vars
  BY <1>3, <1>t
  DEF vars, IInv, GateKnowsTheReadings, HistoryInOrder, BoundedSilence,
      EndpointClosesAPause, EndClosesEverything
<1> QED BY <1>1, <1>2, <1>3 DEF Next

(* IInv holds of every reachable state. *)
LEMMA Invariance == Spec => []IInv
  BY InvInit, InvStep, PTL DEF Spec

-----------------------------------------------------------------------------
(* A pause after unclosed speech never reaches the policy's ceiling: the   *)
(* timeout closes it on the first reading at or past it.                   *)
THEOREM SilenceIsBounded == Spec => []BoundedSilence
  BY Invariance, PTL DEF IInv

(* Every endpoint closes speech of its own, after the silence its reason   *)
(* asks for.                                                               *)
THEOREM EndpointsClosePauses == Spec => []EndpointClosesAPause
  BY Invariance, PTL DEF IInv

(* finish() leaves no speech without its endpoint. *)
THEOREM EndClosesAll == Spec => []EndClosesEverything
  BY Invariance, PTL DEF IInv

(* With a scoring interval no longer than the acoustic gate, the throttle  *)
(* never lets a score from an earlier pause end this one.                  *)
THEOREM ScoreIsFresh ==
  ASSUME TurnInterval <= SilenceTicks
  PROVE  Spec => []FreshScore
<1>1. Init => FreshScore
  BY DEF Init, FreshScore
<1>2. IInv /\ FreshScore /\ [Next]_vars => FreshScore'
  <2> SUFFICES ASSUME IInv, FreshScore, [Next]_vars PROVE FreshScore'
    OBVIOUS
  <2>1. ASSUME NEW d \in Steps, NEW speaking \in BOOLEAN, NEW m \in Completeness,
               Push(d, speaking, m)
        PROVE  FreshScore'
    <3> DEFINE now == at + d
               v == Verdict(gate, now, MaybeScore(gate, scorer, now, m))
    <3>1. now \in Nat /\ at <= now /\ ~ ended
      BY <2>1, StreamAssumption DEF IInv, TypeOK, Push
    <3>2. CASE speaking \/ v = None
      BY <2>1, <3>2 DEF Push, HearSpeech, HearSilence, FreshScore
    <3>3. CASE ~ speaking /\ v = "complete" /\ HasTurn
      <4>1. /\ OpenPause(gate)
            /\ now - gate.since >= SilenceTicks
        BY <3>3, EndpointAssumption DEF Verdict, Reason
      <4>2. gate.had /\ gate.since = quiet /\ quiet \in Nat /\ quiet <= now
        BY <3>1, <4>1
        DEF OpenPause, IInv, TypeOK, GateKnowsTheReadings, HistoryInOrder
      <4>3. SilenceHeld(gate, now) >= SilenceTicks
        BY <3>1, <4>1, <4>2, EndpointAssumption DEF SilenceHeld
      <4>4. scorer.at \in Int
        BY DEF IInv, TypeOK, Scorer
      <4>5. scorer'.at >= quiet
        <5>1. CASE Due(gate, scorer, now)
          BY <2>1, <4>2, <5>1 DEF Push, Scored
        <5>2. CASE ~ Due(gate, scorer, now)
          <6>1. now - scorer.at < TurnInterval
            BY <3>1, <3>3, <4>2, <4>3, <4>4, <5>2, EndpointAssumption DEF Due
          <6>2. scorer' = scorer
            BY <2>1, <5>2 DEF Push, Scored
          <6> QED
            BY <3>1, <4>1, <4>2, <4>4, <6>1, <6>2, EndpointAssumption
        <5> QED BY <5>1, <5>2
      <4>6. last'.scored = scorer'.at /\ last'.quiet = quiet
        BY <2>1, <3>3, <4>2, EndpointAssumption DEF Push, HearSilence, Note, Reason
      <4> QED BY <4>5, <4>6 DEF FreshScore
    <3>4. CASE ~ speaking /\ v # None /\ ~ (v = "complete" /\ HasTurn)
      <4>1. last' = Note(now, v)
        BY <2>1, <3>4 DEF Push, HearSilence
      <4>2. last'.reason = v
        BY <4>1 DEF Note
      <4> QED BY <3>4, <4>2 DEF FreshScore
    <3> QED BY <3>2, <3>3, <3>4
  <2>2. ASSUME NEW m \in Completeness, Finish(m)
        PROVE  FreshScore'
    <3>1. last' = last \/ last'.reason = "flush"
      BY <2>2 DEF Finish, Note
    <3> QED BY <3>1 DEF FreshScore
  <2>3. CASE UNCHANGED vars
    BY <2>3 DEF vars, FreshScore
  <2> QED BY <2>1, <2>2, <2>3 DEF Next
<1> QED BY <1>1, <1>2, Invariance, PTL DEF Spec

-----------------------------------------------------------------------------
(* Endpointing implements Utterances: every push is a step of the abstract *)
(* life of an utterance or leaves it alone, and so is finish.              *)
THEOREM KeepsThePromise == Spec => PromiseKept
<1>1. Init => Promise!Init
  BY DEF Init, FreshGate, Phase, Promise!Init
<1>2. IInv /\ [Next]_vars => [Promise!Next]_Promise!vars
  <2> SUFFICES ASSUME IInv, [Next]_vars PROVE [Promise!Next]_Promise!vars
    OBVIOUS
  <2>t. TypeOK /\ GateKnowsTheReadings
    BY DEF IInv
  <2>1. ASSUME NEW d \in Steps, NEW speaking \in BOOLEAN, NEW m \in Completeness,
               Push(d, speaking, m)
        PROVE  [Promise!Next]_Promise!vars
    <3> DEFINE now == at + d
               score == MaybeScore(gate, scorer, now, m)
               v == Verdict(gate, now, score)
    <3>1. now \in Nat /\ ~ ended /\ ~ ended'
      BY <2>1, <2>t, StreamAssumption DEF TypeOK, Push
    <3>2. gate' = Observed(gate, speaking, now, score)
      BY <2>1 DEF Push
    <3>3. CASE speaking
      <4>1. gate' = [since |-> None, fired |-> None, had |-> TRUE]
        BY <3>2, <3>3 DEF Observed
      <4>2. /\ closed' = closed
            /\ begun' = IF gate.had THEN begun ELSE begun + 1
        BY <2>1, <2>t, <3>1, <3>3 DEF Push, HearSpeech, GateKnowsTheReadings
      <4> QED
        BY <3>1, <4>1, <4>2
        DEF Phase, Promise!Next, Promise!Begin, Promise!Resume, Promise!vars
    <3>4. CASE ~ speaking /\ v = None
      <4>1. gate' = IF gate.had /\ gate.since = None
                    THEN [gate EXCEPT !.since = now] ELSE gate
        BY <3>2, <3>4 DEF Observed
      <4>2. begun' = begun /\ closed' = closed
        BY <2>1, <3>4 DEF Push, HearSilence
      <4> QED
        BY <2>t, <3>1, <4>1, <4>2, EndpointAssumption
        DEF TypeOK, Gate, Phase, Promise!Next, Promise!Pause, Promise!vars
    <3>5. CASE ~ speaking /\ v # None
      <4>1. gate' = [gate EXCEPT !.fired = gate.since, !.had = FALSE]
        BY <3>2, <3>5 DEF Observed, Fired
      <4>2. gate.had /\ gate.since # None
        BY <3>5 DEF Verdict, OpenPause
      <4>3. begun' = begun /\ closed' = closed + 1
        BY <2>1, <3>5 DEF Push, HearSilence
      <4> QED
        BY <2>t, <3>1, <4>1, <4>2, <4>3
        DEF TypeOK, Gate, Phase, Promise!Next, Promise!Close, Promise!vars
    <3> QED BY <3>3, <3>4, <3>5
  <2>2. ASSUME NEW m \in Completeness, Finish(m)
        PROVE  [Promise!Next]_Promise!vars
    <3>1. ~ ended /\ ended' /\ begun' = begun
      BY <2>2 DEF Finish
    <3>2. gate.had <=> FlushVerdict(gate) # None
      BY <2>t, <3>1, EndpointAssumption
      DEF TypeOK, Gate, Reason, GateKnowsTheReadings, FlushVerdict
    <3>3. closed' = IF gate.had THEN closed + 1 ELSE closed
      BY <2>2, <3>2 DEF Finish
    <3>4. Phase # "over" /\ Phase' = "over" /\ (Phase = "quiet" <=> ~ gate.had)
      BY <3>1 DEF Phase
    <3> QED
      BY <3>1, <3>3, <3>4 DEF Promise!Next, Promise!Stop
  <2>3. CASE UNCHANGED vars
    BY <2>3 DEF vars, Phase, Promise!vars
  <2> QED BY <2>1, <2>2, <2>3 DEF Next
<1> QED BY <1>1, <1>2, Invariance, PTL DEF Spec, Promise!Spec, PromiseKept

=============================================================================
