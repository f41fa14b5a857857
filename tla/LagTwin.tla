------------------------------ MODULE LagTwin ------------------------------
(***************************************************************************)
(* The same audio through two Coordinators: one whose caller may fall      *)
(* behind real time and catch up again (the variables of Coordinator), and *)
(* one whose caller never does (the p variables).  Both are told the same  *)
(* by the VAD, the engine, the frontend, the turn detector and the polish  *)
(* chain, so only the lag is between them.                                 *)
(***************************************************************************)
EXTENDS Coordinator

VARIABLES pGate, pScorer, pPolicy, pTracker, pDoc, pLatest, pDegraded, pSpokeYet, pEnded

Prompt == INSTANCE Coordinator WITH
  CanLag <- FALSE,
  gate <- pGate, scorer <- pScorer, policy <- pPolicy, tracker <- pTracker, doc <- pDoc,
  latest <- pLatest, degraded <- pDegraded, spokeYet <- pSpokeYet, ended <- pEnded

twins == <<vars, Prompt!vars>>

TwinInit == Init /\ Prompt!Init

(* One chunk, given to both. *)
BothPush(size) ==
  \E reading \in Readings, segment \in Closing(at + size), measured \in Gate!Completeness,
     rewrites \in BOOLEAN, lagging \in {FALSE, CanLag} :
    /\ Running /\ Prompt!Running
    /\ at + size <= MaxAt
    /\ UNCHANGED <<ended, pEnded>>
    /\ \/ /\ Push(size, reading, segment, None, measured, rewrites, lagging)
          /\ Prompt!Push(size, reading, segment, None, measured, rewrites, FALSE)
          /\ UNCHANGED stable
       \/ \E words \in Sayings, s \in 0 .. MostWords, fragment \in BOOLEAN, conf \in Confidences :
            LET h == Heard(words, s, fragment, conf)
            IN  /\ CanSay(stable, words, s, at + size)
                /\ Push(size, reading, segment, h, measured, rewrites, lagging)
                /\ Prompt!Push(size, reading, segment, h, measured, rewrites, FALSE)
                /\ stable' = SubSeq(words, 1, s)

(* The stream ends for both. *)
BothEnd ==
  \E segment \in Closing(at), words \in Sayings, conf \in Confidences,
     measured \in Gate!Completeness, rewrites \in BOOLEAN :
    LET h == Heard(words, Len(words), FALSE, conf)
    IN  /\ Running /\ Prompt!Running
        /\ CanSay(stable, words, Len(words), at)
        /\ Finish(segment, h, measured, rewrites)
        /\ Prompt!Finish(segment, h, measured, rewrites)
        /\ stable' = words

TwinNext == (\E size \in Steps : BothPush(size)) \/ BothEnd

TwinSpec == TwinInit /\ [][TwinNext]_twins

-----------------------------------------------------------------------------
(* Lag may touch partials and the notice of lag.  The other events count,  *)
(* and a reader knows them by their number among those that do: an event,  *)
(* with those it refers to renumbered.                                     *)
Lasts(event) == event.kind \notin {"partial", "degraded"}

Renumbered(log, i) == Cardinality({j \in 1 .. i : Lasts(log[j])})

Numbers(log, seqs) == [n \in DOMAIN seqs |-> Renumbered(log, seqs[n])]

Reads(log, event) ==
  IF event.kind = "speaker" THEN [event EXCEPT !.seq = Renumbered(log, @)]
  ELSE IF event.kind = "polished"
  THEN [event EXCEPT !.from = Renumbered(log, @), !.to = Renumbered(log, @),
                     !.words = Numbers(log, @)]
  ELSE event

Lasting(log) ==
  {<<Renumbered(log, i), Reads(log, log[i])>> : i \in {i \in DOMAIN log : Lasts(log[i])}}

(* The words waiting for a label. *)
Waiting(log, queue) ==
  [n \in DOMAIN queue |->
     <<Renumbered(log, queue[n].seq), queue[n].start, queue[n].end>>]

(* "It only gates whether partials are emitted" (push): a caller that is   *)
(* behind reads the same turns, words, labels, endpoints and polish, at    *)
(* the same stream positions, as one that is not; and what is still        *)
(* waiting for a label or a polish is the same too.                        *)
LagChangesNothing ==
  /\ Lasting(doc.log) = Lasting(pDoc.log)
  /\ <<gate, scorer, policy, tracker, latest, spokeYet, ended>>
       = <<pGate, pScorer, pPolicy, pTracker, pLatest, pSpokeYet, pEnded>>
  /\ <<doc.turn, doc.speaker, doc.lastEnd, doc.error>>
       = <<pDoc.turn, pDoc.speaker, pDoc.lastEnd, pDoc.error>>
  /\ Waiting(doc.log, doc.unlabeled) = Waiting(pDoc.log, pDoc.unlabeled)
  /\ Numbers(doc.log, doc.utterance) = Numbers(pDoc.log, pDoc.utterance)

=============================================================================
