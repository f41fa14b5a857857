--------------------------- MODULE Serving_proofs ---------------------------
(***************************************************************************)
(* The server, for every number of connections, every limit and any burst  *)
(* of events.  The admission counter is the number of sessions there are,  *)
(* and the server implements Slots: both rest on one lemma, ServerStep,    *)
(* which says what a step of the server is to its slots.  The frames of a  *)
(* client are its session's log: FrameInv says so of one connection at a   *)
(* time (Fits), since no step touches the frames of two but the crash.     *)
(*                                                                         *)
(* Composing the handlers with the builds adds no behaviour to either: a   *)
(* step of Serving is, for the handlers, a step of Server or none, and for *)
(* the builds a step of ModelStore or none.  What is proved of the two     *)
(* parts therefore holds of the whole.                                     *)
(***************************************************************************)
EXTENDS Serving, FiniteSetTheorems, TLAPS

Refused == {c \in Clients : pc[c] = "refused"}

PcOK == pc \in [Clients -> Held \cup Over \cup {"away"}]

(* The inductive invariant: the counter is what it counts, and within the  *)
(* limit.                                                                  *)
SlotInv ==
  /\ PcOK
  /\ active \in Nat
  /\ SlotsAreCounted
  /\ active <= Limit

(* There are finitely many holders at any time. *)
LEMMA HoldersFinite == IsFiniteSet(Holders) /\ Cardinality(Holders) \in Nat
<1>1. IsFiniteSet(Clients)
  BY ServerAssumption
<1>2. Holders \subseteq Clients
  BY DEF Holders
<1>3. IsFiniteSet(Holders)
  BY <1>1, <1>2, FS_Subset
<1> QED
  BY <1>3, FS_CardinalityType

(* What a step can be to the slots. *)
Taken(c) == /\ c \notin Holders /\ active < Limit /\ active' = active + 1
            /\ Holders' = Holders \cup {c} /\ Refused' = Refused
TurnedAway(c) == /\ active >= Limit /\ active' = active
                 /\ Holders' = Holders /\ Refused' = Refused \cup {c}
Given(c) == /\ c \in Holders /\ active' = Released
            /\ Holders' = Holders \ {c} /\ Refused' = Refused
Untouched == active' = active /\ Holders' = Holders /\ Refused' = Refused
Emptied == active' = 0 /\ Holders' = {} /\ Refused' = Refused

(* A handler that ends gives its slot back and touches no other.           *)
LEMMA Ending ==
  ASSUME PcOK, NEW c \in Clients, pc[c] \in Held, End(c)
  PROVE  PcOK' /\ Given(c)
<1>1. pc' = [pc EXCEPT ![c] = "gone"] /\ active' = Released
  BY DEF End, Forget
<1>2. PcOK'
  BY <1>1 DEF PcOK, Over
<1>3. c \in Holders
  BY DEF Holders
<1>4. Holders' = Holders \ {c}
  BY <1>1, <1>2 DEF Holders, Held, PcOK
<1>5. Refused' = Refused
  BY <1>1, <1>2 DEF Refused, Held, PcOK
<1> QED
  BY <1>1, <1>2, <1>3, <1>4, <1>5 DEF Given

(* A handler that goes from one await of its session to the next keeps it. *)
LEMMA Moving ==
  ASSUME PcOK, NEW c \in Clients, pc[c] \in Held, NEW phase \in Held,
         pc' = [pc EXCEPT ![c] = phase], active' = active
  PROVE  PcOK' /\ Untouched
<1>1. PcOK'
  BY DEF PcOK
<1>2. Holders' = Holders
  BY <1>1 DEF Holders, PcOK
<1>3. Refused' = Refused
  BY <1>1 DEF Refused, Held, PcOK
<1> QED
  BY <1>1, <1>2, <1>3 DEF Untouched

LEMMA Still ==
  ASSUME PcOK, pc' = pc, active' = active
  PROVE  PcOK' /\ Untouched
BY DEF PcOK, Untouched, Holders, Refused

(* Every step of the server is one of the five. *)
LEMMA ServerStep ==
  ASSUME PcOK, [Next]_serverVars
  PROVE  /\ PcOK'
         /\ \/ \E c \in Clients : Taken(c) \/ TurnedAway(c) \/ Given(c)
            \/ Untouched
            \/ Emptied
<1>1. CASE UNCHANGED serverVars
  <2>1. pc' = pc /\ active' = active
    BY <1>1 DEF serverVars
  <2> QED
    BY <2>1, Still
<1>2. CASE Crash
  <2>1. pc' = [c \in Clients |-> IF pc[c] \in {"away", "refused"} THEN pc[c] ELSE "gone"] /\ active' = 0
    BY <1>2 DEF Crash
  <2>2. PcOK'
    BY <2>1 DEF PcOK, Over
  <2>3. Holders' = {}
    BY <2>1 DEF Holders, Held
  <2>4. Refused' = Refused
    BY <2>1 DEF Refused
  <2> QED
    BY <2>1, <2>2, <2>3, <2>4 DEF Emptied
<1>3. ASSUME NEW c \in Clients, Client(c)
      PROVE  PcOK' /\ Untouched
  <2>1. pc' = pc /\ active' = active
    BY <1>3 DEF Client, Say, HangUp
  <2> QED
    BY <2>1, Still
<1>4. ASSUME NEW c \in Clients, Admit(c)
      PROVE  PcOK' /\ Taken(c)
  <2>1. pc[c] = "away" /\ active < Limit /\ active' = active + 1 /\ pc' = [pc EXCEPT ![c] = "building"]
    BY <1>4 DEF Admit
  <2>2. PcOK'
    BY <2>1 DEF PcOK, Held
  <2>3. c \notin Holders /\ Holders' = Holders \cup {c}
    BY <2>1, <2>2 DEF Holders, Held, PcOK
  <2>4. Refused' = Refused
    BY <2>1, <2>2 DEF Refused, PcOK
  <2> QED
    BY <2>1, <2>2, <2>3, <2>4 DEF Taken
<1>5. ASSUME NEW c \in Clients, Refuse(c)
      PROVE  PcOK' /\ TurnedAway(c)
  <2>1. pc[c] = "away" /\ active >= Limit /\ active' = active /\ pc' = [pc EXCEPT ![c] = "refused"]
    BY <1>5 DEF Refuse, Forget
  <2>2. PcOK'
    BY <2>1 DEF PcOK, Over
  <2>3. Holders' = Holders
    BY <2>1, <2>2 DEF Holders, Held, PcOK
  <2>4. Refused' = Refused \cup {c}
    BY <2>1, <2>2 DEF Refused, PcOK
  <2> QED
    BY <2>1, <2>2, <2>3, <2>4 DEF TurnedAway
<1>6. ASSUME NEW c \in Clients, BuildFails(c)
      PROVE  PcOK' /\ Given(c)
  BY <1>6, Ending DEF BuildFails, Held
<1>7. ASSUME NEW c \in Clients, Greet(c)
      PROVE  PcOK' /\ (Given(c) \/ Untouched)
  <2>1. CASE link[c] = "up"
    BY <1>7, <2>1, Moving DEF Greet, Held
  <2>2. CASE link[c] # "up"
    BY <1>7, <2>2, Ending DEF Greet, Held
  <2> QED
    BY <2>1, <2>2
<1>8. ASSUME NEW c \in Clients, NEW n \in 0 .. MaxBurst, Receive(c, n)
      PROVE  PcOK' /\ (Given(c) \/ Untouched)
  <2>1. pc[c] \in Held
    BY <1>8 DEF Receive, Held
  <2>2. CASE End(c)
    BY <2>1, <2>2, Ending
  <2>3. CASE \E phase \in {"pushing", "finishing"} : Sends(c, n, phase)
    <3>1. PICK phase \in {"pushing", "finishing"} : Sends(c, n, phase)
      BY <2>3
    <3>2. phase \in Held /\ pc' = [pc EXCEPT ![c] = phase] /\ active' = active
      BY <3>1 DEF Sends, Held
    <3> QED
      BY <2>1, <3>2, Moving
  <2>4. End(c) \/ Sends(c, n, "pushing") \/ Sends(c, n, "finishing")
    BY <1>8 DEF Receive
  <2> QED
    BY <2>2, <2>3, <2>4
<1>9. ASSUME NEW c \in Clients, NEW n \in 0 .. MaxBurst, EndOfMessages(c, n)
      PROVE  PcOK' /\ (Given(c) \/ Untouched)
  <2>1. pc[c] \in Held
    BY <1>9 DEF EndOfMessages, Held
  <2>2. CASE End(c)
    BY <2>1, <2>2, Ending
  <2>3. CASE Sends(c, n, "finishing")
    <3>1. "finishing" \in Held /\ pc' = [pc EXCEPT ![c] = "finishing"] /\ active' = active
      BY <2>3 DEF Sends, Held
    <3> QED
      BY <2>1, <3>1, Moving
  <2> QED
    BY <1>9, <2>2, <2>3 DEF EndOfMessages
<1>10. ASSUME NEW c \in Clients, Send(c)
       PROVE  PcOK' /\ (Given(c) \/ Untouched)
  <2>1. pc[c] \in Held
    BY <1>10 DEF Send, Held
  <2>2. CASE link[c] = "up"
    <3>1. pc' = pc /\ active' = active
      BY <1>10, <2>2 DEF Send
    <3> QED
      BY <3>1, Still
  <2>3. CASE link[c] # "up"
    BY <1>10, <2>1, <2>3, Ending DEF Send
  <2> QED
    BY <2>2, <2>3
<1>11. ASSUME NEW c \in Clients, Resume(c)
       PROVE  PcOK' /\ Untouched
  <2>1. pc[c] \in Held /\ "receiving" \in Held /\ pc' = [pc EXCEPT ![c] = "receiving"] /\ active' = active
    BY <1>11 DEF Resume, Held
  <2> QED
    BY <2>1, Moving
<1>12. ASSUME NEW c \in Clients, Close(c)
       PROVE  PcOK' /\ Given(c)
  BY <1>12, Ending DEF Close, Held
<1> QED
  BY <1>1, <1>2, <1>3, <1>4, <1>5, <1>6, <1>7, <1>8, <1>9, <1>10, <1>11, <1>12 DEF Next, Talk

LEMMA SlotInit == Init => SlotInv
<1> SUFFICES ASSUME Init PROVE SlotInv
  OBVIOUS
<1>1. pc = [c \in Clients |-> "away"] /\ active = 0
  BY DEF Init
<1>2. PcOK
  BY <1>1 DEF PcOK
<1>3. Holders = {}
  BY <1>1 DEF Holders, Held
<1>4. SlotsAreCounted
  BY <1>1, <1>3, FS_EmptySet DEF SlotsAreCounted
<1>5. active <= Limit
  BY <1>1, ServerAssumption
<1> QED
  BY <1>1, <1>2, <1>4, <1>5 DEF SlotInv

LEMMA SlotStep == SlotInv /\ [Next]_serverVars => SlotInv'
<1> SUFFICES ASSUME SlotInv, [Next]_serverVars PROVE SlotInv'
  OBVIOUS
<1>1. PcOK' /\ ((\E c \in Clients : Taken(c) \/ TurnedAway(c) \/ Given(c)) \/ Untouched \/ Emptied)
  BY ServerStep DEF SlotInv
<1>2. IsFiniteSet(Holders) /\ active \in Nat /\ active = Cardinality(Holders) /\ active <= Limit
  BY HoldersFinite DEF SlotInv, SlotsAreCounted
<1>3. ASSUME NEW c \in Clients, Taken(c)
      PROVE  active' \in Nat /\ active' = Cardinality(Holders') /\ active' <= Limit
  <2>1. Cardinality(Holders \cup {c}) = Cardinality(Holders) + 1
    BY <1>2, <1>3, FS_AddElement DEF Taken
  <2> QED
    BY <1>2, <1>3, <2>1, ServerAssumption DEF Taken
<1>4. ASSUME NEW c \in Clients, TurnedAway(c)
      PROVE  active' \in Nat /\ active' = Cardinality(Holders') /\ active' <= Limit
  BY <1>2, <1>4 DEF TurnedAway
<1>5. ASSUME NEW c \in Clients, Given(c)
      PROVE  active' \in Nat /\ active' = Cardinality(Holders') /\ active' <= Limit
  <2>1. c \in Holders /\ Holders' = Holders \ {c} /\ active' = Released
    BY <1>5 DEF Given
  <2>2. Cardinality(Holders \ {c}) = Cardinality(Holders) - 1
    BY <1>2, <2>1, FS_RemoveElement
  <2>3. Cardinality(Holders) # 0
    BY <1>2, <2>1, FS_EmptySet
  <2> QED
    BY <1>2, <2>1, <2>2, <2>3, ServerAssumption DEF Released
<1>6. ASSUME Untouched
      PROVE  active' \in Nat /\ active' = Cardinality(Holders') /\ active' <= Limit
  BY <1>2, <1>6 DEF Untouched
<1>7. ASSUME Emptied
      PROVE  active' \in Nat /\ active' = Cardinality(Holders') /\ active' <= Limit
  BY <1>7, FS_EmptySet, ServerAssumption DEF Emptied
<1>8. active' \in Nat /\ active' = Cardinality(Holders') /\ active' <= Limit
  BY <1>1, <1>3, <1>4, <1>5, <1>6, <1>7
<1> QED
  BY <1>1, <1>8 DEF SlotInv, SlotsAreCounted

(* The counter of the admission limit is the number of sessions that hold  *)
(* a slot, however many clients come and however their sessions end.       *)
THEOREM SlotsCounted == Spec => []SlotsAreCounted
<1>1. SlotInv => SlotsAreCounted
  BY DEF SlotInv
<1> QED
  BY SlotInit, SlotStep, <1>1, PTL DEF Spec

(* The server implements Slots: no more than Limit sessions at once, and   *)
(* nobody refused while a slot is free.                                    *)
THEOREM CapIsKept == Spec => KeepsTheCap
<1>1. Init => Cap!Init
  <2> SUFFICES ASSUME Init PROVE Cap!Init
    OBVIOUS
  <2>1. \A c \in Clients : pc[c] = "away"
    BY DEF Init
  <2> QED
    BY <2>1 DEF Cap!Init, Holders, Held
<1>2. SlotInv /\ [Next]_serverVars => [Cap!Next]_(Cap!vars)
  <2> SUFFICES ASSUME SlotInv, [Next]_serverVars PROVE [Cap!Next]_(Cap!vars)
    OBVIOUS
  <2>1. (\E c \in Clients : Taken(c) \/ TurnedAway(c) \/ Given(c)) \/ Untouched \/ Emptied
    BY ServerStep DEF SlotInv
  <2>0. Cap!Cardinality(Holders) = Cardinality(Holders)
    BY DEF Cardinality, Cap!Cardinality, IsFiniteSet, Cap!IsFiniteSet
  <2>2. active \in Nat /\ Cap!Cardinality(Holders) = active /\ active <= Limit
    BY <2>0 DEF SlotInv, SlotsAreCounted
  <2>3. ASSUME NEW c \in Clients, Taken(c) PROVE Cap!Take(c)
    BY <2>2, <2>3 DEF Taken, Cap!Take, Refused
  <2>4. ASSUME NEW c \in Clients, TurnedAway(c) PROVE Cap!TurnAway(c)
    BY <2>2, <2>4, ServerAssumption DEF TurnedAway, Cap!TurnAway, Refused
  <2>5. ASSUME NEW c \in Clients, Given(c) PROVE Cap!Give(c)
    BY <2>5 DEF Given, Cap!Give, Refused
  <2>6. ASSUME Untouched PROVE UNCHANGED Cap!vars
    BY <2>6 DEF Untouched, Cap!vars, Refused
  <2>7. ASSUME Emptied PROVE Cap!Die
    BY <2>7 DEF Emptied, Cap!Die, Refused
  <2> QED
    BY <2>1, <2>3, <2>4, <2>5, <2>6, <2>7 DEF Cap!Next
<1> QED
  BY SlotInit, SlotStep, <1>1, <1>2, PTL DEF Spec, KeepsTheCap, Cap!Spec

-----------------------------------------------------------------------------
(* The frames a client is sent.                                            *)
Greeted == Held \ {"building"}

(* The state of one connection, wherever its handler awaits: the frames    *)
(* are the log from its first event on, up to the queue of the push under  *)
(* way; a handler at its receive loop has no push under way; and nothing   *)
(* is left of a session, or there yet, outside one.                        *)
Fits(where, logged, queued, frames) ==
  /\ logged \in Nat /\ queued \in Nat /\ frames \in Seq(Nat)
  /\ \A i \in 1 .. Len(frames) : frames[i] = i - 1
  /\ where \in Greeted => Len(frames) = logged - queued + 1
  /\ where = "receiving" => queued = 0
  /\ where \notin Greeted => logged = 0 /\ queued = 0 /\ frames = << >>

FrameInv ==
  /\ PcOK
  /\ log \in [Clients -> Nat] /\ queue \in [Clients -> Nat] /\ got \in [Clients -> Seq(Nat)]
  /\ \A c \in Clients : Fits(pc[c], log[c], queue[c], got[c])

(* A step of one connection keeps the invariant if it does for that one.   *)
LEMMA OneConnection ==
  ASSUME FrameInv, NEW c \in Clients,
         NEW where \in Held \cup Over \cup {"away"}, NEW logged, NEW queued, NEW frames,
         pc' = [pc EXCEPT ![c] = where], log' = [log EXCEPT ![c] = logged],
         queue' = [queue EXCEPT ![c] = queued], got' = [got EXCEPT ![c] = frames],
         Fits(where, logged, queued, frames)
  PROVE  FrameInv'
<1>1. logged \in Nat /\ queued \in Nat /\ frames \in Seq(Nat)
  BY DEF Fits
<1>2. PcOK' /\ log' \in [Clients -> Nat] /\ queue' \in [Clients -> Nat] /\ got' \in [Clients -> Seq(Nat)]
  BY <1>1 DEF FrameInv, PcOK
<1>3. ASSUME NEW b \in Clients
      PROVE  Fits(pc'[b], log'[b], queue'[b], got'[b])
  <2>1. CASE b = c
    <3>1. pc'[b] = where /\ log'[b] = logged /\ queue'[b] = queued /\ got'[b] = frames
      BY <2>1 DEF FrameInv, PcOK
    <3> QED
      BY <3>1
  <2>2. CASE b # c
    <3>1. pc'[b] = pc[b] /\ log'[b] = log[b] /\ queue'[b] = queue[b] /\ got'[b] = got[b]
      BY <2>2 DEF FrameInv, PcOK
    <3> QED
      BY <3>1 DEF FrameInv
  <2> QED
    BY <2>1, <2>2
<1> QED
  BY <1>2, <1>3 DEF FrameInv, Fits

(* A handler that goes on without a frame or an event. *)
LEMMA GoesOn ==
  ASSUME FrameInv, NEW c \in Clients, NEW where \in Held \cup Over \cup {"away"},
         pc' = [pc EXCEPT ![c] = where], log' = log, queue' = queue, got' = got,
         Fits(where, log[c], queue[c], got[c])
  PROVE  FrameInv'
<1>1. PcOK' /\ \A b \in Clients : pc'[b] = IF b = c THEN where ELSE pc[b]
  BY DEF FrameInv, PcOK
<1>2. \A b \in Clients : Fits(pc'[b], log'[b], queue'[b], got'[b])
  BY <1>1 DEF FrameInv
<1> QED
  BY <1>1, <1>2 DEF FrameInv, Fits

(* Nothing is left of a connection that ends. *)
LEMMA FramesForgotten ==
  ASSUME FrameInv, NEW c \in Clients, NEW how \in Over, Forget(c, how)
  PROVE  FrameInv'
<1>1. Fits(how, 0, 0, << >>)
  BY DEF Fits, Over, Greeted, Held
<1>2. pc' = [pc EXCEPT ![c] = how] /\ log' = [log EXCEPT ![c] = 0] /\ queue' = [queue EXCEPT ![c] = 0]
      /\ got' = [got EXCEPT ![c] = << >>]
  BY DEF Forget
<1> QED
  BY <1>1, <1>2, OneConnection

LEMMA FramesEnded ==
  ASSUME FrameInv, NEW c \in Clients, End(c)
  PROVE  FrameInv'
BY FramesForgotten DEF End, Over

(* Logging a push's events before the first is sent keeps what was sent a  *)
(* prefix of the log, as long as no push is under way.                     *)
LEMMA Logged ==
  ASSUME FrameInv, NEW c \in Clients, NEW n \in 0 .. MaxBurst,
         NEW phase \in {"pushing", "finishing"}, pc[c] = "receiving", Sends(c, n, phase)
  PROVE  FrameInv'
<1>1. Fits("receiving", log[c], queue[c], got[c])
  BY DEF FrameInv
<1>2. phase \in Greeted /\ "receiving" \in Greeted /\ phase # "receiving" /\ n \in Nat
  BY ServerAssumption DEF Greeted, Held
<1>3. Fits(phase, log[c] + n, n, got[c])
  BY <1>1, <1>2 DEF Fits
<1>4. pc' = [pc EXCEPT ![c] = phase] /\ log' = [log EXCEPT ![c] = log[c] + n]
      /\ queue' = [queue EXCEPT ![c] = n] /\ got' = [got EXCEPT ![c] = got[c]]
  BY DEF Sends, FrameInv
<1>5. phase \in Held \cup Over \cup {"away"}
  BY DEF Held
<1> QED
  BY <1>3, <1>4, <1>5, OneConnection

LEMMA FrameStep == FrameInv /\ [Next]_serverVars => FrameInv'
<1> SUFFICES ASSUME FrameInv, [Next]_serverVars PROVE FrameInv'
  OBVIOUS
<1>0. ASSUME NEW c \in Clients
      PROVE  /\ Fits(pc[c], log[c], queue[c], got[c])
             /\ pc[c] \in Held \cup Over \cup {"away"}
             /\ pc = [pc EXCEPT ![c] = pc[c]] /\ log = [log EXCEPT ![c] = log[c]]
             /\ queue = [queue EXCEPT ![c] = queue[c]] /\ got = [got EXCEPT ![c] = got[c]]
  BY DEF FrameInv, PcOK
<1>1. CASE UNCHANGED serverVars
  BY <1>1 DEF serverVars, FrameInv, PcOK, Fits
<1>2. CASE Crash
  <2>1. /\ pc' = [c \in Clients |-> IF pc[c] \in {"away", "refused"} THEN pc[c] ELSE "gone"]
        /\ log' = [c \in Clients |-> 0] /\ queue' = [c \in Clients |-> 0] /\ got' = [c \in Clients |-> << >>]
    BY <1>2 DEF Crash
  <2>2. PcOK' /\ log' \in [Clients -> Nat] /\ queue' \in [Clients -> Nat] /\ got' \in [Clients -> Seq(Nat)]
    BY <2>1 DEF FrameInv, PcOK, Over
  <2>3. ASSUME NEW c \in Clients
        PROVE  Fits(pc'[c], log'[c], queue'[c], got'[c])
    <3>1. pc'[c] \in {"away", "refused", "gone"} /\ log'[c] = 0 /\ queue'[c] = 0 /\ got'[c] = << >>
      BY <2>1
    <3> QED
      BY <3>1 DEF Fits, Greeted, Held
  <2> QED
    BY <2>2, <2>3 DEF FrameInv, Fits
<1>3. ASSUME NEW c \in Clients, Client(c)
      PROVE  FrameInv'
  <2>1. pc' = pc /\ log' = log /\ queue' = queue /\ got' = got
    BY <1>3 DEF Client, Say, HangUp
  <2> QED
    BY <2>1 DEF FrameInv, PcOK, Fits
<1>4. ASSUME NEW c \in Clients, Admit(c)
      PROVE  FrameInv'
  <2>1. pc[c] = "away" /\ pc' = [pc EXCEPT ![c] = "building"] /\ log' = log /\ queue' = queue /\ got' = got
    BY <1>4 DEF Admit
  <2>2. Fits("building", log[c], queue[c], got[c])
    BY <1>0, <2>1 DEF Fits, Greeted, Held
  <2>3. "building" \in Held \cup Over \cup {"away"}
    BY DEF Held
  <2> QED
    BY <2>1, <2>2, <2>3, GoesOn
<1>5. ASSUME NEW c \in Clients, Refuse(c)
      PROVE  FrameInv'
  BY <1>5, FramesForgotten DEF Refuse, Over
<1>6. ASSUME NEW c \in Clients, BuildFails(c)
      PROVE  FrameInv'
  BY <1>6, FramesEnded DEF BuildFails
<1>7. ASSUME NEW c \in Clients, Greet(c)
      PROVE  FrameInv'
  <2>1. CASE link[c] = "up"
    <3>1. /\ pc[c] = "building" /\ pc' = [pc EXCEPT ![c] = "receiving"] /\ log' = log /\ queue' = queue
          /\ got' = [got EXCEPT ![c] = Append(got[c], 0)]
      BY <1>0, <1>7, <2>1 DEF Greet, FrameInv
    <3>2. log[c] = 0 /\ queue[c] = 0 /\ got[c] = << >>
      BY <1>0, <3>1 DEF Fits, Greeted
    <3>3. Fits("receiving", log[c], queue[c], Append(got[c], 0))
      BY <3>2 DEF Fits, Greeted, Held
    <3>4. "receiving" \in Held \cup Over \cup {"away"}
      BY DEF Held
    <3>5. PICK logged, queued, frames :
            logged = log[c] /\ queued = queue[c] /\ frames = Append(got[c], 0)
      OBVIOUS
    <3>6. /\ pc' = [pc EXCEPT ![c] = "receiving"] /\ log' = [log EXCEPT ![c] = logged]
          /\ queue' = [queue EXCEPT ![c] = queued] /\ got' = [got EXCEPT ![c] = frames]
          /\ Fits("receiving", logged, queued, frames)
      BY <1>0, <3>1, <3>3, <3>5
    <3> QED
      BY <3>4, <3>6, OneConnection
  <2>2. CASE link[c] # "up"
    BY <1>7, <2>2, FramesEnded DEF Greet
  <2> QED
    BY <2>1, <2>2
<1>8. ASSUME NEW c \in Clients, NEW n \in 0 .. MaxBurst, Receive(c, n)
      PROVE  FrameInv'
  <2>1. pc[c] = "receiving" /\ (Sends(c, n, "pushing") \/ Sends(c, n, "finishing") \/ End(c))
    BY <1>8 DEF Receive
  <2> QED
    BY <2>1, Logged, FramesEnded
<1>9. ASSUME NEW c \in Clients, NEW n \in 0 .. MaxBurst, EndOfMessages(c, n)
      PROVE  FrameInv'
  BY <1>9, Logged, FramesEnded DEF EndOfMessages
<1>10. ASSUME NEW c \in Clients, Send(c)
       PROVE  FrameInv'
  <2>1. CASE link[c] = "up"
    <3>1. /\ pc[c] \in {"pushing", "finishing"} /\ queue[c] > 0 /\ pc' = pc /\ log' = log
          /\ queue' = [queue EXCEPT ![c] = queue[c] - 1]
          /\ got' = [got EXCEPT ![c] = Append(got[c], NextFrame(c))]
      BY <1>0, <1>10, <2>1 DEF Send, FrameInv
    <3>2. pc[c] \in Greeted /\ pc[c] # "receiving"
      BY <3>1 DEF Greeted, Held
    <3>3. /\ log[c] \in Nat /\ queue[c] \in Nat /\ got[c] \in Seq(Nat)
          /\ \A i \in 1 .. Len(got[c]) : got[c][i] = i - 1
          /\ Len(got[c]) = log[c] - queue[c] + 1
      BY <1>0, <3>2 DEF Fits
    <3>4. NextFrame(c) = Len(got[c]) /\ Len(got[c]) \in Nat
      BY <3>3 DEF NextFrame
    <3> DEFINE where == pc[c]
               logged == log[c]
               frames == Append(got[c], Len(got[c]))
    <3>5. frames \in Seq(Nat) /\ Len(frames) = Len(got[c]) + 1
      BY <3>3, <3>4
    <3>6. \A i \in 1 .. Len(frames) : frames[i] = i - 1
      <4> SUFFICES ASSUME NEW i \in 1 .. Len(frames) PROVE frames[i] = i - 1
        OBVIOUS
      <4>1. CASE i = Len(got[c]) + 1
        BY <3>3, <4>1
      <4>2. CASE i \in 1 .. Len(got[c])
        BY <3>3, <4>2
      <4> QED
        BY <3>4, <3>5, <4>1, <4>2
    <3> HIDE DEF frames
    <3>7. queue[c] - 1 \in Nat /\ Len(frames) = log[c] - (queue[c] - 1) + 1
      BY <3>1, <3>3, <3>4, <3>5, SMTT(30)
    <3>8. Fits(where, logged, queue[c] - 1, frames)
      BY <3>2, <3>3, <3>5, <3>6, <3>7 DEF Fits
    <3>9. /\ pc' = [pc EXCEPT ![c] = where] /\ log' = [log EXCEPT ![c] = logged] /\ got' = [got EXCEPT ![c] = frames]
          /\ where \in Held \cup Over \cup {"away"}
      BY <1>0, <3>1, <3>4 DEF FrameInv, PcOK, frames
    <3> HIDE DEF where, logged
    <3> QED
      BY <3>1, <3>8, <3>9, OneConnection
  <2>2. CASE link[c] # "up"
    BY <1>10, <2>2, FramesEnded DEF Send
  <2> QED
    BY <2>1, <2>2
<1>11. ASSUME NEW c \in Clients, Resume(c)
       PROVE  FrameInv'
  <2>1. /\ pc[c] = "pushing" /\ queue[c] = 0 /\ pc' = [pc EXCEPT ![c] = "receiving"]
        /\ log' = log /\ queue' = queue /\ got' = got
    BY <1>11 DEF Resume
  <2>2. "receiving" \in Held \cup Over \cup {"away"} /\ Fits("receiving", log[c], queue[c], got[c])
    BY <1>0, <2>1 DEF Fits, Greeted, Held
  <2> QED
    BY <2>1, <2>2, GoesOn
<1>12. ASSUME NEW c \in Clients, Close(c)
       PROVE  FrameInv'
  BY <1>12, FramesEnded DEF Close
<1> QED
  BY <1>1, <1>2, <1>3, <1>4, <1>5, <1>6, <1>7, <1>8, <1>9, <1>10, <1>11, <1>12 DEF Next, Talk

LEMMA FrameInit == Init => FrameInv
BY DEF Init, FrameInv, PcOK, Fits, Greeted, Held

LEMMA FramesOfInv == FrameInv => FramesFollowTheLog
<1> SUFFICES ASSUME FrameInv, NEW c \in Clients
             PROVE  /\ \A i \in DOMAIN got[c] : got[c][i] = i - 1
                    /\ pc[c] \in Held \ {"building"} => Len(got[c]) = log[c] - queue[c] + 1
                    /\ pc[c] \notin Held => got[c] = << >>
  BY DEF FramesFollowTheLog
<1>1. Fits(pc[c], log[c], queue[c], got[c])
  BY DEF FrameInv
<1>2. DOMAIN got[c] = 1 .. Len(got[c])
  BY DEF FrameInv
<1>3. pc[c] \notin Held => pc[c] \notin Greeted
  BY DEF Greeted
<1> QED
  BY <1>1, <1>2, <1>3 DEF Fits, Greeted

(* session.py:94-105, app.py:173-189.  What a client has been sent is      *)
(* hello and then its session's log from the first event on, without a gap *)
(* or a repeat, whatever the client says, whenever its link fails, and     *)
(* whatever the other connections do.                                      *)
THEOREM FramesAreTheLog == Spec => []FramesFollowTheLog
BY FrameInit, FrameStep, FramesOfInv, PTL DEF Spec

-----------------------------------------------------------------------------
(* What a client has said and a handler has not read.                      *)
TalkOK == /\ link \in [Clients -> {"up", "closed", "lost"}]
          /\ inbox \in [Clients -> Seq(Message)]
          /\ said \in [Clients -> Nat] /\ \A c \in Clients : said[c] <= MaxSaid[c]

LEMMA TalkForgotten ==
  ASSUME TalkOK, NEW c \in Clients, NEW how, Forget(c, how)
  PROVE  TalkOK'
<1>1. link' = [link EXCEPT ![c] = "closed"] /\ inbox' = [inbox EXCEPT ![c] = << >>] /\ said' = [said EXCEPT ![c] = 0]
  BY DEF Forget
<1>2. link' \in [Clients -> {"up", "closed", "lost"}] /\ inbox' \in [Clients -> Seq(Message)] /\ said' \in [Clients -> Nat]
  BY <1>1 DEF TalkOK
<1>3. \A b \in Clients : MaxSaid[b] \in Nat
  BY ServerAssumption
<1>4. \A b \in Clients : said'[b] <= MaxSaid[b]
  BY <1>1, <1>3 DEF TalkOK
<1> QED
  BY <1>2, <1>4 DEF TalkOK

LEMMA TalkStep == TalkOK /\ [Next]_serverVars => TalkOK'
<1> SUFFICES ASSUME TalkOK, [Next]_serverVars PROVE TalkOK'
  OBVIOUS
<1>1. CASE UNCHANGED <<link, inbox, said>>
  BY <1>1 DEF TalkOK
<1>2. CASE Crash
  <2>1. /\ link' = [c \in Clients |-> IF pc[c] = "away" THEN "up" ELSE "closed"]
        /\ inbox' = [c \in Clients |-> << >>] /\ said' = [c \in Clients |-> 0]
    BY <1>2 DEF Crash
  <2>2. \A c \in Clients : MaxSaid[c] \in Nat
    BY ServerAssumption
  <2> QED
    BY <2>1, <2>2 DEF TalkOK
<1>3. ASSUME NEW c \in Clients, NEW m \in Message, Say(c, m)
      PROVE  TalkOK'
  <2>1. /\ link' = link /\ inbox' = [inbox EXCEPT ![c] = Append(inbox[c], m)]
        /\ said' = [said EXCEPT ![c] = said[c] + 1] /\ said[c] < MaxSaid[c]
    BY <1>3 DEF Say, TalkOK
  <2>2. \A b \in Clients : MaxSaid[b] \in Nat
    BY ServerAssumption
  <2>3. inbox' \in [Clients -> Seq(Message)]
    BY <2>1 DEF TalkOK
  <2>4. said' \in [Clients -> Nat] /\ \A b \in Clients : said'[b] <= MaxSaid[b]
    BY <2>1, <2>2 DEF TalkOK
  <2> QED
    BY <2>1, <2>3, <2>4 DEF TalkOK
<1>4. ASSUME NEW c \in Clients, NEW how \in {"closed", "lost"}, HangUp(c, how)
      PROVE  TalkOK'
  BY <1>4 DEF HangUp, TalkOK
<1>5. ASSUME NEW c \in Clients, NEW how, Forget(c, how)
      PROVE  TalkOK'
  BY <1>5, TalkForgotten
<1>6. ASSUME NEW c \in Clients, NEW n \in 0 .. MaxBurst, Receive(c, n)
      PROVE  TalkOK'
  <2>1. CASE inbox' = [inbox EXCEPT ![c] = Tail(inbox[c])] /\ link' = link /\ said' = said /\ inbox[c] # << >>
    BY <2>1 DEF TalkOK
  <2>2. CASE Forget(c, "gone")
    BY <1>5, <2>2
  <2> QED
    BY <1>6, <2>1, <2>2 DEF Receive, Sends, End, TalkOK
<1> QED
  <2>1. CASE UNCHANGED serverVars
    BY <1>1, <2>1 DEF serverVars
  <2>2. CASE \E c \in Clients : Admit(c) \/ Resume(c)
    BY <1>1, <2>2 DEF Admit, Resume
  <2>3. CASE \E c \in Clients : Refuse(c) \/ BuildFails(c) \/ Close(c)
    BY <1>5, <2>3 DEF Refuse, BuildFails, Close, End
  <2>4. CASE \E c \in Clients : Greet(c) \/ Send(c)
    BY <1>1, <1>5, <2>4 DEF Greet, Send, End
  <2>5. CASE \E c \in Clients, n \in 0 .. MaxBurst : EndOfMessages(c, n)
    BY <1>1, <1>5, <2>5 DEF EndOfMessages, Sends, End
  <2>6. CASE \E c \in Clients : Client(c)
    BY <1>3, <1>4, <2>6 DEF Client
  <2> QED
    BY <1>2, <1>6, <2>1, <2>2, <2>3, <2>4, <2>5, <2>6 DEF Next, Talk

(* Every reachable state of the server has its type: the counter is never  *)
(* negative and never past the limit, and no client is owed a negative     *)
(* number of frames.                                                       *)
THEOREM ServerTypeCorrect == Spec => []TypeOK
<1>1. Init => TalkOK
  <2>1. \A c \in Clients : MaxSaid[c] \in Nat
    BY ServerAssumption
  <2> QED
    BY <2>1 DEF Init, TalkOK
<1>2. SlotInv /\ FrameInv /\ TalkOK => TypeOK
  <2>1. \A c \in Clients : MaxSaid[c] \in Nat
    BY ServerAssumption
  <2> QED
    BY <2>1, ServerAssumption DEF SlotInv, FrameInv, PcOK, TalkOK, TypeOK
<1> QED
  BY <1>1, <1>2, SlotInit, SlotStep, FrameInit, FrameStep, TalkStep, PTL DEF Spec

-----------------------------------------------------------------------------
(* The store.  With a checksum on record, what stands at the target is a   *)
(* whole model, for any number of builds at once, killed at any step.      *)
Steps == {"idle", "asked", "resolving", "fetching", "moving",
          "placing", "nesting", "loading", "ready", "failed"}

Blobs == {"none", "whole", "damaged"}

(* The inductive invariant: a build that moves its download moves a whole  *)
(* one, and a build past the move, or beside another's, has a whole target *)
(* under it, and so has the copy in memory.                                *)
StoreInv ==
  /\ step \in [Clients -> Steps]
  /\ blob \in [Clients -> Blobs]
  /\ Pinned =>
       /\ target \in {"absent", "whole"}
       /\ cached => target = "whole"
       /\ \A c \in Clients :
            /\ step[c] \in {"moving", "placing", "nesting"} => blob[c] = "whole"
            /\ step[c] \in {"nesting", "loading", "ready"} => target = "whole"

LEMMA StoreInit == Store!Init => StoreInv
BY DEF Store!Init, StoreInv, Steps, Blobs

LEMMA StoreStep == StoreInv /\ [Store!Next]_storeVars => StoreInv'
<1> SUFFICES ASSUME StoreInv, [Store!Next]_storeVars PROVE StoreInv'
  OBVIOUS
<1>0. step \in [Clients -> Steps] /\ blob \in [Clients -> Blobs]
  BY DEF StoreInv
<1>1. ASSUME NEW c \in Clients, Store!Begin(c) PROVE StoreInv'
  BY <1>0, <1>1 DEF StoreInv, Store!Begin, Store!Goto, Steps
<1>2. ASSUME NEW c \in Clients, Store!LookUp(c) PROVE StoreInv'
  BY <1>0, <1>2 DEF StoreInv, Store!LookUp, Store!Goto, Steps
<1>3. ASSUME NEW c \in Clients, Store!Find(c) PROVE StoreInv'
  BY <1>0, <1>3 DEF StoreInv, Store!Find, Store!Goto, Steps
<1>4. ASSUME NEW c \in Clients, Store!Download(c) PROVE StoreInv'
  BY <1>0, <1>4 DEF StoreInv, Store!Download, Store!Accepts, Store!GotoWithout, Steps, Blobs
<1>5. ASSUME NEW c \in Clients, Store!MoveFile(c) PROVE StoreInv'
  BY <1>0, <1>5 DEF StoreInv, Store!MoveFile, Store!GotoWithout, Steps, Blobs
<1>6. ASSUME NEW c \in Clients, Store!Aim(c) PROVE StoreInv'
  BY <1>0, <1>6 DEF StoreInv, Store!Aim, Store!Goto, Store!GotoWithout, Steps, Blobs
<1>7. ASSUME NEW c \in Clients, Store!Place(c) PROVE StoreInv'
  BY <1>0, <1>7 DEF StoreInv, Store!Place, Store!GotoWithout, Steps, Blobs
<1>8. ASSUME NEW c \in Clients, Store!Nest(c) PROVE StoreInv'
  BY <1>0, <1>8 DEF StoreInv, Store!Nest, Store!GotoWithout, Steps, Blobs
<1>9. ASSUME NEW c \in Clients, Store!Load(c) PROVE StoreInv'
  BY <1>0, <1>9 DEF StoreInv, Store!Load, Store!Goto, Steps
<1>10. ASSUME NEW c \in Clients, Store!Leave(c) PROVE StoreInv'
  BY <1>0, <1>10 DEF StoreInv, Store!Leave, Store!Goto, Steps
<1>11. ASSUME Store!Die PROVE StoreInv'
  BY <1>0, <1>11 DEF StoreInv, Store!Die, Steps, Blobs
<1>12. ASSUME UNCHANGED storeVars PROVE StoreInv'
  BY <1>0, <1>12 DEF StoreInv, storeVars
<1> QED
  BY <1>1, <1>2, <1>3, <1>4, <1>5, <1>6, <1>7, <1>8, <1>9, <1>10, <1>11, <1>12
     DEF Store!Next, Store!Build

(* "Refusing to use it" (_verify): no session ever finds anything but a    *)
(* whole model at the target, whatever is downloaded beside it.            *)
THEOREM WholeForever == Store!Spec => []ModelIsWhole
<1>1. StoreInv => ModelIsWhole
  BY DEF StoreInv, ModelIsWhole, Store!ModelIsWhole
<1>2. [Store!Next]_(Store!storeVars) => [Store!Next]_storeVars
  BY DEF storeVars, Store!storeVars
<1> QED
  BY StoreInit, StoreStep, <1>1, <1>2, PTL DEF Store!Spec

-----------------------------------------------------------------------------
(* The composition. *)
LEMMA ServingInits == ServingInit => Init /\ Store!Init
BY DEF ServingInit

(* What each action of the composition is to its parts. *)
LEMMA ServingStep ==
  ASSUME [ServingNext]_vars
  PROVE  [Next]_serverVars /\ [Store!Next]_storeVars
<1>1. CASE UNCHANGED vars
  BY <1>1 DEF vars
<1>2. CASE Killed
  BY <1>2 DEF Killed, Next, Store!Next
<1>3. ASSUME NEW c \in Clients, Outside(c)
      PROVE  Next /\ UNCHANGED storeVars
  BY <1>3 DEF Outside, Next
<1>4. ASSUME NEW c \in Clients, Starts(c)
      PROVE  Next /\ Store!Next
  BY <1>4 DEF Starts, Next, Store!Next
<1>5. ASSUME NEW c \in Clients, Refuses(c)
      PROVE  Next /\ UNCHANGED storeVars
  BY <1>5 DEF Refuses, Next
<1>6. ASSUME NEW c \in Clients, Works(c)
      PROVE  UNCHANGED serverVars /\ Store!Next
  BY <1>6 DEF Works, Store!Next
<1>7. ASSUME NEW c \in Clients, Fails(c)
      PROVE  Next /\ Store!Next
  BY <1>7 DEF Fails, Next, Store!Next
<1>8. ASSUME NEW c \in Clients, Serves(c)
      PROVE  Next /\ [Store!Next]_storeVars
  <2>1. Next
    BY <1>8 DEF Serves, Next
  <2>2. Store!Leave(c) \/ UNCHANGED storeVars
    BY <1>8 DEF Serves
  <2> QED
    BY <2>1, <2>2 DEF Store!Next
<1> QED
  BY <1>1, <1>2, <1>3, <1>4, <1>5, <1>6, <1>7, <1>8 DEF ServingNext

(* app.py:123-181.  The server with real builds under it is still a server *)
(* that counts its slots and keeps the cap, for any number of connections. *)
THEOREM ServingKeepsTheCap == ServingSpec => []SlotsAreCounted /\ KeepsTheCap
<1>1. ServingInit => Init
  BY ServingInits
<1>2. [ServingNext]_vars => [Next]_serverVars
  BY ServingStep
<1>3. ServingSpec => Spec
  BY <1>1, <1>2, PTL DEF ServingSpec, Spec
<1> QED
  BY <1>3, SlotsCounted, CapIsKept

(* session.py:94-105, app.py:173-189.  Nor does it send a client anything  *)
(* but hello and its own session's log, in order and without a gap.        *)
THEOREM ServedFramesAreTheLog == ServingSpec => []FramesFollowTheLog
<1>1. ServingInit => Init
  BY ServingInits
<1>2. [ServingNext]_vars => [Next]_serverVars
  BY ServingStep
<1>3. ServingSpec => Spec
  BY <1>1, <1>2, PTL DEF ServingSpec, Spec
<1> QED
  BY <1>3, FramesAreTheLog

(* models.py:278-300.  With a checksum on record, no session the server    *)
(* builds reads anything but a whole model, for any number of connections. *)
THEOREM ServedModelIsWhole == ServingSpec => []ModelIsWhole
<1>1. ServingInit => Store!Init
  BY ServingInits
<1>2. [ServingNext]_vars => [Store!Next]_(Store!storeVars)
  BY ServingStep DEF storeVars, Store!storeVars
<1>3. ServingSpec => Store!Spec
  BY <1>1, <1>2, PTL DEF ServingSpec, Store!Spec
<1> QED
  BY <1>3, WholeForever

=============================================================================
