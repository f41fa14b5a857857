------------------------------- MODULE Server -------------------------------
(***************************************************************************)
(* server/app.py and server/session.py: one handler per connection on one  *)
(* event loop, an admission limit, and a session that turns the messages   *)
(* of its client into frames.  A handler gives up the loop only where it   *)
(* awaits, so an action is what runs between two awaits.                   *)
(*                                                                         *)
(* The Coordinator is outside: a push or finish logs any number of events  *)
(* up to MaxBurst, and may raise.  The socket is outside as well: messages *)
(* arrive in order, a send fails once the link is down, and what arrived   *)
(* before is still read.  What a session had is dropped with it.           *)
(***************************************************************************)
EXTENDS Integers, Sequences, FiniteSets

CONSTANTS
  Clients,    \* the connections there may be
  Limit,      \* Admission.limit
  MaxBurst,   \* bound on the events of one push
  MaxSaid     \* bound on the messages of each client

ASSUME ServerAssumption ==
  IsFiniteSet(Clients) /\ Limit \in Nat /\ MaxBurst \in Nat /\ MaxSaid \in [Clients -> Nat]

VARIABLES
  active,     \* Admission._active
  pc,         \* where the handler of a connection awaits
  link,       \* "up", "closed" by the client properly, or "lost"
  inbox,      \* the messages not yet read
  said,       \* how many messages the client has sent
  log,        \* the number of events in the session's log
  queue,      \* the events of the current push not yet sent
  got         \* the frames the client has been sent: 0 is hello, n the n-th event

serverVars == <<active, pc, link, inbox, said, log, queue, got>>

(* A text message other than "finish" is read and ignored, which is what   *)
(* becomes of audio that yields no event.                                  *)
Message == {"audio", "finish"}

Over == {"gone", "refused"}
Held == {"building", "receiving", "pushing", "finishing"}   \* inside acquire .. release

Holders == {c \in Clients : pc[c] \in Held}

Init ==
  /\ active = 0
  /\ pc = [c \in Clients |-> "away"]
  /\ link = [c \in Clients |-> "up"]
  /\ inbox = [c \in Clients |-> << >>]
  /\ said = [c \in Clients |-> 0]
  /\ log = [c \in Clients |-> 0]
  /\ queue = [c \in Clients |-> 0]
  /\ got = [c \in Clients |-> << >>]

-----------------------------------------------------------------------------
(* The client of a connection that was admitted.  What it says before      *)
(* hello waits in the socket, and is read as if it had been said after.    *)
Say(c, message) ==
  /\ pc[c] \in Held \ {"building"} /\ link[c] = "up" /\ said[c] < MaxSaid[c]
  /\ inbox' = [inbox EXCEPT ![c] = Append(@, message)]
  /\ said' = [said EXCEPT ![c] = @ + 1]
  /\ UNCHANGED <<active, pc, link, log, queue, got>>

HangUp(c, how) ==
  /\ pc[c] \in Held /\ link[c] = "up"
  /\ link' = [link EXCEPT ![c] = how]
  /\ UNCHANGED <<active, pc, inbox, said, log, queue, got>>

-----------------------------------------------------------------------------
(* The end of a connection: nothing is left of it. *)
Forget(c, how) ==
  /\ pc' = [pc EXCEPT ![c] = how]
  /\ link' = [link EXCEPT ![c] = "closed"]
  /\ inbox' = [inbox EXCEPT ![c] = << >>] /\ said' = [said EXCEPT ![c] = 0]
  /\ log' = [log EXCEPT ![c] = 0] /\ queue' = [queue EXCEPT ![c] = 0]
  /\ got' = [got EXCEPT ![c] = << >>]

(* handler, which a new connection starts: the slot is taken before the    *)
(* session is built ...                                                    *)
MutAdmit(c) ==
  /\ pc[c] = "away"
  /\ active <= Limit
  /\ active' = active + 1
  /\ pc' = [pc EXCEPT ![c] = "building"]
  /\ UNCHANGED <<link, inbox, said, log, queue, got>>

Admit(c) ==
  /\ pc[c] = "away"
  /\ active < Limit
  /\ active' = active + 1
  /\ pc' = [pc EXCEPT ![c] = "building"]
  /\ UNCHANGED <<link, inbox, said, log, queue, got>>

Refuse(c) ==
  /\ pc[c] = "away"
  /\ active >= Limit
  /\ Forget(c, "refused")
  /\ UNCHANGED active

(* ... and given back however the session ends (finally, release).         *)
MutReleased == active

Released == IF active > 0 THEN active - 1 ELSE 0

End(c) == active' = Released /\ Forget(c, "gone")

-----------------------------------------------------------------------------
BuildFails(c) == pc[c] = "building" /\ End(c)

(* await websocket.send: the frame goes out, or the session ends here.     *)
Greet(c) ==
  /\ pc[c] = "building"
  /\ IF link[c] = "up"
     THEN /\ got' = [got EXCEPT ![c] = Append(@, 0)]
          /\ pc' = [pc EXCEPT ![c] = "receiving"]
          /\ UNCHANGED <<active, link, inbox, said, log, queue>>
     ELSE End(c)

(* Session.push and Session.finish: n events, all of them logged before    *)
(* the first is sent.                                                      *)
Sends(c, n, phase) ==
  /\ log' = [log EXCEPT ![c] = @ + n]
  /\ queue' = [queue EXCEPT ![c] = n]
  /\ pc' = [pc EXCEPT ![c] = phase]
  /\ UNCHANGED <<active, link, said, got>>

(* The receive loop, one message.  The session may raise. *)
Receive(c, n) ==
  /\ pc[c] = "receiving" /\ inbox[c] # << >>
  /\ \/ /\ Sends(c, n, IF Head(inbox[c]) = "audio" THEN "pushing" ELSE "finishing")
        /\ inbox' = [inbox EXCEPT ![c] = Tail(@)]
     \/ n = 0 /\ End(c)

(* The loop ends with a link closed properly, and raises with a lost one.  *)
MutEndOfMessages(c, n) ==
  /\ pc[c] = "receiving" /\ inbox[c] = << >> /\ link[c] = "closed"
  /\ Sends(c, n, "finishing") /\ UNCHANGED inbox

EndOfMessages(c, n) ==
  /\ pc[c] = "receiving" /\ inbox[c] = << >> /\ link[c] # "up"
  /\ \/ link[c] = "closed" /\ Sends(c, n, "finishing") /\ UNCHANGED inbox
     \/ n = 0 /\ End(c)

(* One event of the queue: encode and send. *)
MutNextFrame(c) == log[c] - queue[c]

NextFrame(c) == log[c] - queue[c] + 1

Send(c) ==
  /\ pc[c] \in {"pushing", "finishing"} /\ queue[c] > 0
  /\ IF link[c] = "up"
     THEN /\ got' = [got EXCEPT ![c] = Append(@, NextFrame(c))]
          /\ queue' = [queue EXCEPT ![c] = @ - 1]
          /\ UNCHANGED <<active, pc, link, inbox, said, log>>
     ELSE End(c)

(* The queue is empty: back to the loop, or close the session and go.      *)
Resume(c) ==
  /\ pc[c] = "pushing" /\ queue[c] = 0
  /\ pc' = [pc EXCEPT ![c] = "receiving"]
  /\ UNCHANGED <<active, link, inbox, said, log, queue, got>>

Close(c) == pc[c] = "finishing" /\ queue[c] = 0 /\ End(c)

(* The process is killed, and every connection with it. *)
Crash ==
  /\ active' = 0
  /\ pc' = [c \in Clients |-> IF pc[c] \in {"away", "refused"} THEN pc[c] ELSE "gone"]
  /\ link' = [c \in Clients |-> IF pc[c] = "away" THEN "up" ELSE "closed"]
  /\ inbox' = [c \in Clients |-> << >>] /\ said' = [c \in Clients |-> 0]
  /\ log' = [c \in Clients |-> 0] /\ queue' = [c \in Clients |-> 0]
  /\ got' = [c \in Clients |-> << >>]

Client(c) == (\E m \in Message : Say(c, m)) \/ (\E how \in {"closed", "lost"} : HangUp(c, how))

Talk(c) == (\E n \in 0 .. MaxBurst : Receive(c, n) \/ EndOfMessages(c, n)) \/ Send(c) \/ Resume(c) \/ Close(c)

Next ==
  \/ \E c \in Clients : Client(c) \/ Admit(c) \/ Refuse(c) \/ BuildFails(c) \/ Greet(c) \/ Talk(c)
  \/ Crash

Spec == Init /\ [][Next]_serverVars

-----------------------------------------------------------------------------
TypeOK ==
  /\ active \in 0 .. Limit
  /\ pc \in [Clients -> Held \cup Over \cup {"away"}]
  /\ link \in [Clients -> {"up", "closed", "lost"}]
  /\ inbox \in [Clients -> Seq(Message)]
  /\ said \in [Clients -> Nat] /\ \A c \in Clients : said[c] \in 0 .. MaxSaid[c]
  /\ log \in [Clients -> Nat] /\ queue \in [Clients -> Nat]
  /\ got \in [Clients -> Seq(Nat)]

(* The counter is the number of sessions there are, whichever way each of  *)
(* them ended.                                                             *)
SlotsAreCounted == active = Cardinality(Holders)

(* "A hard cap on concurrent sessions" (Admission): the server implements  *)
(* Slots, so a client is refused only while Limit others are being served. *)
Cap == INSTANCE Slots WITH
         holders <- Holders, refused <- {c \in Clients : pc[c] = "refused"}

KeepsTheCap == Cap!Spec

(* The client's reading of the wire ("the first frame a server sends" is   *)
(* hello, protocol.py): hello, then the session's log from its first event *)
(* on, without a gap or a repeat; what is logged and not sent is the queue *)
(* of the push under way; and a client whose session closes has it all.    *)
FramesFollowTheLog ==
  \A c \in Clients :
    /\ \A i \in DOMAIN got[c] : got[c][i] = i - 1
    /\ pc[c] \in Held \ {"building"} => Len(got[c]) = log[c] - queue[c] + 1
    /\ pc[c] \notin Held => got[c] = << >>

=============================================================================
