-------------------------------- MODULE Slots --------------------------------
(***************************************************************************)
(* What the admission limit of server/session.py promises: "a hard cap on  *)
(* concurrent sessions".  At most Limit clients hold a slot; a client is   *)
(* turned away only while every slot is taken; a slot that is given back   *)
(* can be taken again, and nothing is left over when the server dies.      *)
(***************************************************************************)
EXTENDS Integers, FiniteSets

CONSTANTS Clients, Limit

VARIABLES
  holders,   \* the clients that hold a slot
  refused    \* the clients that were turned away

vars == <<holders, refused>>

Init == holders = {} /\ refused = {}

Take(c) ==
  /\ c \notin holders
  /\ Cardinality(holders) < Limit
  /\ holders' = holders \cup {c}
  /\ UNCHANGED refused

TurnAway(c) ==
  /\ Cardinality(holders) = Limit
  /\ refused' = refused \cup {c}
  /\ UNCHANGED holders

Give(c) ==
  /\ c \in holders
  /\ holders' = holders \ {c}
  /\ UNCHANGED refused

Die == holders' = {} /\ UNCHANGED refused

Next == (\E c \in Clients : Take(c) \/ TurnAway(c) \/ Give(c)) \/ Die

Spec == Init /\ [][Next]_vars

=============================================================================
