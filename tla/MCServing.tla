----------------------------- MODULE MCServing -----------------------------
(* Three connections for two slots: two sessions are built at once, and a  *)
(* third client comes while both slots are taken or after one is free.     *)
(* One client may say two things, and each push yields up to two events;   *)
(* the others connect, hang up and are refused around it.                  *)
EXTENDS Serving, TLC

CONSTANTS c1, c2, c3

MCClients == {c1, c2, c3}
MCMaxSaid == c1 :> 2 @@ c2 :> 0 @@ c3 :> 0

=============================================================================
