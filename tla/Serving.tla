------------------------------- MODULE Serving -------------------------------
(***************************************************************************)
(* The server with the store its sessions are built from: the handlers of  *)
(* Server on the event loop, the builds of ModelStore on the executor, and *)
(* nothing between them but the futures of app.py:166.                     *)
(***************************************************************************)
EXTENDS Server

CONSTANTS Pinned

VARIABLES archive, step, blob, target, nested, cached, copy

Store == INSTANCE ModelStore

storeVars == <<archive, step, blob, target, nested, cached, copy>>

vars == <<serverVars, storeVars>>

ServingInit == Init /\ Store!Init

(* run_in_executor(build) and the answer of its future. *)
Starts(c) == Admit(c) /\ Store!Begin(c)

Works(c) == Store!Build(c) /\ UNCHANGED serverVars

Fails(c) == step[c] = "failed" /\ BuildFails(c) /\ Store!Leave(c)

(* Once the session is over, nothing refers to what was built for it.      *)
Serves(c) ==
  /\ step[c] = "ready"
  /\ Greet(c) \/ Talk(c)
  /\ IF pc'[c] \in Over THEN Store!Leave(c) ELSE UNCHANGED storeVars

Outside(c) == Client(c) /\ UNCHANGED storeVars

Refuses(c) == Refuse(c) /\ UNCHANGED storeVars

Killed == Crash /\ Store!Die

ServingNext ==
  \/ \E c \in Clients :
       Outside(c) \/ Starts(c) \/ Refuses(c) \/ Works(c) \/ Fails(c) \/ Serves(c)
  \/ Killed

(* The event loop and the executor run whatever is ready.  Nothing makes a *)
(* client speak or hang up, and nothing makes a download end: urlopen is   *)
(* called without a timeout (models.py:304).                               *)
Runs(c) == Fails(c) \/ Serves(c) \/ (Works(c) /\ step[c] # "fetching")

Fairness == \A c \in Clients : WF_vars(Runs(c))

ServingSpec == ServingInit /\ [][ServingNext]_vars /\ Fairness

-----------------------------------------------------------------------------
(* A session that has been admitted ends, and its slot comes back, once    *)
(* its client asked to finish or is no longer there: whatever it was doing *)
(* then, unless its build waits for a download.                            *)
Wanted(c) == link[c] = "up" /\ \A i \in DOMAIN inbox[c] : inbox[c][i] # "finish"

SlotsComeBack ==
  \A c \in Clients : (pc[c] \in Held /\ ~ Wanted(c)) ~> (pc[c] \in Over \/ step[c] = "fetching")

(* ModelStore: what stands at the target is a whole model. *)
ModelIsWhole == Store!ModelIsWhole

=============================================================================
