----------------------------- MODULE ModelStore -----------------------------
(***************************************************************************)
(* models.py (resolve, ensure) and loaders.py: the build of a session, on  *)
(* a thread of the executor, finds the model on disk or downloads it, and  *)
(* loads it or shares the copy that is loaded.  Several threads do so at   *)
(* once, with no lock between them, and the process may be killed.         *)
(*                                                                         *)
(* One model stands for all of them: an archive, unpacked into a directory *)
(* of its own, or a single file.                                           *)
(***************************************************************************)
EXTENDS Integers, FiniteSets

CONSTANTS
  Clients,    \* the sessions that may be built
  Pinned      \* spec.sha256 is not None

VARIABLES
  archive,    \* not spec.single_file
  step,       \* where each build is
  blob,       \* its download, in a temporary directory of its own
  target,     \* what stands at root / name
  nested,     \* a second copy stands inside the target
  cached,     \* the lru_cache of the loader holds the model
  copy        \* the model a session uses: "none", the "shared" one, or its "own"

storeVars == <<archive, step, blob, target, nested, cached, copy>>

Init ==
  /\ archive \in BOOLEAN
  /\ step = [c \in Clients |-> "idle"]
  /\ blob = [c \in Clients |-> "none"]
  /\ target = "absent" /\ nested = FALSE
  /\ cached = FALSE
  /\ copy = [c \in Clients |-> "none"]

(* A build goes on with its download, or without it: moved away, or gone   *)
(* with the temporary directory.                                           *)
Goto(c, where) == step' = [step EXCEPT ![c] = where] /\ UNCHANGED blob

GotoWithout(c, where) ==
  step' = [step EXCEPT ![c] = where] /\ blob' = [blob EXCEPT ![c] = "none"]

-----------------------------------------------------------------------------
Begin(c) ==
  /\ step[c] = "idle"
  /\ Goto(c, "asked")
  /\ UNCHANGED <<archive, target, nested, cached, copy>>

(* transducer, speaker_embedder, turn_session: lru_cache. *)
LookUp(c) ==
  /\ step[c] = "asked"
  /\ IF cached
     THEN Goto(c, "ready") /\ copy' = [copy EXCEPT ![c] = "shared"]
     ELSE Goto(c, "resolving") /\ UNCHANGED copy
  /\ UNCHANGED <<archive, target, nested, cached>>

(* resolve, ensure: what exists is used as it is. *)
Find(c) ==
  /\ step[c] = "resolving"
  /\ Goto(c, IF target # "absent" THEN "loading" ELSE "fetching")
  /\ UNCHANGED <<archive, target, nested, cached, copy>>

(* _fetch brings the whole file, one that is cut short, or an error;       *)
(* _verify refuses what does not have the checksum.  Both happen in the    *)
(* temporary directory of this build.                                      *)
MutAccepts(got) == TRUE

Accepts(got) == ~ Pinned \/ got = "whole"

Download(c) ==
  /\ step[c] = "fetching"
  /\ \/ \E got \in {"whole", "damaged"} :
          /\ Accepts(got)
          /\ step' = [step EXCEPT ![c] = "moving"]
          /\ blob' = [blob EXCEPT ![c] = got]
     \/ GotoWithout(c, "failed")
  /\ UNCHANGED <<archive, target, nested, cached, copy>>

(* shutil.move of a file: one rename, over whatever is there. *)
MoveFile(c) ==
  /\ step[c] = "moving" /\ ~ archive
  /\ target' = blob[c]
  /\ GotoWithout(c, "loading")
  /\ UNCHANGED <<archive, nested, cached, copy>>

(* _extract unpacks in the temporary directory; what is no archive fails   *)
(* there.  shutil.move of a directory then looks first: onto a directory   *)
(* means into it, under the archive's own name, unless there is one.       *)
Aim(c) ==
  /\ step[c] = "moving" /\ archive
  /\ \/ blob[c] = "whole" /\ target = "absent" /\ Goto(c, "placing")
     \/ blob[c] = "whole" /\ target # "absent" /\ ~ nested /\ Goto(c, "nesting")
     \/ blob[c] = "damaged" /\ GotoWithout(c, "failed")
     \/ target # "absent" /\ nested /\ GotoWithout(c, "failed")
  /\ UNCHANGED <<archive, target, nested, cached, copy>>

(* ... and then renames.  If another build came first the rename fails, and *)
(* so does the copy shutil.move falls back to: the directory exists.       *)
Place(c) ==
  /\ step[c] = "placing"
  /\ IF target = "absent"
     THEN target' = blob[c] /\ GotoWithout(c, "loading")
     ELSE UNCHANGED target /\ GotoWithout(c, "failed")
  /\ UNCHANGED <<archive, nested, cached, copy>>

Nest(c) ==
  /\ step[c] = "nesting"
  /\ GotoWithout(c, IF nested THEN "failed" ELSE "loading")
  /\ nested' = TRUE
  /\ UNCHANGED <<archive, target, cached, copy>>

(* The constructor, and the end of the call in lru_cache: a call that ran  *)
(* beside another one keeps its own copy.                                  *)
Load(c) ==
  /\ step[c] = "loading"
  /\ \/ /\ Goto(c, "ready")
        /\ cached' = TRUE
        /\ copy' = [copy EXCEPT ![c] = IF cached THEN "own" ELSE "shared"]
     \/ Goto(c, "failed") /\ UNCHANGED <<cached, copy>>
  /\ UNCHANGED <<archive, target, nested>>

(* The session is over, and nothing refers to its copy. *)
Leave(c) ==
  /\ step[c] \in {"ready", "failed"}
  /\ Goto(c, "idle")
  /\ copy' = [copy EXCEPT ![c] = "none"]
  /\ UNCHANGED <<archive, target, nested, cached>>

(* The process is killed: what is on disk at the target stays. *)
Die ==
  /\ step' = [c \in Clients |-> "idle"]
  /\ blob' = [c \in Clients |-> "none"]
  /\ copy' = [c \in Clients |-> "none"]
  /\ cached' = FALSE
  /\ UNCHANGED <<archive, target, nested>>

Build(c) ==
  LookUp(c) \/ Find(c) \/ Download(c) \/ MoveFile(c) \/ Aim(c) \/ Place(c) \/ Nest(c) \/ Load(c)

Next == (\E c \in Clients : Begin(c) \/ Build(c) \/ Leave(c)) \/ Die

Spec == Init /\ [][Next]_storeVars

-----------------------------------------------------------------------------
TypeOK ==
  /\ archive \in BOOLEAN /\ nested \in BOOLEAN /\ cached \in BOOLEAN
  /\ step \in [Clients -> {"idle", "asked", "resolving", "fetching", "moving",
                           "placing", "nesting", "loading", "ready", "failed"}]
  /\ blob \in [Clients -> {"none", "whole", "damaged"}]
  /\ target \in {"absent", "whole", "damaged"}
  /\ copy \in [Clients -> {"none", "shared", "own"}]

(* "Refusing to use it" (_verify): with a checksum on record, whatever the *)
(* builds do to each other and wherever the process is killed, what stands *)
(* at the target is a whole model, and nobody reads it before it does.     *)
ModelIsWhole ==
  Pinned =>
    /\ target \in {"absent", "whole"}
    /\ \A c \in Clients : step[c] \in {"loading", "ready"} => target = "whole"

=============================================================================
