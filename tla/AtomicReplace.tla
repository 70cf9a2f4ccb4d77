---------------------------- MODULE AtomicReplace ----------------------------
(***************************************************************************)
(* What receive_upload promises about the firm's documents: a job replaces  *)
(* its file by a complete new one, in a single step, once at most and never *)
(* after its answer; a job that answers ok has done it before.  One that    *)
(* answers failed, or never answers, may have done it too.  FileServer      *)
(* shows how it is done.                                                    *)
(***************************************************************************)
EXTENDS Naturals

CONSTANTS Docs, Uploads, None

VARIABLES
    file,       \* the revision at a document's path, 0 if there is no file
    last,       \* the newest revision there has been
    target,     \* the document an upload is for
    placedAs,   \* the revision an upload made of it, 0 if none
    result      \* what its job answered

vars == <<file, last, target, placedAs, result>>

Init ==
    /\ file = [d \in Docs |-> 0]
    /\ last = [d \in Docs |-> 0]
    /\ target = [u \in Uploads |-> None]
    /\ placedAs = [u \in Uploads |-> 0]
    /\ result = [u \in Uploads |-> "none"]

(* The path of d holds a new, complete file. *)
Put(d) ==
    /\ last' = [last EXCEPT ![d] = @ + 1]
    /\ file' = [file EXCEPT ![d] = last[d] + 1]

(* Somebody else's doing: no upload has to do with it. *)
Save(d) == Put(d) /\ UNCHANGED <<target, placedAs, result>>

Delete(d) ==
    /\ file' = [file EXCEPT ![d] = 0]
    /\ UNCHANGED <<last, target, placedAs, result>>

Ask(u, d) ==
    /\ target[u] = None
    /\ target' = [target EXCEPT ![u] = d]
    /\ UNCHANGED <<file, last, placedAs, result>>

Asked(u) == target[u] # None /\ result[u] = "none"

Replace(u) ==
    /\ Asked(u) /\ placedAs[u] = 0
    /\ Put(target[u])
    /\ placedAs' = [placedAs EXCEPT ![u] = last[target[u]] + 1]
    /\ UNCHANGED <<target, result>>

Answer(u, r) ==
    /\ Asked(u)
    /\ r = "ok" => placedAs[u] > 0
    /\ result' = [result EXCEPT ![u] = r]
    /\ UNCHANGED <<file, last, target, placedAs>>

Next ==
    \/ \E d \in Docs : Save(d) \/ Delete(d)
    \/ \E u \in Uploads :
        \/ \E d \in Docs : Ask(u, d)
        \/ Replace(u) \/ Answer(u, "ok") \/ Answer(u, "failed")

Spec == Init /\ [][Next]_vars
=============================================================================
