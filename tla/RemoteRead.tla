----------------------------- MODULE RemoteRead -----------------------------
(***************************************************************************)
(* What a click on Download promises: a read of one document as it was at   *)
(* some moment between the click and the save, or an error; and the button  *)
(* can be clicked again after either.  Of jobs, blobs, keys and connectors  *)
(* whoever clicks knows nothing.  StageDownload shows how it is done.       *)
(***************************************************************************)
EXTENDS Naturals

CONSTANTS Docs, Tabs, None

VARIABLES
    version,    \* what the document's file holds now
    busy,       \* the button is working
    want,       \* the document clicked
    since,      \* its version at the click
    saved       \* what the last click put on the user's disk

vars == <<version, busy, want, since, saved>>

Init ==
    /\ version = [d \in Docs |-> 0]
    /\ busy = [t \in Tabs |-> FALSE]
    /\ want = [t \in Tabs |-> None]
    /\ since = [t \in Tabs |-> 0]
    /\ saved = [t \in Tabs |-> None]

Edit(d) ==
    /\ version' = [version EXCEPT ![d] = @ + 1]
    /\ UNCHANGED <<busy, want, since, saved>>

Click(t, d) ==
    /\ ~busy[t]
    /\ busy' = [busy EXCEPT ![t] = TRUE]
    /\ want' = [want EXCEPT ![t] = d]
    /\ since' = [since EXCEPT ![t] = version[d]]
    /\ saved' = [saved EXCEPT ![t] = None]
    /\ UNCHANGED version

Ends(t) ==
    /\ busy[t]
    /\ busy' = [busy EXCEPT ![t] = FALSE]
    /\ UNCHANGED <<version, want, since>>

Save(t) ==
    /\ Ends(t)
    /\ \E v \in since[t] .. version[want[t]] :
        saved' = [saved EXCEPT ![t] = [doc |-> want[t], ver |-> v]]

Err(t) == Ends(t) /\ UNCHANGED saved

Next ==
    \/ \E d \in Docs : Edit(d)
    \/ \E t \in Tabs : Save(t) \/ Err(t) \/ \E d \in Docs : Click(t, d)

Spec == Init /\ [][Next]_vars
=============================================================================
