--------------------------- MODULE MatterRegister ---------------------------
(***************************************************************************)
(* What importing a list of folders comes to, however often, in how many     *)
(* pieces and from how many lists it is done: a register in which a number   *)
(* is entered once, for the first folder with that number in some list, and  *)
(* never rewritten.  BulkImport shows how it is done.                       *)
(***************************************************************************)
EXTENDS Naturals

CONSTANTS Folders, Numbers, Initials, Users, Scans, NumberOf, InitialsOf, HoldersOf, None

VARIABLES
    manifest,   \* lists of folders
    matters     \* the register

vars == <<manifest, matters>>

Init ==
    /\ manifest = [s \in Scans |-> {}]
    /\ matters = [n \in Numbers |-> None]

Publish(s, list) ==
    /\ manifest[s] = {}
    /\ manifest' = [manifest EXCEPT ![s] = list]
    /\ UNCHANGED matters

First(f, list) == f \in list /\ \A g \in list : NumberOf[g] = NumberOf[f] => f <= g

(* A user with the initials in the folder's name, nobody if nobody has them. *)
Lawyers(f) ==
    LET holders == IF InitialsOf[f] = None THEN {} ELSE HoldersOf[InitialsOf[f]]
    IN  IF holders = {} THEN {None} ELSE holders

Enter(n, f, l) ==
    /\ matters[n] = None
    /\ NumberOf[f] = n /\ l \in Lawyers(f)
    /\ \E s \in Scans : First(f, manifest[s])
    /\ matters' = [matters EXCEPT ![n] = [folder |-> f, lawyer |-> l]]
    /\ UNCHANGED manifest

Next ==
    \/ \E s \in Scans, list \in SUBSET Folders : Publish(s, list)
    \/ \E n \in Numbers, f \in Folders, l \in Users \union {None} : Enter(n, f, l)

Spec == Init /\ [][Next]_vars
=============================================================================
