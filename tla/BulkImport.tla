----------------------------- MODULE BulkImport -----------------------------
(***************************************************************************)
(* bulk-import-matters: an operator's script that turns the folder list of  *)
(* a scan_reconcile job with topLevelOnly into matters of one tenant, one   *)
(* INSERT at a time.  The list may be old, the script may die half way and  *)
(* be run again, with the same job or a later one, or twice at once; and    *)
(* folders are created and removed meanwhile.                               *)
(*                                                                         *)
(* Folders are numbers in the order os.ReadDir lists their names.  What     *)
(* FOLDER_NAME_PATTERN makes of a name is given by NumberOf and InitialsOf. *)
(***************************************************************************)
EXTENDS Naturals

CONSTANTS
    Folders,        \* folder names, in their order
    Numbers,        \* matter numbers
    Initials,       \* initials in lower case
    Users,
    Scans,          \* scan_reconcile jobs
    Runs,           \* runs of the script
    NumberOf,       \* the number at the start of a name, None if there is none
    InitialsOf,     \* the initials in brackets after it, or None
    HoldersOf,      \* users whose initials in lower case are these
    None

ASSUME FoldersAssumption == Folders \subseteq Nat

ASSUME NamesAssumption ==
    /\ NumberOf \in [Folders -> Numbers \union {None}]
    /\ InitialsOf \in [Folders -> Initials \union {None}]
    /\ HoldersOf \in [Initials -> SUBSET Users]

ASSUME NoneAssumption ==
    /\ None \notin Numbers \union Initials \union Users \union Scans
    /\ None \notin [folder : Folders, lawyer : Users \union {None}]

VARIABLES
    folders,    \* on the file server
    manifest,   \* the manifest of a job's result; {} while there is none
    pc,         \* of a run: "idle", "importing", "done" or "exited"
    job,        \* its --job-id
    known,      \* userByInitials
    todo,       \* the entries it has still to look at
    created,    \* its counters
    skipped,
    matters     \* rows of the tenant, by matter_number

vars == <<folders, manifest, pc, job, known, todo, created, skipped, matters>>
script == <<pc, job, known, todo, created, skipped>>

Rows == [folder : Folders, lawyer : Users \union {None}]

TypeOK ==
    /\ folders \subseteq Folders
    /\ manifest \in [Scans -> SUBSET Folders]
    /\ pc \in [Runs -> {"idle", "importing", "done", "exited"}]
    /\ job \in [Runs -> Scans \union {None}]
    /\ known \in [Runs -> [Initials -> Users \union {None}]]
    /\ todo \in [Runs -> SUBSET Folders]
    /\ created \in [Runs -> SUBSET Folders]
    /\ skipped \in [Runs -> SUBSET Folders]
    /\ matters \in [Numbers -> Rows \union {None}]

Init ==
    /\ folders = {}
    /\ manifest = [s \in Scans |-> {}]
    /\ pc = [r \in Runs |-> "idle"]
    /\ job = [r \in Runs |-> None]
    /\ known = [r \in Runs |-> [i \in Initials |-> None]]
    /\ todo = [r \in Runs |-> {}]
    /\ created = [r \in Runs |-> {}]
    /\ skipped = [r \in Runs |-> {}]
    /\ matters = [n \in Numbers |-> None]

CreateFolder(f) ==
    /\ f \notin folders
    /\ folders' = folders \union {f}
    /\ UNCHANGED <<manifest, script, matters>>

RemoveFolder(f) ==
    /\ f \in folders
    /\ folders' = folders \ {f}
    /\ UNCHANGED <<manifest, script, matters>>

(* ListTopLevelDirs.  An empty manifest is left out of the result, and that *)
(* of a root that cannot be read is empty.                                  *)
ScanTopLevel(s) ==
    /\ manifest[s] = {}
    /\ manifest' = [manifest EXCEPT ![s] = folders]
    /\ UNCHANGED <<folders, script, matters>>

-----------------------------------------------------------------------------

(* The Map keeps one user per initials: of two whose initials differ only   *)
(* in case, the one the SELECT without ORDER BY happened to return last.    *)
UserMaps ==
    {g \in [Initials -> Users \union {None}] :
        \A i \in Initials : IF HoldersOf[i] = {} THEN g[i] = None ELSE g[i] \in HoldersOf[i]}

(* The job must have a manifest: "isn't a succeeded scan_reconcile job with *)
(* a manifest" otherwise.                                                   *)
Begin(r, s) ==
    /\ pc[r] = "idle"
    /\ IF manifest[s] = {}
       THEN /\ pc' = [pc EXCEPT ![r] = "exited"]
            /\ UNCHANGED <<job, known, todo>>
       ELSE /\ pc' = [pc EXCEPT ![r] = "importing"]
            /\ job' = [job EXCEPT ![r] = s]
            /\ known' \in {[known EXCEPT ![r] = g] : g \in UserMaps}
            /\ todo' = [todo EXCEPT ![r] = manifest[s]]
    /\ UNCHANGED <<folders, manifest, created, skipped, matters>>

(* Mutant: entries are imported side by side. *)
InAnyOrder(r, f) == pc[r] = "importing" /\ f \in todo[r]

(* for (const entry of job.result.manifest) *)
IsNext(r, f) ==
    /\ pc[r] = "importing"
    /\ f \in todo[r]
    /\ \A g \in todo[r] : f <= g

Advance(r, f) == todo' = [todo EXCEPT ![r] = @ \ {f}]

Unparsed(r, f) ==
    /\ IsNext(r, f)
    /\ NumberOf[f] = None
    /\ Advance(r, f)
    /\ UNCHANGED <<folders, manifest, pc, job, known, created, skipped, matters>>

Lawyer(r, f) == IF InitialsOf[f] = None THEN None ELSE known[r][InitialsOf[f]]

(* Mutant: on conflict do update. *)
Overwrite(n, row) == [matters EXCEPT ![n] = row]

(* on conflict on constraint matters_tenant_number_unique do nothing *)
InsertIfNew(n, row) == IF matters[n] = None THEN [matters EXCEPT ![n] = row] ELSE matters

(* The INSERT commits before the script counts it.  That is one step here:  *)
(* a counter is only ever printed by a run that came to its end, and of one *)
(* that dies in between nobody sees that it counted the row.                *)
Import(r, f) ==
    /\ IsNext(r, f)
    /\ NumberOf[f] # None
    /\ matters' = InsertIfNew(NumberOf[f], [folder |-> f, lawyer |-> Lawyer(r, f)])
    /\ IF matters[NumberOf[f]] = None
       THEN created' = [created EXCEPT ![r] = @ \union {f}] /\ UNCHANGED skipped
       ELSE skipped' = [skipped EXCEPT ![r] = @ \union {f}] /\ UNCHANGED created
    /\ Advance(r, f)
    /\ UNCHANGED <<folders, manifest, pc, job, known>>

(* Mutant: ^C ends the loop, not the script. *)
FinishEarly(r) ==
    /\ pc[r] = "importing"
    /\ pc' = [pc EXCEPT ![r] = "done"]
    /\ UNCHANGED <<folders, manifest, job, known, todo, created, skipped, matters>>

Finish(r) ==
    /\ pc[r] = "importing"
    /\ todo[r] = {}
    /\ pc' = [pc EXCEPT ![r] = "done"]
    /\ UNCHANGED <<folders, manifest, job, known, todo, created, skipped, matters>>

(* The database is gone, or the operator presses ^C: what was inserted      *)
(* stays.                                                                   *)
Abort(r) ==
    /\ pc[r] = "importing"
    /\ pc' = [pc EXCEPT ![r] = "exited"]
    /\ UNCHANGED <<folders, manifest, job, known, todo, created, skipped, matters>>

Next ==
    \/ \E f \in Folders : CreateFolder(f) \/ RemoveFolder(f)
    \/ \E s \in Scans : ScanTopLevel(s)
    \/ \E r \in Runs :
        \/ \E s \in Scans : Begin(r, s)
        \/ \E f \in Folders : Unparsed(r, f) \/ Import(r, f)
        \/ Finish(r) \/ Abort(r)

Spec == Init /\ [][Next]_vars

-----------------------------------------------------------------------------

(* The folders of its scan a run has looked at. *)
Passed(r) == IF job[r] = None THEN {} ELSE manifest[job[r]] \ todo[r]

(* However runs die, are repeated or overlap: a matter is the first of the  *)
(* folders with its number in one of the scans, so that running the script  *)
(* again over one scan gives what one undisturbed run would have given.     *)
FirstFolderWins ==
    \A n \in Numbers : matters[n] # None =>
        \E s \in Scans :
            /\ matters[n].folder \in {f \in manifest[s] : NumberOf[f] = n}
            /\ \A f \in manifest[s] : NumberOf[f] = n => matters[n].folder <= f

(* A run that ends normally leaves no number of its scan without a matter,  *)
(* and has counted every folder with a number once.                         *)
DoneIsComplete ==
    \A r \in Runs : pc[r] = "done" =>
        /\ \A f \in manifest[job[r]] : NumberOf[f] # None => matters[NumberOf[f]] # None
        /\ created[r] \union skipped[r] = {f \in manifest[job[r]] : NumberOf[f] # None}

(* The created counters of all runs add up to the matters there are: a      *)
(* matter is counted by the run that inserted it and by no other.           *)
CreatedOnce ==
    /\ \A n \in Numbers : matters[n] # None => \E r \in Runs : matters[n].folder \in created[r]
    /\ \A q, r \in Runs : q # r => created[q] \intersect created[r] = {}
    /\ \A r \in Runs : created[r] \intersect skipped[r] = {}

(* An import never changes a matter that exists, which may have been edited *)
(* since.                                                                   *)
NeverOverwritten ==
    [][\A n \in Numbers : matters[n] # None => matters'[n] = matters[n]]_vars

-----------------------------------------------------------------------------
(* The inductive invariant.                                                 *)

(* How far a run has got. *)
Progress(r) ==
    /\ pc[r] \in {"importing", "done"} => job[r] # None
    /\ pc[r] = "idle" => job[r] = None /\ created[r] = {} /\ skipped[r] = {}
    /\ pc[r] = "done" => todo[r] = {}
    /\ job[r] = None => todo[r] = {} /\ created[r] = {} /\ skipped[r] = {}
    /\ job[r] # None => manifest[job[r]] # {} /\ todo[r] \subseteq manifest[job[r]]
    /\ \A f, g \in Folders : f \in Passed(r) /\ g \in todo[r] => f < g
    /\ created[r] \union skipped[r] = {f \in Passed(r) : NumberOf[f] # None}
    /\ \A f \in Passed(r) : NumberOf[f] # None => matters[NumberOf[f]] # None

RunInv == \A r \in Runs : Progress(r)

CreatedInv ==
    \A r \in Runs : \A f \in created[r] :
        NumberOf[f] # None /\ matters[NumberOf[f]] # None /\ matters[NumberOf[f]].folder = f

(* A lawyer is somebody with the initials the folder names, and left out    *)
(* only if there is nobody.                                                 *)
LawyerInv ==
    /\ \A r \in Runs : pc[r] = "importing" => known[r] \in UserMaps
    /\ \A n \in Numbers : matters[n] # None =>
        LET initials == InitialsOf[matters[n].folder]
            holders  == IF initials = None THEN {} ELSE HoldersOf[initials]
        IN  IF holders = {} THEN matters[n].lawyer = None ELSE matters[n].lawyer \in holders

Inv ==
    /\ TypeOK
    /\ RunInv
    /\ LawyerInv
    /\ CreatedInv
    /\ CreatedOnce
    /\ FirstFolderWins

-----------------------------------------------------------------------------
(* BulkImport implements the register.                                      *)

Register == INSTANCE MatterRegister

(* However runs die, are repeated, overlap or import lists out of order,     *)
(* each step of theirs enters one number for the first folder with it in     *)
(* some list, or changes nothing.                                           *)
ImplementsRegister == Register!Spec
=============================================================================
