----------------------------- MODULE FileServer -----------------------------
(***************************************************************************)
(* A matter's folder on the firm's file server and the two jobs by which a  *)
(* connector touches or reads all of it: receive_upload, which replaces a   *)
(* document by way of a temporary file (writeFileAtomic), and               *)
(* scan_reconcile, which lists, stats and hashes what is there              *)
(* (internal/scan).  Meanwhile people save and delete documents in          *)
(* Explorer, and the connector may die.                                     *)
(*                                                                         *)
(* What a file holds is told apart by its revision, which counts how often  *)
(* the file at that path was replaced.  The connector does one job at a     *)
(* time, as its run loop does.                                              *)
(***************************************************************************)
EXTENDS Naturals

CONSTANTS
    Docs,       \* document paths
    Uploads,    \* receive_upload jobs, and the temporary files they create
    Scan,       \* the scan_reconcile job
    None,       \* no job, no path
    MaxSaves    \* saves in Explorer stop at this revision (bound)

ASSUME NamesAssumption ==
    /\ Docs \intersect Uploads = {}
    /\ Scan \notin Docs \union Uploads \union {None}
    /\ None \notin Docs \union Uploads

ASSUME SavesAssumption == MaxSaves \in Nat

VARIABLES
    (* the folder *)
    present,    \* the document exists
    rev,        \* its latest revision, 0 before the first
    whole,      \* the file at its path is complete
    temp,       \* an upload's temporary file: "none", "partial" or "whole"
    (* the connector *)
    doing,      \* the job being handled
    step,       \* where its handler is
    target,     \* MatterSMBPath and RelPath of an upload
    result,     \* what an upload's handler returned
    (* history of uploads *)
    placedAs,   \* the revision the rename made of it, 0 if none
    (* the walk *)
    todo,       \* names listed and not yet visited
    listed,     \* their revisions when listed
    looking,    \* the file between Info() and hashFile()
    stat,       \* the revision Info() described
    manifest,   \* records
    warned,     \* errs is not empty
    scanned,    \* the scan has returned Ok
    (* history of the walk *)
    calm        \* documents untouched since the walk listed them

folder == <<present, rev, whole, temp>>
upload == <<target, result, placedAs>>
walk   == <<todo, listed, looking, stat, manifest, warned, scanned>>
vars   == <<folder, doing, step, upload, walk, calm>>

Names == Docs \union Uploads

TypeOK ==
    /\ present \in [Docs -> BOOLEAN]
    /\ rev \in [Docs -> Nat]
    /\ whole \in [Docs -> BOOLEAN]
    /\ temp \in [Uploads -> {"none", "partial", "whole"}]
    /\ doing \in Uploads \union {Scan, None}
    /\ step \in {"idle", "fetching", "opening", "writing", "renaming", "placed", "walking"}
    /\ target \in [Uploads -> Docs \union {None}]
    /\ result \in [Uploads -> {"none", "ok", "failed"}]
    /\ placedAs \in [Uploads -> Nat]
    /\ todo \subseteq Names
    /\ listed \in [Names -> Nat]
    /\ looking \in Names \union {None}
    /\ stat \in Nat
    /\ manifest \subseteq [name : Names, stat : Nat, hash : Nat]
    /\ warned \in BOOLEAN
    /\ scanned \in BOOLEAN
    /\ calm \subseteq Docs

Init ==
    /\ present = [d \in Docs |-> FALSE]
    /\ rev = [d \in Docs |-> 0]
    /\ whole = [d \in Docs |-> TRUE]
    /\ temp = [u \in Uploads |-> "none"]
    /\ doing = None
    /\ step = "idle"
    /\ target = [u \in Uploads |-> None]
    /\ result = [u \in Uploads |-> "none"]
    /\ placedAs = [u \in Uploads |-> 0]
    /\ todo = {}
    /\ listed = [n \in Names |-> 0]
    /\ looking = None
    /\ stat = 0
    /\ manifest = {}
    /\ warned = FALSE
    /\ scanned = FALSE
    /\ calm = {}

-----------------------------------------------------------------------------
(* People at the file server.                                               *)

(* A new version of a document is saved; Word renames a complete file.      *)
ExplorerSave(d) ==
    /\ rev[d] < MaxSaves
    /\ present' = [present EXCEPT ![d] = TRUE]
    /\ rev' = [rev EXCEPT ![d] = @ + 1]
    /\ whole' = [whole EXCEPT ![d] = TRUE]
    /\ calm' = calm \ {d}
    /\ UNCHANGED <<temp, doing, step, upload, walk>>

ExplorerDelete(d) ==
    /\ present[d]
    /\ present' = [present EXCEPT ![d] = FALSE]
    /\ calm' = calm \ {d}
    /\ UNCHANGED <<rev, whole, temp, doing, step, upload, walk>>

-----------------------------------------------------------------------------
(* handleReceiveUpload and writeFileAtomic.                                 *)

BeginUpload(u, d) ==
    /\ doing = None
    /\ target[u] = None
    /\ doing' = u
    /\ step' = "fetching"
    /\ target' = [target EXCEPT ![u] = d]
    /\ UNCHANGED <<folder, result, placedAs, walk, calm>>

(* requestPresignedGet, relay.Get, relay.Decrypt; a blob that is gone fails *)
(* (UploadFails).                                                           *)
Fetch(u) ==
    /\ doing = u /\ step = "fetching"
    /\ step' = "opening"
    /\ UNCHANGED <<folder, doing, upload, walk, calm>>

(* Mutant: the document itself is opened for writing. *)
CreateInPlace(u) ==
    /\ doing = u /\ step = "opening"
    /\ present' = [present EXCEPT ![target[u]] = TRUE]
    /\ whole' = [whole EXCEPT ![target[u]] = FALSE]
    /\ temp' = [temp EXCEPT ![u] = "partial"]
    /\ step' = "writing"
    /\ calm' = calm \ {target[u]}
    /\ UNCHANGED <<rev, doing, upload, walk>>

CreateTemp(u) ==
    /\ doing = u /\ step = "opening"
    /\ temp' = [temp EXCEPT ![u] = "partial"]
    /\ step' = "writing"
    /\ UNCHANGED <<present, rev, whole, doing, upload, walk, calm>>

(* Write and Close. *)
Write(u) ==
    /\ doing = u /\ step = "writing"
    /\ temp' = [temp EXCEPT ![u] = "whole"]
    /\ step' = "renaming"
    /\ UNCHANGED <<present, rev, whole, doing, upload, walk, calm>>

Return(u, r) ==
    /\ result' = [result EXCEPT ![u] = r]
    /\ doing' = None
    /\ step' = "idle"

(* The temporary file takes the document's place. *)
Replace(u, d) ==
    /\ present' = [present EXCEPT ![d] = TRUE]
    /\ rev' = [rev EXCEPT ![d] = @ + 1]
    /\ whole' = [whole EXCEPT ![d] = (temp[u] = "whole")]
    /\ temp' = [temp EXCEPT ![u] = "none"]
    /\ placedAs' = [placedAs EXCEPT ![u] = rev[d] + 1]
    /\ calm' = calm \ {d}

(* Mutant: an error of Rename is not looked at. *)
RenameUnchecked(u) ==
    /\ doing = u /\ step = "renaming"
    /\ \/ Replace(u, target[u]) /\ step' = "placed" /\ UNCHANGED <<doing, result>>
       \/ Return(u, "ok") /\ UNCHANGED <<folder, placedAs, calm>>
    /\ UNCHANGED <<target, walk>>

(* The file server renames; its answer is still to come. *)
Rename(u) ==
    /\ doing = u /\ step = "renaming"
    /\ Replace(u, target[u])
    /\ step' = "placed"
    /\ UNCHANGED <<doing, target, result, walk>>

Succeed(u) ==
    /\ doing = u /\ step = "placed"
    /\ Return(u, "ok")
    /\ UNCHANGED <<folder, target, placedAs, walk, calm>>

(* Mutant: an upload that seems to have failed is begun anew. *)
TryAgain(u) ==
    /\ doing = u /\ step = "placed"
    /\ step' = "fetching"
    /\ UNCHANGED <<folder, doing, upload, walk, calm>>

(* The rename is done, but the SMB connection is lost before the answer:    *)
(* Rename returns an error and Remove finds nothing to remove.              *)
RenameUnanswered(u) ==
    /\ doing = u /\ step = "placed"
    /\ Return(u, "failed")
    /\ UNCHANGED <<folder, target, placedAs, walk, calm>>

(* Any step up to the rename may fail: the blob is gone, the disk is full,  *)
(* somebody has the document open.  The temporary file is removed; an error *)
(* of that is ignored.                                                      *)
UploadFails(u) ==
    /\ doing = u /\ step # "placed"
    /\ temp' \in {temp, [temp EXCEPT ![u] = "none"]}
    /\ Return(u, "failed")
    /\ UNCHANGED <<present, rev, whole, target, placedAs, walk, calm>>

-----------------------------------------------------------------------------
(* handleScanReconcile and Scan.                                            *)

Exists(n) == IF n \in Docs THEN present[n] ELSE temp[n] # "none"

RevOf(n) == IF n \in Docs THEN rev[n] ELSE 0

(* WalkDir lists the folder; what Info() says later may date from now (as   *)
(* it does on Windows).  A root that cannot be read is only a warning.      *)
BeginScan ==
    /\ doing = None
    /\ doing' = Scan
    /\ step' = "walking"
    /\ \/ todo' = {n \in Names : Exists(n)} /\ warned' = FALSE
       \/ todo' = {} /\ warned' = TRUE
    /\ listed' = [n \in Names |-> RevOf(n)]
    /\ manifest' = {}
    /\ scanned' = FALSE
    /\ calm' = Docs
    /\ UNCHANGED <<folder, upload, looking, stat>>

Info(n) ==
    /\ doing = Scan /\ looking = None
    /\ n \in todo
    /\ todo' = todo \ {n}
    /\ looking' = n
    /\ stat' \in {listed[n], RevOf(n)}
    /\ UNCHANGED <<folder, doing, step, upload, listed, manifest, warned, scanned, calm>>

(* Mutant: Info() is asked after the file was hashed; stat then is when the *)
(* file was opened.                                                         *)
HashThenInfo(n) ==
    /\ doing = Scan /\ looking = n
    /\ Exists(n)
    /\ manifest' = manifest \union {[name |-> n, stat |-> RevOf(n), hash |-> stat]}
    /\ looking' = None
    /\ UNCHANGED <<folder, doing, step, upload, todo, listed, stat, warned, scanned, calm>>

Hash(n) ==
    /\ doing = Scan /\ looking = n
    /\ Exists(n)
    /\ manifest' = manifest \union {[name |-> n, stat |-> stat, hash |-> RevOf(n)]}
    /\ looking' = None
    /\ UNCHANGED <<folder, doing, step, upload, todo, listed, stat, warned, scanned, calm>>

(* Mutant: a file that cannot be read is passed over in silence. *)
SkipSilently(n) ==
    /\ doing = Scan
    /\ n \in todo \union {looking}
    /\ todo' = todo \ {n}
    /\ looking' = IF looking = n THEN None ELSE looking
    /\ UNCHANGED <<folder, doing, step, upload, listed, stat, manifest, warned, scanned, calm>>

(* The file is gone, locked, or not permitted: an error is collected and    *)
(* the walk goes on.                                                        *)
Skip(n) ==
    /\ doing = Scan
    /\ IF looking = None THEN n \in todo ELSE n = looking
    /\ todo' = todo \ {n}
    /\ looking' = None
    /\ warned' = TRUE
    /\ UNCHANGED <<folder, doing, step, upload, listed, stat, manifest, scanned, calm>>

(* Errors are logged; the result is Ok whatever they are. *)
EndScan ==
    /\ doing = Scan /\ looking = None
    /\ todo = {}
    /\ scanned' = TRUE
    /\ doing' = None
    /\ step' = "idle"
    /\ UNCHANGED <<folder, upload, todo, listed, looking, stat, manifest, warned, calm>>

-----------------------------------------------------------------------------

(* The connector dies and is started again; its job is not handed out anew. *)
Crash ==
    /\ doing # None
    /\ doing' = None
    /\ step' = "idle"
    /\ looking' = None
    /\ todo' = {}
    /\ UNCHANGED <<folder, upload, listed, stat, manifest, warned, scanned, calm>>

UploadStep(u) ==
    \/ Fetch(u) \/ CreateTemp(u) \/ Write(u) \/ Rename(u)
    \/ Succeed(u) \/ RenameUnanswered(u) \/ UploadFails(u)

Next ==
    \/ \E d \in Docs : ExplorerSave(d) \/ ExplorerDelete(d)
    \/ \E u \in Uploads : UploadStep(u) \/ \E d \in Docs : BeginUpload(u, d)
    \/ BeginScan \/ EndScan
    \/ \E n \in Names : Info(n) \/ Hash(n) \/ Skip(n)
    \/ Crash

Spec == Init /\ [][Next]_vars

-----------------------------------------------------------------------------

(* io.go:24-29: wherever the connector dies or loses its connection, a      *)
(* document's path never holds a half-written file.                         *)
NeverHalfWritten == \A d \in Docs : present[d] => whole[d]

(* An upload that reports success was in the document's place, and what is  *)
(* there now is that or something put there later, never an older file.     *)
SuccessWasPlaced ==
    \A u \in Uploads : result[u] = "ok" =>
        placedAs[u] > 0 /\ placedAs[u] <= rev[target[u]]

(* scan.go:63-69: the size and time of a record may be older than its hash, *)
(* and then the next scan sees a change; they are never newer, which would   *)
(* let an edit made in between pass unnoticed by every later scan.           *)
NoEditHidden == \A r \in manifest : r.stat <= r.hash

(* A walk that warns of nothing has recorded, as it is, every document that *)
(* nobody touched since it began.                                           *)
QuietScanIsComplete ==
    scanned /\ ~warned =>
        \A d \in calm : present[d] =>
            [name |-> d, stat |-> rev[d], hash |-> rev[d]] \in manifest

-----------------------------------------------------------------------------
(* The inductive invariant.                                                 *)

UploadInv ==
    \A u \in Uploads :
        /\ doing = u => /\ target[u] # None /\ result[u] = "none"
                        /\ step \in {"fetching", "opening", "writing", "renaming", "placed"}
                        /\ step = "placed" <=> placedAs[u] > 0
        /\ doing = u /\ step = "renaming" => temp[u] = "whole"
        /\ result[u] # "none" => target[u] # None
        /\ placedAs[u] > 0 => target[u] # None /\ placedAs[u] <= rev[target[u]]
        /\ result[u] = "ok" => placedAs[u] > 0

WalkInv ==
    /\ doing = Scan => ~scanned
    /\ doing # Scan => todo = {} /\ looking = None
    /\ \A n \in todo : listed[n] <= RevOf(n)
    /\ looking # None => doing = Scan /\ stat <= RevOf(looking)
    /\ \A r \in manifest : r.hash <= RevOf(r.name)

Recorded(d) == [name |-> d, stat |-> rev[d], hash |-> rev[d]] \in manifest

CalmInv ==
    /\ \A d \in calm \intersect todo : listed[d] = rev[d]
    /\ looking \in calm => stat = rev[looking]
    /\ (doing = Scan \/ scanned) /\ ~warned =>
        \A d \in calm : present[d] => d \in todo \/ looking = d \/ Recorded(d)

Inv ==
    /\ TypeOK
    /\ NeverHalfWritten
    /\ NoEditHidden
    /\ UploadInv
    /\ WalkInv
    /\ CalmInv

-----------------------------------------------------------------------------
(* FileServer implements what receive_upload promises.                      *)

(* A file that is there and not whole is no revision at all. *)
FileAt(d) == CASE ~present[d] -> 0 [] present[d] /\ whole[d] -> rev[d] [] OTHER -> None

Atomic == INSTANCE AtomicReplace WITH file <- [d \in Docs |-> FileAt(d)], last <- rev

(* Wherever the connector dies, whatever fails and whoever saves or deletes  *)
(* meanwhile: an upload replaces its document whole and in one step, once at *)
(* most, and not after it has answered; and it answers "ok" only after that. *)
(* A save in Explorer does not pass for a replacement by an upload, nor the  *)
(* reverse: only the latter is recorded in placedAs.                         *)
ImplementsReplace == Atomic!Spec
=============================================================================
