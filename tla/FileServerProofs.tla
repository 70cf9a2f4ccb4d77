-------------------------- MODULE FileServerProofs --------------------------
(***************************************************************************)
(* Proofs about FileServer, for every number of documents, uploads and      *)
(* saves.  UploadInv says that only a complete temporary file is renamed;   *)
(* WalkInv that a walk knows no revision that is yet to come; CalmInv that  *)
(* a document nobody touched is either recorded as it is, or still ahead of *)
(* the walk.                                                                *)
(***************************************************************************)
EXTENDS FileServer, TLAPS

USE NamesAssumption, SavesAssumption

(* The folder is empty and nothing runs. *)
LEMMA InvInit == Init => Inv
<1> SUFFICES ASSUME Init
             PROVE  Inv
    OBVIOUS
<1>1. TypeOK
    BY DEF Init, TypeOK
<1>2. NeverHalfWritten /\ NoEditHidden /\ WalkInv
    BY DEF Init, NeverHalfWritten, NoEditHidden, WalkInv
<1>3. UploadInv
    BY DEF Init, UploadInv
<1>4. CalmInv
    BY DEF Init, CalmInv
<1> QED  BY <1>1, <1>2, <1>3, <1>4 DEF Inv

(* Every step of the connector and of Explorer preserves the invariant. *)
LEMMA InvStep == Inv /\ [Next]_vars => Inv'
<1> SUFFICES ASSUME Inv, [Next]_vars
             PROVE  Inv'
    OBVIOUS
<1> USE DEF Inv
<1>1. ASSUME NEW d \in Docs, ExplorerSave(d)
      PROVE  Inv'
  <2>1. TypeOK'
      BY <1>1 DEF ExplorerSave, upload, walk, TypeOK, UploadInv, RevOf, Names,
         WalkInv
  <2>2. NeverHalfWritten'
      BY <1>1 DEF ExplorerSave, upload, walk, NeverHalfWritten, TypeOK,
         UploadInv
  <2>3. UploadInv'
      BY <1>1 DEF ExplorerSave, upload, walk, UploadInv, TypeOK, WalkInv
  <2>4. WalkInv'
      BY <1>1 DEF ExplorerSave, upload, walk, WalkInv, TypeOK, RevOf, Names
  <2>5. CalmInv'
      BY <1>1 DEF ExplorerSave, upload, walk, CalmInv, TypeOK, RevOf, Names,
         Exists, Recorded, WalkInv, UploadInv
  <2>6. (NoEditHidden)'
      BY <1>1 DEF ExplorerSave, upload, walk, NoEditHidden
  <2> QED  BY <2>1, <2>2, <2>3, <2>4, <2>5, <2>6
<1>2. ASSUME NEW d \in Docs, ExplorerDelete(d)
      PROVE  Inv'
  <2>1. TypeOK'
      BY <1>2 DEF ExplorerDelete, upload, walk, TypeOK, UploadInv, RevOf,
         Names, WalkInv
  <2>2. NeverHalfWritten'
      BY <1>2 DEF ExplorerDelete, upload, walk, NeverHalfWritten, TypeOK,
         UploadInv
  <2>3. CalmInv'
      BY <1>2 DEF ExplorerDelete, upload, walk, CalmInv, TypeOK, RevOf, Names,
         Exists, Recorded, WalkInv, UploadInv
  <2>4. (NoEditHidden /\ UploadInv /\ WalkInv)'
      BY <1>2 DEF ExplorerDelete, upload, walk, NoEditHidden, UploadInv,
         WalkInv, RevOf
  <2> QED  BY <2>1, <2>2, <2>3, <2>4
<1>3. ASSUME NEW u \in Uploads, NEW d \in Docs, BeginUpload(u, d)
      PROVE  Inv'
  <2>1. TypeOK'
      BY <1>3 DEF BeginUpload, folder, walk, TypeOK, UploadInv, RevOf, Names,
         WalkInv
  <2>2. UploadInv'
      BY <1>3 DEF BeginUpload, folder, walk, UploadInv, TypeOK, WalkInv
  <2>3. WalkInv'
      BY <1>3 DEF BeginUpload, folder, walk, WalkInv, TypeOK, RevOf, Names
  <2>4. CalmInv'
      BY <1>3 DEF BeginUpload, folder, walk, CalmInv, TypeOK, RevOf, Names,
         Exists, Recorded, WalkInv, UploadInv
  <2>5. (NeverHalfWritten /\ NoEditHidden)'
      BY <1>3 DEF BeginUpload, folder, walk, NeverHalfWritten, NoEditHidden
  <2> QED  BY <2>1, <2>2, <2>3, <2>4, <2>5
<1>4. ASSUME NEW u \in Uploads, Fetch(u)
      PROVE  Inv'
  <2>1. TypeOK'
      BY <1>4 DEF Fetch, folder, upload, walk, TypeOK, UploadInv, RevOf,
         Names, WalkInv
  <2>2. UploadInv'
      BY <1>4 DEF Fetch, folder, upload, walk, UploadInv, TypeOK, WalkInv
  <2>3. (NeverHalfWritten /\ NoEditHidden /\ WalkInv /\ CalmInv)'
      BY <1>4 DEF Fetch, folder, upload, walk, NeverHalfWritten, NoEditHidden,
         WalkInv, CalmInv, RevOf, Recorded
  <2> QED  BY <2>1, <2>2, <2>3
<1>5. ASSUME NEW u \in Uploads, CreateTemp(u)
      PROVE  Inv'
  <2>1. TypeOK'
      BY <1>5 DEF CreateTemp, upload, walk, TypeOK, UploadInv, RevOf, Names,
         WalkInv
  <2>2. UploadInv'
      BY <1>5 DEF CreateTemp, upload, walk, UploadInv, TypeOK, WalkInv
  <2>3. (NeverHalfWritten /\ NoEditHidden /\ WalkInv /\ CalmInv)'
      BY <1>5 DEF CreateTemp, upload, walk, NeverHalfWritten, NoEditHidden,
         WalkInv, CalmInv, RevOf, Recorded
  <2> QED  BY <2>1, <2>2, <2>3
<1>6. ASSUME NEW u \in Uploads, Write(u)
      PROVE  Inv'
  <2>1. TypeOK'
      BY <1>6 DEF Write, upload, walk, TypeOK, UploadInv, RevOf, Names,
         WalkInv
  <2>2. UploadInv'
      BY <1>6 DEF Write, upload, walk, UploadInv, TypeOK, WalkInv
  <2>3. (NeverHalfWritten /\ NoEditHidden /\ WalkInv /\ CalmInv)'
      BY <1>6 DEF Write, upload, walk, NeverHalfWritten, NoEditHidden,
         WalkInv, CalmInv, RevOf, Recorded
  <2> QED  BY <2>1, <2>2, <2>3
<1>7. ASSUME NEW u \in Uploads, Rename(u)
      PROVE  Inv'
  <2>1. TypeOK'
      BY <1>7 DEF Rename, walk, Replace, TypeOK, UploadInv, RevOf, Names, WalkInv
  <2>2. NeverHalfWritten'
      BY <1>7 DEF Rename, walk, Replace, NeverHalfWritten, TypeOK, UploadInv
  <2>3. UploadInv'
      BY <1>7 DEF Rename, walk, Replace, UploadInv, TypeOK, WalkInv
  <2>4. WalkInv'
      BY <1>7 DEF Rename, walk, Replace, WalkInv, TypeOK, RevOf, Names
  <2>5. CalmInv'
      BY <1>7 DEF Rename, walk, Replace, CalmInv, TypeOK, RevOf, Names, Exists,
         Recorded, WalkInv, UploadInv
  <2>6. (NoEditHidden)'
      BY <1>7 DEF Rename, walk, Replace, NoEditHidden
  <2> QED  BY <2>1, <2>2, <2>3, <2>4, <2>5, <2>6
<1>8. ASSUME NEW u \in Uploads, Succeed(u) \/ RenameUnanswered(u)
      PROVE  Inv'
  <2>0. PICK r \in {"ok", "failed"} :
            /\ doing = u /\ step = "placed" /\ Return(u, r)
            /\ UNCHANGED <<folder, target, placedAs, walk, calm>>
      BY <1>8 DEF Succeed, RenameUnanswered
  <2>1. TypeOK'
      BY <2>0 DEF folder, walk, Return, TypeOK
  <2>2. UploadInv'
      BY <2>0 DEF folder, walk, Return, UploadInv, TypeOK
  <2>3. WalkInv'
      BY <2>0 DEF folder, walk, Return, WalkInv, TypeOK, RevOf
  <2>4. CalmInv'
      BY <2>0 DEF folder, walk, Return, CalmInv, TypeOK, RevOf, Names, Recorded, WalkInv
  <2>5. (NeverHalfWritten /\ NoEditHidden)'
      BY <2>0 DEF folder, walk, NeverHalfWritten, NoEditHidden
  <2> QED  BY <2>1, <2>2, <2>3, <2>4, <2>5
<1>9. ASSUME NEW u \in Uploads, UploadFails(u)
      PROVE  Inv'
  <2>1. TypeOK'
      BY <1>9 DEF UploadFails, walk, Return, TypeOK, UploadInv, RevOf, Names,
         WalkInv
  <2>2. UploadInv'
      BY <1>9 DEF UploadFails, walk, Return, UploadInv, TypeOK, WalkInv
  <2>3. WalkInv'
      BY <1>9 DEF UploadFails, walk, Return, WalkInv, TypeOK, RevOf, Names
  <2>4. CalmInv'
      BY <1>9 DEF UploadFails, walk, Return, CalmInv, TypeOK, RevOf, Names,
         Exists, Recorded, WalkInv, UploadInv
  <2>5. (NeverHalfWritten /\ NoEditHidden)'
      BY <1>9 DEF UploadFails, walk, Return, NeverHalfWritten, NoEditHidden
  <2> QED  BY <2>1, <2>2, <2>3, <2>4, <2>5
<1>10. ASSUME BeginScan
      PROVE  Inv'
  <2>1. TypeOK'
      BY <1>10 DEF BeginScan, folder, upload, TypeOK, UploadInv, RevOf, Names,
         WalkInv
  <2>2. NoEditHidden'
      BY <1>10 DEF BeginScan, folder, upload, NoEditHidden, TypeOK, WalkInv,
         Names
  <2>3. UploadInv'
      BY <1>10 DEF BeginScan, folder, upload, UploadInv, TypeOK, WalkInv
  <2>4. WalkInv'
      BY <1>10 DEF BeginScan, folder, upload, WalkInv, TypeOK, RevOf, Names
  <2>5. CalmInv'
      BY <1>10 DEF BeginScan, folder, upload, CalmInv, TypeOK, RevOf, Names,
         Exists, Recorded, WalkInv, UploadInv
  <2>6. (NeverHalfWritten)'
      BY <1>10 DEF BeginScan, folder, upload, NeverHalfWritten
  <2> QED  BY <2>1, <2>2, <2>3, <2>4, <2>5, <2>6
<1>11. ASSUME EndScan
      PROVE  Inv'
  <2>1. TypeOK'
      BY <1>11 DEF EndScan, folder, upload, TypeOK, UploadInv, RevOf, Names,
         WalkInv
  <2>2. UploadInv'
      BY <1>11 DEF EndScan, folder, upload, UploadInv, TypeOK, WalkInv
  <2>3. WalkInv'
      BY <1>11 DEF EndScan, folder, upload, WalkInv, TypeOK, RevOf, Names
  <2>4. CalmInv'
      BY <1>11 DEF EndScan, folder, upload, CalmInv, TypeOK, RevOf, Names,
         Exists, Recorded, WalkInv, UploadInv
  <2>5. (NeverHalfWritten /\ NoEditHidden)'
      BY <1>11 DEF EndScan, folder, upload, NeverHalfWritten, NoEditHidden
  <2> QED  BY <2>1, <2>2, <2>3, <2>4, <2>5
<1>12. ASSUME NEW n \in Names, Info(n)
      PROVE  Inv'
  <2>1. TypeOK'
      BY <1>12 DEF Info, folder, upload, TypeOK, UploadInv, RevOf, Names,
         WalkInv
  <2>2. WalkInv'
      BY <1>12 DEF Info, folder, upload, WalkInv, TypeOK, RevOf, Names
  <2>3. CalmInv'
      BY <1>12 DEF Info, folder, upload, CalmInv, TypeOK, RevOf, Names,
         Exists, Recorded, WalkInv, UploadInv
  <2>4. (NeverHalfWritten /\ NoEditHidden /\ UploadInv)'
      BY <1>12 DEF Info, folder, upload, NeverHalfWritten, NoEditHidden,
         UploadInv
  <2> QED  BY <2>1, <2>2, <2>3, <2>4
<1>13. ASSUME NEW n \in Names, Hash(n)
      PROVE  Inv'
  <2>1. TypeOK'
      BY <1>13 DEF Hash, folder, upload, TypeOK, UploadInv, RevOf, Names,
         WalkInv
  <2>2. NoEditHidden'
      BY <1>13 DEF Hash, folder, upload, NoEditHidden, TypeOK, WalkInv, Names
  <2>3. WalkInv'
      BY <1>13 DEF Hash, folder, upload, WalkInv, TypeOK, RevOf, Names
  <2>4. CalmInv'
      BY <1>13 DEF Hash, folder, upload, CalmInv, TypeOK, RevOf, Names,
         Exists, Recorded, WalkInv, UploadInv
  <2>5. (NeverHalfWritten /\ UploadInv)'
      BY <1>13 DEF Hash, folder, upload, NeverHalfWritten, UploadInv
  <2> QED  BY <2>1, <2>2, <2>3, <2>4, <2>5
<1>14. ASSUME NEW n \in Names, Skip(n)
      PROVE  Inv'
  <2>1. TypeOK'
      BY <1>14 DEF Skip, folder, upload, TypeOK, UploadInv, RevOf, Names,
         WalkInv
  <2>2. WalkInv'
      BY <1>14 DEF Skip, folder, upload, WalkInv, TypeOK, RevOf, Names
  <2>3. CalmInv'
      BY <1>14 DEF Skip, folder, upload, CalmInv, TypeOK, RevOf, Names,
         Exists, Recorded, WalkInv, UploadInv
  <2>4. (NeverHalfWritten /\ NoEditHidden /\ UploadInv)'
      BY <1>14 DEF Skip, folder, upload, NeverHalfWritten, NoEditHidden,
         UploadInv
  <2> QED  BY <2>1, <2>2, <2>3, <2>4
<1>15. ASSUME Crash
      PROVE  Inv'
  <2>1. TypeOK'
      BY <1>15 DEF Crash, folder, upload, TypeOK, UploadInv, RevOf, Names,
         WalkInv
  <2>2. UploadInv'
      BY <1>15 DEF Crash, folder, upload, UploadInv, TypeOK, WalkInv
  <2>3. WalkInv'
      BY <1>15 DEF Crash, folder, upload, WalkInv, TypeOK, RevOf, Names
  <2>4. CalmInv'
      BY <1>15 DEF Crash, folder, upload, CalmInv, TypeOK, RevOf, Names,
         Exists, Recorded, WalkInv, UploadInv
  <2>5. (NeverHalfWritten /\ NoEditHidden)'
      BY <1>15 DEF Crash, folder, upload, NeverHalfWritten, NoEditHidden
  <2> QED  BY <2>1, <2>2, <2>3, <2>4, <2>5
<1>16. CASE UNCHANGED vars
    BY <1>16 DEF vars, folder, upload, walk, TypeOK, NeverHalfWritten,
       NoEditHidden, UploadInv, WalkInv, CalmInv, RevOf, Recorded
<1> QED
    BY <1>1, <1>2, <1>3, <1>4, <1>5, <1>6, <1>7, <1>8, <1>9, <1>10, <1>11,
       <1>12, <1>13, <1>14, <1>15, <1>16 DEF Next, UploadStep

(* The invariant, and with it TypeOK, holds in every reachable state. *)
THEOREM FolderInvariance == Spec => []Inv
    BY InvInit, InvStep, PTL DEF Spec

(* A document's path never holds a half-written file, whenever the          *)
(* connector crashes or fails.                                              *)
THEOREM Atomicity == Spec => []NeverHalfWritten
<1>1. Inv => NeverHalfWritten
    BY DEF Inv
<1> HIDE DEF Inv, NeverHalfWritten
<1> QED
    BY <1>1, FolderInvariance, PTL

(* An upload that reports success had its file renamed into place, and      *)
(* nothing older is there now.                                              *)
THEOREM Placement == Spec => []SuccessWasPlaced
<1>1. Inv => SuccessWasPlaced
    BY DEF Inv, UploadInv, SuccessWasPlaced
<1> HIDE DEF Inv, SuccessWasPlaced
<1> QED
    BY <1>1, FolderInvariance, PTL

(* The size and time a scan records are never newer than the hash. *)
THEOREM EditsShow == Spec => []NoEditHidden
<1>1. Inv => NoEditHidden
    BY DEF Inv
<1> HIDE DEF Inv, NoEditHidden
<1> QED
    BY <1>1, FolderInvariance, PTL

(* A scan without warnings has recorded every document nobody touched. *)
THEOREM Completeness == Spec => []QuietScanIsComplete
<1>1. Inv => QuietScanIsComplete
    BY DEF Inv, TypeOK, WalkInv, CalmInv, Recorded, QuietScanIsComplete
<1> HIDE DEF Inv, QuietScanIsComplete
<1> QED
    BY <1>1, FolderInvariance, PTL

-----------------------------------------------------------------------------

(* A rename puts the next revision, complete, at the document's path. *)
LEMMA RenamePuts ==
    ASSUME Inv, NEW u \in Uploads, doing = u, step = "renaming", Replace(u, target[u])
    PROVE  target[u] \in Docs /\ Atomic!Put(target[u])
<1> DEFINE d == target[u]
<1>1. d \in Docs /\ temp[u] = "whole"
    BY DEF Inv, UploadInv, TypeOK
<1>2. present'[d] /\ whole'[d] /\ rev'[d] = rev[d] + 1
    BY <1>1 DEF Replace, Inv, TypeOK
<1>3. \A e \in Docs : e # d =>
        present'[e] = present[e] /\ whole'[e] = whole[e] /\ rev'[e] = rev[e]
    BY <1>1 DEF Replace, Inv, TypeOK
<1>4. [e \in Docs |-> FileAt(e)'] = [[e \in Docs |-> FileAt(e)] EXCEPT ![d] = rev[d] + 1]
    BY <1>1, <1>2, <1>3 DEF FileAt
<1>5. rev' = [rev EXCEPT ![d] = @ + 1]
    BY DEF Replace
<1> QED
    BY <1>1, <1>4, <1>5 DEF Atomic!Put

LEMMA ReplaceStep == Inv /\ [Next]_vars => [Atomic!Next]_(Atomic!vars)
<1> SUFFICES ASSUME Inv, [Next]_vars
             PROVE  [Atomic!Next]_(Atomic!vars)
    OBVIOUS
<1>1. ASSUME NEW d \in Docs, ExplorerSave(d)
      PROVE  Atomic!Next
  <2>1. present'[d] /\ whole'[d] /\ rev'[d] = rev[d] + 1
      BY <1>1 DEF ExplorerSave, Inv, TypeOK
  <2>2. \A e \in Docs : e # d =>
          present'[e] = present[e] /\ whole'[e] = whole[e] /\ rev'[e] = rev[e]
      BY <1>1 DEF ExplorerSave, Inv, TypeOK
  <2>3. [e \in Docs |-> FileAt(e)'] = [[e \in Docs |-> FileAt(e)] EXCEPT ![d] = rev[d] + 1]
      BY <2>1, <2>2 DEF FileAt
  <2>4. Atomic!Save(d)
      BY <1>1, <2>3 DEF ExplorerSave, upload, Atomic!Save, Atomic!Put
  <2> QED  BY <2>4 DEF Atomic!Next
<1>2. ASSUME NEW d \in Docs, ExplorerDelete(d)
      PROVE  Atomic!Next
  <2>1. /\ ~present'[d]
        /\ \A e \in Docs : e # d => present'[e] = present[e]
        /\ UNCHANGED <<whole, rev>>
      BY <1>2 DEF ExplorerDelete, Inv, TypeOK
  <2>2. [e \in Docs |-> FileAt(e)'] = [[e \in Docs |-> FileAt(e)] EXCEPT ![d] = 0]
      BY <2>1 DEF FileAt
  <2>3. Atomic!Delete(d)
      BY <1>2, <2>2 DEF ExplorerDelete, upload, Atomic!Delete
  <2> QED  BY <2>3 DEF Atomic!Next
<1>3. ASSUME NEW u \in Uploads, NEW d \in Docs, BeginUpload(u, d)
      PROVE  Atomic!Next
  <2>1. Atomic!Ask(u, d)
      BY <1>3 DEF BeginUpload, folder, FileAt, Atomic!Ask
  <2> QED  BY <2>1 DEF Atomic!Next
<1>4. ASSUME NEW u \in Uploads, Rename(u)
      PROVE  Atomic!Next
  <2>1. /\ doing = u /\ step = "renaming" /\ Replace(u, target[u])
        /\ UNCHANGED <<target, result>>
      BY <1>4 DEF Rename
  <2>2. target[u] # None /\ result[u] = "none" /\ placedAs[u] = 0
      BY <2>1 DEF Inv, UploadInv, TypeOK
  <2>3. placedAs' = [placedAs EXCEPT ![u] = rev[target[u]] + 1]
      BY <2>1 DEF Replace
  <2>4. Atomic!Replace(u)
      BY <2>1, <2>2, <2>3, RenamePuts DEF Atomic!Replace, Atomic!Asked
  <2> QED  BY <2>4 DEF Atomic!Next
<1>5. ASSUME NEW u \in Uploads, Succeed(u) \/ RenameUnanswered(u) \/ UploadFails(u)
      PROVE  Atomic!Next
  <2>1. PICK r \in {"ok", "failed"} :
            /\ doing = u /\ Return(u, r) /\ (r = "ok" => step = "placed")
            /\ UNCHANGED <<present, rev, whole, target, placedAs>>
      BY <1>5 DEF Succeed, RenameUnanswered, UploadFails, folder
  <2>2. target[u] # None /\ result[u] = "none" /\ (r = "ok" => placedAs[u] > 0)
      BY <2>1 DEF Inv, UploadInv
  <2>3. Atomic!Answer(u, r)
      BY <2>1, <2>2 DEF Return, FileAt, Atomic!Answer, Atomic!Asked
  <2> QED  BY <2>3 DEF Atomic!Next
<1>6. ASSUME UNCHANGED <<present, whole, rev, target, placedAs, result>>
      PROVE  UNCHANGED Atomic!vars
    BY <1>6 DEF FileAt, Atomic!vars
<1>7. ASSUME NEW u \in Uploads, Fetch(u) \/ CreateTemp(u) \/ Write(u)
      PROVE  UNCHANGED Atomic!vars
    BY <1>6, <1>7 DEF Fetch, CreateTemp, Write, folder, upload
<1>8. ASSUME NEW n \in Names, Info(n) \/ Hash(n) \/ Skip(n)
      PROVE  UNCHANGED Atomic!vars
    BY <1>6, <1>8 DEF Info, Hash, Skip, folder, upload
<1>9. CASE BeginScan \/ EndScan \/ Crash
    BY <1>6, <1>9 DEF BeginScan, EndScan, Crash, folder, upload
<1>10. CASE UNCHANGED vars
    BY <1>6, <1>10 DEF vars, folder, upload
<1> QED
    BY <1>1, <1>2, <1>3, <1>4, <1>5, <1>7, <1>8, <1>9, <1>10 DEF Next, UploadStep

(* writeFileAtomic: wherever the connector dies and whatever fails, an      *)
(* upload replaces its document whole and in one step, once at most and not *)
(* after its answer, and "ok" is answered only by one that has.             *)
THEOREM Replaces == Spec => ImplementsReplace
<1>1. Init => Atomic!Init
    BY DEF Init, FileAt, Atomic!Init
<1>2. Inv /\ [Next]_vars => [Atomic!Next]_(Atomic!vars)
    BY ReplaceStep
<1> QED
    BY <1>1, <1>2, FolderInvariance, PTL DEF Spec, ImplementsReplace, Atomic!Spec
=============================================================================
