------------------------- MODULE StageDownloadProofs -------------------------
(***************************************************************************)
(* Proofs about StageDownload, for every number of jobs, documents, tabs,   *)
(* edits and polls.  The invariant says what each party of a download has   *)
(* in hand: the handler its own content key and blob key (HandlerInv,       *)
(* FreshInv), the relay nothing but what handlers uploaded (RelayInv), the  *)
(* row what its own handler uploaded (RowInv), the tab its own job (TabInv). *)
(***************************************************************************)
EXTENDS StageDownload, TLAPS

USE BoundsAssumption, NoneAssumption

(* Nothing has been asked for, so nothing can be mixed up. *)
LEMMA InvInit == Init => Inv
    BY DEF Init, Queue!Init, Inv, TypeOK, Queue!TypeOK, Versions, HandlerInv,
           FreshInv, RelayInv, RowInv, TabInv, SavedIsCurrent

(* Every step of the portal, the connector, the relay, the browser and the  *)
(* people at the file server preserves the invariant.                       *)
LEMMA InvStep == Inv /\ [Next]_vars => Inv'
<1> SUFFICES ASSUME Inv, [Next]_vars
             PROVE  Inv'
    OBVIOUS
<1> USE DEF Inv
<1>1. ASSUME NEW d \in Docs, Edit(d)
      PROVE  Inv'
  <2>1. TypeOK'
      BY <1>1 DEF Edit, queue, columns, handler, store, tabs, TypeOK,
         Queue!TypeOK, Versions
  <2>2. TabInv'
      BY <1>1 DEF Edit, queue, columns, handler, store, tabs, TabInv, TypeOK,
         Queue!TypeOK, Versions
  <2>3. HandlerInv'
      BY <1>1 DEF Edit, queue, columns, handler, store, tabs, HandlerInv,
         TypeOK, Queue!TypeOK, Versions, Ciphertexts
  <2>4. (FreshInv /\ RelayInv /\ RowInv /\ SavedIsCurrent)'
      BY <1>1 DEF Edit, queue, columns, handler, store, tabs,
         FreshInv, RelayInv, RowInv, SavedIsCurrent
  <2> QED  BY <2>1, <2>2, <2>3, <2>4
<1>2. ASSUME NEW j \in Jobs, Lease(j)
      PROVE  Inv'
  <2>1. TypeOK'
      BY <1>2 DEF Lease, columns, handler, store, tabs, Queue!Take, TypeOK,
         Queue!TypeOK
  <2>2. HandlerInv'
      BY <1>2 DEF Lease, columns, handler, store, tabs, Queue!Take,
         HandlerInv, TypeOK, Queue!TypeOK
  <2>3. RowInv'
      BY <1>2 DEF Lease, columns, handler, store, tabs, Queue!Take, RowInv,
         TypeOK, Queue!TypeOK
  <2>4. (FreshInv /\ RelayInv /\ TabInv /\ SavedIsCurrent)'
      BY <1>2 DEF Lease, columns, handler, store, tabs, Queue!Take, FreshInv,
         RelayInv, TabInv, SavedIsCurrent
  <2> QED  BY <2>1, <2>2, <2>3, <2>4
<1>3. ASSUME NEW j \in Jobs, Seal(j)
      PROVE  Inv'
  <2>1. TypeOK'
      BY <1>3 DEF Seal, queue, columns, store, tabs, TypeOK, Queue!TypeOK,
         HandlerInv, FreshContentKeys, Ciphertexts, Running
  <2>2. HandlerInv'
      BY <1>3 DEF Seal, queue, columns, store, tabs, HandlerInv, TypeOK,
         Queue!TypeOK, FreshContentKeys, Ciphertexts, Running, Versions
  <2>3. FreshInv'
      BY <1>3 DEF Seal, queue, columns, store, tabs, FreshInv, TypeOK,
         Queue!TypeOK, HandlerInv, FreshContentKeys, Running
  <2>4. RelayInv'
      BY <1>3 DEF Seal, queue, columns, store, tabs, RelayInv, TypeOK,
         Queue!TypeOK, HandlerInv, Running
  <2>5. RowInv'
      BY <1>3 DEF Seal, queue, columns, store, tabs, RowInv, TypeOK,
         Queue!TypeOK, HandlerInv, Running
  <2>6. TabInv'
      BY <1>3 DEF Seal, queue, columns, store, tabs, TabInv, TypeOK,
         Queue!TypeOK, HandlerInv, RowInv, Versions, Running
  <2>7. (SavedIsCurrent)'
      BY <1>3 DEF Seal, queue, columns, store, tabs, SavedIsCurrent
  <2> QED  BY <2>1, <2>2, <2>3, <2>4, <2>5, <2>6, <2>7
<1>4. ASSUME NEW j \in Jobs, RequestPut(j)
      PROVE  Inv'
  <2>1. TypeOK'
      BY <1>4 DEF RequestPut, queue, columns, store, tabs, TypeOK,
         Queue!TypeOK, NewBlobKeys, Running
  <2>2. HandlerInv'
      BY <1>4 DEF RequestPut, queue, columns, store, tabs, HandlerInv, TypeOK,
         Queue!TypeOK, NewBlobKeys, Running
  <2>3. FreshInv'
      BY <1>4 DEF RequestPut, queue, columns, store, tabs, FreshInv, TypeOK,
         Queue!TypeOK, NewBlobKeys, HandlerInv, Running
  <2>4. RelayInv'
      BY <1>4 DEF RequestPut, queue, columns, store, tabs, RelayInv, TypeOK,
         Queue!TypeOK, HandlerInv, Running
  <2>5. RowInv'
      BY <1>4 DEF RequestPut, queue, columns, store, tabs, RowInv, TypeOK,
         Queue!TypeOK, HandlerInv, Running
  <2>6. (TabInv /\ SavedIsCurrent)'
      BY <1>4 DEF RequestPut, queue, columns, store, tabs, TabInv,
         SavedIsCurrent
  <2> QED  BY <2>1, <2>2, <2>3, <2>4, <2>5, <2>6
<1>5. ASSUME NEW j \in Jobs, SendPut(j)
      PROVE  Inv'
  <2>1. TypeOK'
      BY <1>5 DEF SendPut, queue, columns, tabs, TypeOK, Queue!TypeOK, Running
  <2>2. HandlerInv'
      BY <1>5 DEF SendPut, queue, columns, tabs, HandlerInv, TypeOK,
         Queue!TypeOK, Running
  <2>3. RelayInv'
      BY <1>5 DEF SendPut, queue, columns, tabs, RelayInv, TypeOK,
         Queue!TypeOK, HandlerInv, Running
  <2>4. RowInv'
      BY <1>5 DEF SendPut, queue, columns, tabs, RowInv, TypeOK, Queue!TypeOK,
         HandlerInv, Running
  <2>5. (FreshInv /\ TabInv /\ SavedIsCurrent)'
      BY <1>5 DEF SendPut, queue, columns, tabs, FreshInv, TabInv,
         SavedIsCurrent
  <2> QED  BY <2>1, <2>2, <2>3, <2>4, <2>5
<1>6. ASSUME NEW j \in Jobs, PutLands(j)
      PROVE  Inv'
  <2>1. TypeOK'
      BY <1>6 DEF PutLands, queue, columns, handler, tabs, TypeOK,
         Queue!TypeOK, HandlerInv, Objects
  <2>2. HandlerInv'
      BY <1>6 DEF PutLands, queue, columns, handler, tabs, HandlerInv, TypeOK,
         Queue!TypeOK
  <2>3. RelayInv'
    <3>1. /\ upload' = [upload EXCEPT ![j] = "landed"]
          /\ relay' = {o \in relay : o.blob # blobOf[j]}
                        \union {[blob |-> blobOf[j], text |-> sealed[j]]}
          /\ UNCHANGED <<sealed, blobOf, expired>>
        BY <1>6 DEF PutLands, handler
    <3>2. ASSUME NEW o \in relay'
          PROVE  \E i \in Jobs :
                    upload'[i] = "landed" /\ o.blob = blobOf'[i] /\ o.text = sealed'[i]
        BY <3>1, <3>2 DEF RelayInv, TypeOK
    <3>3. ASSUME NEW i \in Jobs, upload'[i] = "landed"
          PROVE  blobOf'[i] \in expired'
                    \/ [blob |-> blobOf'[i], text |-> sealed'[i]] \in relay'
      <4>1. CASE i = j
          BY <3>1, <4>1
      <4>2. CASE i # j
        <5>1. upload[i] = "landed" /\ blobOf[i] # blobOf[j]
            BY <1>6, <3>1, <3>3, <4>2 DEF PutLands, HandlerInv, FreshInv, TypeOK
        <5> QED  BY <3>1, <5>1 DEF RelayInv
      <4> QED  BY <4>1, <4>2
    <3> QED  BY <3>2, <3>3 DEF RelayInv
  <2>4. RowInv'
      BY <1>6 DEF PutLands, queue, columns, handler, tabs, RowInv, TypeOK,
         Queue!TypeOK
  <2>5. (FreshInv /\ TabInv /\ SavedIsCurrent)'
      BY <1>6 DEF PutLands, queue, columns, handler, tabs, FreshInv, TabInv,
         SavedIsCurrent
  <2> QED  BY <2>1, <2>2, <2>3, <2>4, <2>5
<1>7. ASSUME NEW j \in Jobs, PutLost(j)
      PROVE  Inv'
  <2>1. TypeOK'
      BY <1>7 DEF PutLost, queue, columns, handler, tabs, TypeOK, Queue!TypeOK
  <2>2. HandlerInv'
      BY <1>7 DEF PutLost, queue, columns, handler, tabs, HandlerInv, TypeOK,
         Queue!TypeOK
  <2>3. RelayInv'
      BY <1>7 DEF PutLost, queue, columns, handler, tabs, RelayInv, TypeOK,
         Queue!TypeOK
  <2>4. RowInv'
      BY <1>7 DEF PutLost, queue, columns, handler, tabs, RowInv, TypeOK,
         Queue!TypeOK
  <2>5. (FreshInv /\ TabInv /\ SavedIsCurrent)'
      BY <1>7 DEF PutLost, queue, columns, handler, tabs, FreshInv, TabInv,
         SavedIsCurrent
  <2> QED  BY <2>1, <2>2, <2>3, <2>4, <2>5
<1>8. ASSUME NEW j \in Jobs, Succeed(j)
      PROVE  Inv'
  <2>1. TypeOK'
      BY <1>8 DEF Succeed, columns, store, tabs, Queue!Run, TypeOK,
         Queue!TypeOK, Running
  <2>2. HandlerInv'
      BY <1>8 DEF Succeed, columns, store, tabs, Queue!Run, HandlerInv,
         TypeOK, Queue!TypeOK, Running
  <2>3. RowInv'
      BY <1>8 DEF Succeed, columns, store, tabs, Queue!Run, RowInv, TypeOK,
         Queue!TypeOK, Running
  <2>4. (FreshInv /\ RelayInv /\ TabInv /\ SavedIsCurrent)'
      BY <1>8 DEF Succeed, columns, store, tabs, Queue!Run, FreshInv,
         RelayInv, TabInv, SavedIsCurrent
  <2> QED  BY <2>1, <2>2, <2>3, <2>4
<1>9. ASSUME NEW j \in Jobs, Fail(j)
      PROVE  Inv'
  <2>1. TypeOK'
      BY <1>9 DEF Fail, columns, store, tabs, Queue!Run, TypeOK, Queue!TypeOK,
         Running
  <2>2. HandlerInv'
      BY <1>9 DEF Fail, columns, store, tabs, Queue!Run, HandlerInv, TypeOK,
         Queue!TypeOK, Running
  <2>3. RowInv'
      BY <1>9 DEF Fail, columns, store, tabs, Queue!Run, RowInv, TypeOK,
         Queue!TypeOK, Running
  <2>4. (FreshInv /\ RelayInv /\ TabInv /\ SavedIsCurrent)'
      BY <1>9 DEF Fail, columns, store, tabs, Queue!Run, FreshInv, RelayInv,
         TabInv, SavedIsCurrent
  <2> QED  BY <2>1, <2>2, <2>3, <2>4
<1>10. ASSUME NEW j \in Jobs, Report(j)
      PROVE  Inv'
  <2>1. TypeOK'
      BY <1>10 DEF Report, handler, store, tabs, Queue!Record, TypeOK,
         Queue!TypeOK, HandlerInv, RowInv, Results, Ciphertexts
  <2>2. HandlerInv'
      BY <1>10 DEF Report, handler, store, tabs, Queue!Record, HandlerInv,
         TypeOK, Queue!TypeOK
  <2>3. RowInv'
      BY <1>10 DEF Report, handler, store, tabs, Queue!Record, RowInv, TypeOK,
         Queue!TypeOK
  <2>4. TabInv'
      BY <1>10 DEF Report, handler, store, tabs, Queue!Record, TabInv, TypeOK,
         Queue!TypeOK, RowInv
  <2>5. (FreshInv /\ RelayInv /\ SavedIsCurrent)'
      BY <1>10 DEF Report, handler, store, tabs, Queue!Record, FreshInv,
         RelayInv, SavedIsCurrent
  <2> QED  BY <2>1, <2>2, <2>3, <2>4, <2>5
<1>11. ASSUME NEW gone \in SUBSET BlobKeys, Expire(gone)
      PROVE  Inv'
  <2>1. TypeOK'
      BY <1>11 DEF Expire, queue, columns, handler, tabs, TypeOK, Queue!TypeOK
  <2>2. RelayInv'
      BY <1>11 DEF Expire, queue, columns, handler, tabs, RelayInv, TypeOK,
         Queue!TypeOK
  <2>3. (HandlerInv /\ FreshInv /\ RowInv /\ TabInv /\ SavedIsCurrent)'
      BY <1>11 DEF Expire, queue, columns, handler, tabs, HandlerInv,
         FreshInv, RowInv, TabInv, SavedIsCurrent
  <2> QED  BY <2>1, <2>2, <2>3
<1>12. ASSUME NEW t \in Tabs, NEW d \in Docs, Click(t, d)
      PROVE  Inv'
  <2>1. TypeOK'
      BY <1>12 DEF Click, queue, columns, handler, store, TypeOK,
         Queue!TypeOK, Versions
  <2>2. TabInv'
    <3>1. d # None
        OBVIOUS
    <3>2. ASSUME NEW u \in Tabs, u # t
          PROVE  /\ tab'[u] = tab[u] /\ want'[u] = want[u] /\ since'[u] = since[u]
                 /\ job'[u] = job[u] /\ got'[u] = got[u]
        BY <1>12, <3>2 DEF Click, TypeOK, Queue!TypeOK
    <3>3. /\ tab'[t] = "staging" /\ want'[t] = d /\ since'[t] = version[d]
          /\ version[d] \in Nat
        BY <1>12 DEF Click, TypeOK, Queue!TypeOK, Versions
    <3>4. UNCHANGED <<version, docOf, sealed, verdict, row>>
        BY <1>12 DEF Click, queue, columns, handler
    <3> QED
        BY <3>1, <3>2, <3>3, <3>4 DEF TabInv
  <2>3. SavedIsCurrent'
      BY <1>12 DEF Click, queue, columns, handler, store, SavedIsCurrent,
         TypeOK, Queue!TypeOK
  <2>4. (HandlerInv /\ FreshInv /\ RelayInv /\ RowInv)'
      BY <1>12 DEF Click, queue, columns, handler, store, HandlerInv,
         FreshInv, RelayInv, RowInv
  <2> QED  BY <2>1, <2>2, <2>3, <2>4
<1>13. ASSUME NEW t \in Tabs, NEW j \in Jobs, Stage(t, j)
      PROVE  Inv'
  <2>1. TypeOK'
      BY <1>13 DEF Stage, handler, store, Queue!Submit, TypeOK, Queue!TypeOK
  <2>2. HandlerInv'
      BY <1>13 DEF Stage, handler, store, Queue!Submit, HandlerInv, TypeOK,
         Queue!TypeOK, TabInv
  <2>3. RowInv'
      BY <1>13 DEF Stage, handler, store, Queue!Submit, RowInv, TypeOK,
         Queue!TypeOK
  <2>4. TabInv'
      BY <1>13 DEF Stage, handler, store, Queue!Submit, TabInv, TypeOK,
         Queue!TypeOK, HandlerInv
  <2>5. (FreshInv /\ RelayInv /\ SavedIsCurrent)'
      BY <1>13 DEF Stage, handler, store, Queue!Submit, FreshInv, RelayInv,
         SavedIsCurrent
  <2> QED  BY <2>1, <2>2, <2>3, <2>4, <2>5
<1>14. ASSUME NEW t \in Tabs, NEW j \in Jobs, StageUnheard(t, j)
      PROVE  Inv'
  <2>1. TypeOK'
      BY <1>14 DEF StageUnheard, handler, store, Errs, Queue!Submit, TypeOK,
         Queue!TypeOK
  <2>2. HandlerInv'
      BY <1>14 DEF StageUnheard, handler, store, Errs, Queue!Submit,
         HandlerInv, TypeOK, Queue!TypeOK, TabInv
  <2>3. RowInv'
      BY <1>14 DEF StageUnheard, handler, store, Errs, Queue!Submit, RowInv,
         TypeOK, Queue!TypeOK
  <2>4. TabInv'
      BY <1>14 DEF StageUnheard, handler, store, Errs, Queue!Submit, TabInv,
         TypeOK, Queue!TypeOK, HandlerInv
  <2>5. (FreshInv /\ RelayInv /\ SavedIsCurrent)'
      BY <1>14 DEF StageUnheard, handler, store, Errs, Queue!Submit, FreshInv,
         RelayInv, SavedIsCurrent
  <2> QED  BY <2>1, <2>2, <2>3, <2>4, <2>5
<1>15. ASSUME NEW t \in Tabs, StageFails(t)
      PROVE  Inv'
  <2>1. TypeOK'
      BY <1>15 DEF StageFails, queue, columns, handler, store, Errs, TypeOK,
         Queue!TypeOK
  <2>2. TabInv'
      BY <1>15 DEF StageFails, queue, columns, handler, store, Errs, TabInv,
         TypeOK, Queue!TypeOK
  <2>3. (HandlerInv /\ FreshInv /\ RelayInv /\ RowInv /\ SavedIsCurrent)'
      BY <1>15 DEF StageFails, queue, columns, handler, store, Errs,
         HandlerInv, FreshInv, RelayInv, RowInv, SavedIsCurrent
  <2> QED  BY <2>1, <2>2, <2>3
<1>16. ASSUME NEW t \in Tabs, PollSucceeded(t)
      PROVE  Inv'
  <2>1. TypeOK'
      BY <1>16 DEF PollSucceeded, queue, columns, handler, store, TypeOK,
         Queue!TypeOK, Polling, TabInv
  <2>2. TabInv'
      BY <1>16 DEF PollSucceeded, queue, columns, handler, store, TabInv,
         TypeOK, Queue!TypeOK, Polling
  <2>3. (HandlerInv /\ FreshInv /\ RelayInv /\ RowInv /\ SavedIsCurrent)'
      BY <1>16 DEF PollSucceeded, queue, columns, handler, store, HandlerInv,
         FreshInv, RelayInv, RowInv, SavedIsCurrent
  <2> QED  BY <2>1, <2>2, <2>3
<1>17. ASSUME NEW t \in Tabs, PollFails(t)
      PROVE  Inv'
  <2>1. TypeOK'
      BY <1>17 DEF PollFails, queue, columns, handler, store, Errs, TypeOK,
         Queue!TypeOK
  <2>2. TabInv'
      BY <1>17 DEF PollFails, queue, columns, handler, store, Errs, TabInv,
         TypeOK, Queue!TypeOK, Polling
  <2>3. (HandlerInv /\ FreshInv /\ RelayInv /\ RowInv /\ SavedIsCurrent)'
      BY <1>17 DEF PollFails, queue, columns, handler, store, Errs,
         HandlerInv, FreshInv, RelayInv, RowInv, SavedIsCurrent
  <2> QED  BY <2>1, <2>2, <2>3
<1>18. ASSUME NEW t \in Tabs, PollAgain(t)
      PROVE  Inv'
  <2>1. TypeOK'
      BY <1>18 DEF PollAgain, queue, columns, handler, store, TypeOK,
         Queue!TypeOK, Polling
  <2>2. TabInv'
      BY <1>18 DEF PollAgain, queue, columns, handler, store, TabInv, TypeOK,
         Queue!TypeOK, Polling
  <2>3. (HandlerInv /\ FreshInv /\ RelayInv /\ RowInv /\ SavedIsCurrent)'
      BY <1>18 DEF PollAgain, queue, columns, handler, store, HandlerInv,
         FreshInv, RelayInv, RowInv, SavedIsCurrent
  <2> QED  BY <2>1, <2>2, <2>3
<1>19. ASSUME NEW t \in Tabs, GiveUp(t)
      PROVE  Inv'
  <2>1. TypeOK'
      BY <1>19 DEF GiveUp, queue, columns, handler, store, Errs, TypeOK,
         Queue!TypeOK
  <2>2. TabInv'
      BY <1>19 DEF GiveUp, queue, columns, handler, store, Errs, TabInv,
         TypeOK, Queue!TypeOK
  <2>3. (HandlerInv /\ FreshInv /\ RelayInv /\ RowInv /\ SavedIsCurrent)'
      BY <1>19 DEF GiveUp, queue, columns, handler, store, Errs, HandlerInv,
         FreshInv, RelayInv, RowInv, SavedIsCurrent
  <2> QED  BY <2>1, <2>2, <2>3
<1>20. ASSUME NEW t \in Tabs, Save(t)
      PROVE  Inv'
  <2>1. TypeOK'
      BY <1>20 DEF Save, queue, columns, handler, store, TypeOK, Queue!TypeOK,
         Objects, Ciphertexts, Texts
  <2>2. TabInv'
      BY <1>20 DEF Save, queue, columns, handler, store, TabInv, TypeOK,
         Queue!TypeOK
  <2>3. SavedIsCurrent'
      BY <1>20 DEF Save, queue, columns, handler, store, SavedIsCurrent,
         TypeOK, Queue!TypeOK, RelayInv, FreshInv, RowInv, TabInv, HandlerInv,
         Texts
  <2>4. (HandlerInv /\ FreshInv /\ RelayInv /\ RowInv)'
      BY <1>20 DEF Save, queue, columns, handler, store, HandlerInv, FreshInv,
         RelayInv, RowInv
  <2> QED  BY <2>1, <2>2, <2>3, <2>4
<1>21. ASSUME NEW t \in Tabs, SaveFails(t)
      PROVE  Inv'
  <2>1. TypeOK'
      BY <1>21 DEF SaveFails, queue, columns, handler, store, Errs, TypeOK,
         Queue!TypeOK
  <2>2. TabInv'
      BY <1>21 DEF SaveFails, queue, columns, handler, store, Errs, TabInv,
         TypeOK, Queue!TypeOK
  <2>3. (HandlerInv /\ FreshInv /\ RelayInv /\ RowInv /\ SavedIsCurrent)'
      BY <1>21 DEF SaveFails, queue, columns, handler, store, Errs,
         HandlerInv, FreshInv, RelayInv, RowInv, SavedIsCurrent
  <2> QED  BY <2>1, <2>2, <2>3
<1>22. CASE UNCHANGED vars
    BY <1>22 DEF vars, queue, columns, handler, store, tabs, TypeOK,
       Queue!TypeOK, HandlerInv, FreshInv, RelayInv, RowInv, TabInv,
       SavedIsCurrent
<1> QED
    BY <1>1, <1>2, <1>3, <1>4, <1>5, <1>6, <1>7, <1>8, <1>9, <1>10, <1>11,
       <1>12,
       <1>13, <1>14, <1>15, <1>16, <1>17, <1>18, <1>19, <1>20, <1>21, <1>22
       DEF Next, HandlerStep, TabStep

(* The invariant, and with it TypeOK, holds in every reachable state. *)
THEOREM DownloadInvariance == Spec => []Inv
    BY InvInit, InvStep, PTL DEF Spec

(* A succeeded row names a blob that is there or was swept, its key opens   *)
(* that blob and no other, and it is the document the job was for.          *)
THEOREM RowsOpen == Spec => []RowOpensItsBlob
<1>1. Inv => RowOpensItsBlob
  <2> SUFFICES ASSUME Inv, NEW j \in Jobs, verdict[j] = "ok"
               PROVE  /\ row[j] # None
                      /\ \/ row[j].blob \in expired
                         \/ \E o \in relay : /\ o.blob = row[j].blob
                                             /\ o.text.key = row[j].key
                                             /\ o.text.doc = docOf[j]
                      /\ \A o \in relay : o.text.key = row[j].key => o.blob = row[j].blob
      BY DEF RowOpensItsBlob
  <2>1. /\ upload[j] = "landed"
        /\ row[j] = [blob |-> blobOf[j], key |-> sealed[j].key]
      BY DEF Inv, RowInv
  <2>2. sealed[j] # None /\ blobOf[j] # None /\ sealed[j].doc = docOf[j]
      BY <2>1 DEF Inv, HandlerInv
  <2>3. row[j] # None
      BY <2>1, <2>2 DEF Inv, TypeOK, Results, Ciphertexts
  <2>4. \/ row[j].blob \in expired
        \/ \E o \in relay : /\ o.blob = row[j].blob
                            /\ o.text.key = row[j].key
                            /\ o.text.doc = docOf[j]
    <3>1. CASE blobOf[j] \in expired
        BY <2>1, <3>1
    <3>2. CASE [blob |-> blobOf[j], text |-> sealed[j]] \in relay
        BY <2>1, <2>2, <3>2
    <3> QED  BY <2>1, <3>1, <3>2 DEF Inv, RelayInv
  <2>5. ASSUME NEW o \in relay, o.text.key = row[j].key
        PROVE  o.blob = row[j].blob
    <3>1. PICK i \in Jobs : upload[i] = "landed" /\ o.blob = blobOf[i] /\ o.text = sealed[i]
        BY DEF Inv, RelayInv
    <3>2. sealed[i] # None
        BY <3>1 DEF Inv, HandlerInv
    <3>3. i = j
        BY <2>1, <2>2, <2>5, <3>1, <3>2 DEF Inv, FreshInv
    <3> QED  BY <2>1, <3>1, <3>3
  <2> QED  BY <2>3, <2>4, <2>5
<1> HIDE DEF Inv, RowOpensItsBlob
<1> QED
    BY <1>1, DownloadInvariance, PTL

(* What a browser saves is the document clicked, no older than at the click. *)
THEOREM SavesCurrent == Spec => []SavedIsCurrent
<1>1. Inv => SavedIsCurrent
    BY DEF Inv
<1> HIDE DEF Inv, SavedIsCurrent
<1> QED
    BY <1>1, DownloadInvariance, PTL

-----------------------------------------------------------------------------

(* What a tab finds behind its job's blob key, opened by its job's key, is  *)
(* what its job's handler read: the document clicked, as it was between the *)
(* click and now.                                                           *)
LEMMA FetchedIsRead ==
    ASSUME Inv, NEW t \in Tabs, tab[t] = "fetching",
           NEW o \in relay, o.blob = got[t].blob, o.text.key = got[t].key
    PROVE  /\ o.text.doc = want[t]
           /\ o.text.ver \in since[t] .. version[want[t]]
<1> DEFINE j == job[t]
<1>1. /\ j \in Jobs /\ want[t] \in Docs /\ docOf[j] = want[t]
      /\ verdict[j] = "ok" /\ got[t] = row[j]
    BY DEF Inv, TypeOK, TabInv
<1>2. /\ upload[j] = "landed" /\ got[t] = [blob |-> blobOf[j], key |-> sealed[j].key]
    BY <1>1 DEF Inv, RowInv
<1>3. /\ sealed[j] \in Ciphertexts /\ sealed[j] # None
      /\ sealed[j].doc = want[t] /\ sealed[j].ver <= version[want[t]]
    BY <1>1, <1>2 DEF Inv, TypeOK, HandlerInv
<1>4. PICK i \in Jobs : upload[i] = "landed" /\ o.blob = blobOf[i] /\ o.text = sealed[i]
    BY DEF Inv, RelayInv
<1>5. i = j
    BY <1>1, <1>2, <1>3, <1>4 DEF Inv, HandlerInv, FreshInv
<1>6. sealed[j].ver >= since[t]
    BY <1>1, <1>3 DEF Inv, TabInv
<1>7. sealed[j].ver \in Nat /\ since[t] \in Nat /\ version[want[t]] \in Nat
    BY <1>1, <1>3 DEF Inv, TypeOK, Ciphertexts, Versions
<1> QED
    BY <1>3, <1>4, <1>5, <1>6, <1>7

(* A step that leaves the buttons' states, and all that a user sees of them, *)
(* alone is no step of the read.                                            *)
LEMMA Unread ==
    ASSUME UNCHANGED <<version, want, since, saved>>,
           \A t \in Tabs : (tab'[t] \in {"idle", "error"}) <=> (tab[t] \in {"idle", "error"})
    PROVE  UNCHANGED Read!vars
    BY DEF Read!vars

(* A tab that shows an error is a click that ended. *)
LEMMA ErrsEnds ==
    ASSUME Inv, NEW t \in Tabs, tab[t] \notin {"idle", "error"}, Errs(t), UNCHANGED version
    PROVE  Read!Err(t)
<1>1. [u \in Tabs |-> tab'[u] \notin {"idle", "error"}]
        = [[u \in Tabs |-> tab[u] \notin {"idle", "error"}] EXCEPT ![t] = FALSE]
    BY DEF Errs, Inv, TypeOK
<1> QED
    BY <1>1 DEF Errs, Read!Err, Read!Ends

LEMMA ReadStep == Inv /\ [Next]_vars => [Read!Next]_(Read!vars)
<1> SUFFICES ASSUME Inv, [Next]_vars
             PROVE  [Read!Next]_(Read!vars)
    OBVIOUS
<1>1. ASSUME NEW d \in Docs, Edit(d)
      PROVE  Read!Next
  <2>1. Read!Edit(d)
      BY <1>1 DEF Edit, tabs, Read!Edit
  <2> QED  BY <2>1 DEF Read!Next
<1>2. ASSUME UNCHANGED <<version, tabs>>
      PROVE  UNCHANGED Read!vars
    BY <1>2 DEF tabs, Read!vars
<1>3. ASSUME NEW j \in Jobs,
             Lease(j) \/ HandlerStep(j) \/ PutLands(j) \/ PutLost(j) \/ Report(j)
      PROVE  UNCHANGED Read!vars
    BY <1>2, <1>3 DEF Lease, HandlerStep, Seal, RequestPut, SendPut, Succeed, Fail,
       PutLands, PutLost, Report
<1>4. ASSUME NEW gone \in SUBSET BlobKeys, Expire(gone)
      PROVE  UNCHANGED Read!vars
    BY <1>2, <1>4 DEF Expire
<1>5. ASSUME NEW t \in Tabs, NEW d \in Docs, Click(t, d)
      PROVE  Read!Next
  <2>1. [u \in Tabs |-> tab'[u] \notin {"idle", "error"}]
          = [[u \in Tabs |-> tab[u] \notin {"idle", "error"}] EXCEPT ![t] = TRUE]
      BY <1>5 DEF Click, Inv, TypeOK
  <2>2. Read!Click(t, d)
      BY <1>5, <2>1 DEF Click, Read!Click
  <2> QED  BY <2>2 DEF Read!Next
<1>6. ASSUME NEW t \in Tabs, NEW j \in Jobs, Stage(t, j)
      PROVE  UNCHANGED Read!vars
    BY <1>6, Unread DEF Stage, Inv, TypeOK
<1>7. ASSUME NEW t \in Tabs, PollSucceeded(t)
      PROVE  UNCHANGED Read!vars
    BY <1>7, Unread DEF PollSucceeded, Polling, Inv, TypeOK
<1>8. ASSUME NEW t \in Tabs, PollAgain(t)
      PROVE  UNCHANGED Read!vars
    BY <1>8, Unread DEF PollAgain
<1>9. ASSUME NEW t \in Tabs,
             \/ \E j \in Jobs : StageUnheard(t, j)
             \/ StageFails(t) \/ PollFails(t) \/ GiveUp(t) \/ SaveFails(t)
      PROVE  Read!Next
  <2>1. Read!Err(t)
      BY <1>9, ErrsEnds DEF StageUnheard, StageFails, PollFails, Polling, GiveUp, SaveFails
  <2> QED  BY <2>1 DEF Read!Next
<1>10. ASSUME NEW t \in Tabs, Save(t)
       PROVE  Read!Next
  <2>1. PICK o \in relay :
            /\ o.blob = got[t].blob
            /\ o.text.key = got[t].key
            /\ saved' = [saved EXCEPT ![t] = [doc |-> o.text.doc, ver |-> o.text.ver]]
      BY <1>10 DEF Save
  <2>2. o.text.doc = want[t] /\ o.text.ver \in since[t] .. version[want[t]]
      BY <1>10, <2>1, FetchedIsRead DEF Save
  <2>3. [u \in Tabs |-> tab'[u] \notin {"idle", "error"}]
          = [[u \in Tabs |-> tab[u] \notin {"idle", "error"}] EXCEPT ![t] = FALSE]
      BY <1>10 DEF Save, Inv, TypeOK
  <2>4. Read!Save(t)
      BY <1>10, <2>1, <2>2, <2>3 DEF Save, Read!Save, Read!Ends
  <2> QED  BY <2>4 DEF Read!Next
<1>11. CASE UNCHANGED vars
    BY <1>2, <1>11 DEF vars
<1> QED
    BY <1>1, <1>3, <1>4, <1>5, <1>6, <1>7, <1>8, <1>9, <1>10, <1>11 DEF Next, TabStep

(* However jobs, uploads, edits and sweeps interleave, a click reads the    *)
(* document as it was at one moment between the click and the save, or ends *)
(* with an error.                                                           *)
THEOREM Reads == Spec => ImplementsRead
<1>1. Init => Read!Init
  <2> SUFFICES ASSUME Init
               PROVE  Read!Init
      OBVIOUS
  <2>1. \A t \in Tabs : (tab[t] \notin {"idle", "error"}) = FALSE
      BY DEF Init
  <2>2. [t \in Tabs |-> tab[t] \notin {"idle", "error"}] = [t \in Tabs |-> FALSE]
      BY <2>1, Zenon
  <2> QED  BY <2>2 DEF Init, Read!Init
<1>2. Inv /\ [Next]_vars => [Read!Next]_(Read!vars)
    BY ReadStep
<1> QED
    BY <1>1, <1>2, DownloadInvariance, PTL DEF Spec, ImplementsRead, Read!Spec
=============================================================================
