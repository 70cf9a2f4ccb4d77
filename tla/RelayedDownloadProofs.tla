------------------------ MODULE RelayedDownloadProofs ------------------------
(***************************************************************************)
(* Proofs about RelayedDownload, for every number of jobs, documents and     *)
(* tabs and every choice of the lifetimes with TTL <= PresignTTL.  A step is *)
(* a step or a stutter of StageDownload, and so what is proved there holds   *)
(* on the clock as well; it is one of Relay, whose promise that what was     *)
(* stored less than TTL ago is still there meets the tabs' clocks in         *)
(* SinceClick: a tab's blob was stored after the click.                      *)
(***************************************************************************)
EXTENDS RelayedDownload, StageDownloadProofs

USE ClockAssumption, LifetimesAssumption

(* A step on the clock is a step of the download or leaves it alone. *)
LEMMA DownloadStep == Inv /\ [TimedNext]_timedVars => [Next]_vars
<1> SUFFICES ASSUME Inv, [TimedNext]_timedVars
             PROVE  [Next]_vars
    OBVIOUS
<1>1. CASE \E d \in Docs : Edit(d) /\ Untimed
    BY <1>1 DEF Next
<1>2. ASSUME NEW j \in Jobs,
             \/ TimedHandlerStep(j)
             \/ Upload(j)
             \/ (Lease(j) \/ PutLost(j) \/ Report(j)) /\ Untimed
      PROVE  Next
    BY <1>2 DEF TimedHandlerStep, SignPut, Upload, Next, HandlerStep
<1>3. CASE Sweep
  <2>1. CASE Expire(Store!Expired)
    <3>1. Store!Expired \in SUBSET BlobKeys
        BY <2>1 DEF Expire, Inv, TypeOK, Objects
    <3> QED  BY <2>1, <3>1 DEF Next
  <2> QED  BY <1>3, <2>1 DEF Sweep
<1>4. CASE CleanupFails \/ CleanupRestarts \/ Tick
    BY <1>4 DEF CleanupFails, CleanupRestarts, Tick
<1>5. ASSUME NEW t \in Tabs, TimedTabStep(t) \/ \E d \in Docs : TimedClick(t, d)
      PROVE  Next
    BY <1>5 DEF TimedTabStep, TimedClick, SignGet, Fetch, Next, TabStep
<1>6. CASE UNCHANGED timedVars
    BY <1>6 DEF timedVars
<1> QED
    BY <1>1, <1>2, <1>3, <1>4, <1>5, <1>6 DEF TimedNext

(* RelayedDownload implements StageDownload. *)
THEOREM ImplementsStageDownload == TimedSpec => Spec
<1>1. TimedInit => Init
    BY DEF TimedInit
<1>2. Inv /\ [TimedNext]_timedVars => [Next]_vars /\ Inv'
    BY DownloadStep, InvStep
<1>3. TimedInit => Inv
    BY <1>1, InvInit
<1> QED
    BY <1>1, <1>2, <1>3, PTL DEF TimedSpec, Spec

(* So on the clock, with URLs that expire and sweeps that take what is old, *)
(* a click still reads its document or ends with an error.                  *)
THEOREM ReadsOnTheClock == TimedSpec => ImplementsRead
    BY ImplementsStageDownload, Reads

(* A row's key still opens its row's blob and no other.                     *)
THEOREM RowsOpenOnTheClock == TimedSpec => []RowOpensItsBlob
    BY ImplementsStageDownload, RowsOpen

-----------------------------------------------------------------------------

(* Every step of the download but the two that Relay knows leaves Relay's   *)
(* URLs and objects as they are.                                            *)
LEMMA StoreUnmoved ==
    ASSUME Inv,
           UNCHANGED blobOf, UNCHANGED relay,
           \A j \in Jobs : upload'[j] = "landed" <=> upload[j] = "landed"
    PROVE  UNCHANGED <<[b \in BlobKeys |-> urlOf(b)], {o.blob : o \in relay}>>
    BY DEF urlOf

LEMMA StoreStep == Inv /\ [TimedNext]_timedVars => [Store!Next]_(Store!vars)
<1> SUFFICES ASSUME Inv, [TimedNext]_timedVars
             PROVE  [Store!Next]_(Store!vars)
    OBVIOUS
<1>0. ASSUME Untimed,
             UNCHANGED blobOf, UNCHANGED relay,
             \A j \in Jobs : upload'[j] = "landed" <=> upload[j] = "landed"
      PROVE  UNCHANGED Store!vars
    BY <1>0, StoreUnmoved DEF Untimed, clock, Store!vars
<1>1. ASSUME NEW d \in Docs, Edit(d), Untimed
      PROVE  UNCHANGED Store!vars
    BY <1>0, <1>1 DEF Edit, handler, store
<1>2. ASSUME NEW j \in Jobs, SignPut(j)
      PROVE  Store!Next
  <2>1. blobOf'[j] \in BlobKeys
      BY <1>2 DEF SignPut, RequestPut, NewBlobKeys, Inv, TypeOK
  <2> QED  BY <1>2, <2>1 DEF SignPut, Store!Next
<1>3. ASSUME NEW j \in Jobs, Upload(j)
      PROVE  Store!Next
  <2>1. blobOf[j] \in BlobKeys
      BY <1>3 DEF Upload, PutLands, Inv, TypeOK, HandlerInv
  <2> QED  BY <1>3, <2>1 DEF Upload, Store!Next, Store!Put
<1>4. ASSUME NEW j \in Jobs, Seal(j) \/ Succeed(j) \/ Fail(j), Untimed
      PROVE  UNCHANGED Store!vars
    BY <1>0, <1>4 DEF Seal, Succeed, Fail, store
<1>5. ASSUME NEW j \in Jobs, SendPut(j), Untimed
      PROVE  UNCHANGED Store!vars
  <2>1. upload[j] = "none"
      BY <1>5 DEF SendPut, Running, Inv, HandlerInv
  <2> QED  BY <1>0, <1>5, <2>1 DEF SendPut, Inv, TypeOK
<1>6. ASSUME NEW j \in Jobs, Lease(j) \/ Report(j), Untimed
      PROVE  UNCHANGED Store!vars
    BY <1>0, <1>6 DEF Lease, Report, handler, store
<1>7. ASSUME NEW j \in Jobs, PutLost(j), Untimed
      PROVE  UNCHANGED Store!vars
    BY <1>0, <1>7 DEF PutLost, handler, Inv, TypeOK
<1>8. CASE Sweep \/ CleanupFails \/ CleanupRestarts \/ Tick
    BY <1>8 DEF Sweep, CleanupFails, CleanupRestarts, Tick, Store!Next
<1>9. ASSUME NEW t \in Tabs, TimedTabStep(t) \/ \E d \in Docs : TimedClick(t, d)
      PROVE  UNCHANGED Store!vars
  <2>1. UNCHANGED <<handler, store, clock>>
      BY <1>9 DEF TimedTabStep, TimedClick, SignGet, Fetch, Untimed, Stage,
         StageUnheard, StageFails, PollSucceeded, PollFails, PollAgain, GiveUp,
         Save, SaveFails, Click
  <2> QED  BY <2>1, StoreUnmoved DEF handler, store, clock, Store!vars
<1>10. CASE UNCHANGED timedVars
    BY <1>10, StoreUnmoved DEF timedVars, vars, handler, store, clock, Store!vars
<1> QED
    BY <1>1, <1>2, <1>3, <1>4, <1>5, <1>6, <1>7, <1>8, <1>9, <1>10
       DEF TimedNext, TimedHandlerStep

(* RelayedDownload implements Relay. *)
THEOREM ImplementsRelay == TimedSpec => Store!Spec
<1>1. TimedInit => Store!Init /\ Inv
    BY InvInit DEF TimedInit
<1>2. Inv /\ [TimedNext]_timedVars => [Store!Next]_(Store!vars) /\ Inv'
    BY DownloadStep, InvStep, StoreStep
<1> QED
    BY <1>1, <1>2, PTL DEF TimedSpec, Store!Spec

-----------------------------------------------------------------------------

(* The theorems about Relay, for this relay. *)
StoreProofs == INSTANCE RelayProofs WITH
    url <- [b \in BlobKeys |-> urlOf(b)],
    objects <- {o.blob : o \in relay}

LEMMA StoreAssumptions ==
    /\ StoreProofs!TimesAssumption
    /\ StoreProofs!MaxMissedAssumption
    /\ StoreProofs!MaxAgeAssumption
    BY DEF StoreProofs!TimesAssumption, StoreProofs!MaxMissedAssumption,
           StoreProofs!MaxAgeAssumption

LEMMA StoreInit == Store!Init => Store!AgeInv
    BY StoreAssumptions, StoreProofs!AgeInit
       DEF Store!Init, StoreProofs!Init, Store!AgeInv, StoreProofs!AgeInv,
           Store!TypeOK, StoreProofs!TypeOK, Store!ReadableForTTL,
           StoreProofs!ReadableForTTL

LEMMA StoreAges == Store!AgeInv /\ [Store!Next]_(Store!vars) => Store!AgeInv'
    BY StoreAssumptions, StoreProofs!AgeStep
       DEF Store!AgeInv, StoreProofs!AgeInv, Store!TypeOK, StoreProofs!TypeOK,
           Store!ReadableForTTL, StoreProofs!ReadableForTTL,
           Store!vars, StoreProofs!vars, Store!Next, StoreProofs!Next,
           Store!PresignPut, StoreProofs!PresignPut, Store!Put, StoreProofs!Put,
           Store!Sweep, StoreProofs!Sweep, Store!Expired, StoreProofs!Expired,
           Store!SweepFails, StoreProofs!SweepFails,
           Store!Restart, StoreProofs!Restart,
           Store!Tick, StoreProofs!Tick, Store!Older, StoreProofs!Older

-----------------------------------------------------------------------------

(* Getting older keeps ages in range and in order. *)
LEMMA OlderInOrder ==
    ASSUME NEW a \in 0 .. MaxAge, NEW b \in 0 .. MaxAge, a <= b
    PROVE  Store!Older(a) \in 0 .. MaxAge /\ Store!Older(a) <= Store!Older(b)
    BY DEF Store!Older

(* What a tab asks for is a job, whose stored blob has a key. *)
LEMMA TabsJob ==
    ASSUME Inv, NEW t \in Tabs, tab[t] \in {"polling", "fetching"}
    PROVE  /\ job[t] \in Jobs
           /\ upload[job[t]] = "landed" => blobOf[job[t]] \in BlobKeys
    BY DEF Inv, TypeOK, TabInv, HandlerInv

LEMMA WatchStep == TimedInv /\ [TimedNext]_timedVars => WatchTypeOK'
<1> SUFFICES ASSUME TimedInv, [TimedNext]_timedVars
             PROVE  WatchTypeOK'
    OBVIOUS
<1> USE DEF TimedInv, WatchTypeOK
<1>1. CASE Tick
    BY <1>1, OlderInOrder DEF Tick
<1>2. ASSUME NEW t \in Tabs, TimedTabStep(t) \/ \E d \in Docs : TimedClick(t, d)
      PROVE  WatchTypeOK'
    BY <1>2 DEF TimedTabStep, SignGet, Fetch, TimedClick, Untimed, watch
<1>3. CASE UNCHANGED watch
    BY <1>3 DEF watch
<1> QED
    BY <1>1, <1>2, <1>3 DEF TimedNext, timedVars, Untimed, TimedHandlerStep, SignPut,
       Upload, Sweep, CleanupFails, CleanupRestarts

(* A tab's clock never falls behind the age of what it waits for. *)
LEMMA SinceClickStep == TimedInv /\ [TimedNext]_timedVars => SinceClick'
<1> SUFFICES ASSUME TimedInv, [TimedNext]_timedVars
             PROVE  SinceClick'
    OBVIOUS
<1> USE DEF TimedInv
<1>0. ASSUME UNCHANGED <<tabs, age, watch>>,
             \A j \in Jobs : upload'[j] = "landed" =>
                upload[j] = "landed" /\ blobOf'[j] = blobOf[j]
      PROVE  SinceClick'
    BY <1>0, TabsJob DEF SinceClick, tabs, watch
<1>1. ASSUME NEW d \in Docs, Edit(d), Untimed
      PROVE  SinceClick'
    BY <1>0, <1>1 DEF Edit, handler, store, Untimed, clock
<1>2. ASSUME NEW j \in Jobs, SignPut(j)
      PROVE  SinceClick'
  <2>1. upload[j] = "none"
      BY <1>2 DEF SignPut, RequestPut, Running, Inv, HandlerInv
  <2>2. UNCHANGED <<tabs, age, watch, upload>>
      BY <1>2 DEF SignPut, RequestPut, store, Store!PresignPut
  <2>3. \A i \in Jobs : i # j => blobOf'[i] = blobOf[i]
      BY <1>2 DEF SignPut, RequestPut, Inv, TypeOK
  <2> QED  BY <1>0, <2>1, <2>2, <2>3
<1>3. ASSUME NEW j \in Jobs, Upload(j)
      PROVE  SinceClick'
  <2>1. /\ upload[j] = "sent" /\ upload' = [upload EXCEPT ![j] = "landed"]
        /\ age' = [age EXCEPT ![blobOf[j]] = 0]
        /\ UNCHANGED <<tabs, handler, watch>>
      BY <1>3 DEF Upload, PutLands, Store!Put
  <2>2. blobOf[j] \in BlobKeys
      BY <2>1 DEF Inv, TypeOK, HandlerInv
  <2>3. ASSUME NEW t \in Tabs, tab[t] \in {"polling", "fetching"},
               upload'[job[t]] = "landed"
        PROVE  age'[blobOf[job[t]]] <= waited[t]
    <3>1. CASE job[t] = j
      <4>1. age'[blobOf[j]] = 0
          BY <2>1, <2>2 DEF Store!AgeInv, Store!TypeOK
      <4>2. waited[t] \in 0 .. MaxAge
          BY DEF WatchTypeOK
      <4> QED  BY <3>1, <4>1, <4>2
    <3>2. CASE job[t] # j
      <4>1. job[t] \in Jobs /\ upload[job[t]] = "landed"
          BY <2>1, <2>3, <3>2, TabsJob DEF Inv, TypeOK
      <4>2. blobOf[job[t]] \in BlobKeys /\ blobOf[job[t]] # blobOf[j]
          BY <2>2, <2>3, <3>2, <4>1, TabsJob, NoneAssumption DEF Inv, FreshInv
      <4>3. age'[blobOf[job[t]]] = age[blobOf[job[t]]]
          BY <2>1, <4>2 DEF Store!AgeInv, Store!TypeOK
      <4> QED  BY <2>3, <4>1, <4>3 DEF SinceClick
    <3> QED  BY <3>1, <3>2
  <2> QED  BY <2>1, <2>3 DEF SinceClick, tabs, handler, watch
<1>4. ASSUME NEW j \in Jobs, Seal(j) \/ Succeed(j) \/ Fail(j) \/ Lease(j) \/ Report(j),
             Untimed
      PROVE  SinceClick'
    BY <1>0, <1>4 DEF Seal, Succeed, Fail, Lease, Report, handler, store, Untimed, clock
<1>5. ASSUME NEW j \in Jobs, SendPut(j) \/ PutLost(j), Untimed
      PROVE  SinceClick'
    BY <1>0, <1>5 DEF SendPut, PutLost, handler, Inv, TypeOK, Untimed, clock
<1>6. CASE Sweep \/ CleanupFails \/ CleanupRestarts
  <2>1. UNCHANGED <<tabs, age, watch, upload, handler>>
      BY <1>6 DEF Sweep, CleanupFails, CleanupRestarts, Expire, vars, store,
         Store!Sweep, Store!SweepFails, Store!Restart
  <2> QED  BY <1>0, <2>1 DEF handler
<1>7. CASE Tick
  <2>1. UNCHANGED <<tabs, upload, blobOf>>
      BY <1>7 DEF Tick, vars, store, handler
  <2>2. ASSUME NEW t \in Tabs, tab[t] \in {"polling", "fetching"},
               upload[job[t]] = "landed"
        PROVE  age'[blobOf[job[t]]] <= waited'[t]
    <3>1. job[t] \in Jobs /\ blobOf[job[t]] \in BlobKeys
        BY <2>2, TabsJob
    <3>2. age'[blobOf[job[t]]] = Store!Older(age[blobOf[job[t]]])
        BY <1>7, <2>2, <3>1 DEF Tick, Store!Tick, urlOf
    <3>3. waited'[t] = Store!Older(waited[t])
        BY <1>7, <2>2 DEF Tick
    <3>4. /\ age[blobOf[job[t]]] \in 0 .. MaxAge /\ waited[t] \in 0 .. MaxAge
          /\ age[blobOf[job[t]]] <= waited[t]
        BY <2>2, <3>1 DEF Store!AgeInv, Store!TypeOK, WatchTypeOK, SinceClick
    <3> QED  BY <3>2, <3>3, <3>4, OlderInOrder
  <2>3. ASSUME NEW t \in Tabs, tab[t] = "fetching"
        PROVE  linkAge'[t] <= waited'[t]
    <3>1. /\ linkAge'[t] = Store!Older(linkAge[t])
          /\ waited'[t] = Store!Older(waited[t])
        BY <1>7, <2>3 DEF Tick
    <3>2. /\ linkAge[t] \in 0 .. MaxAge /\ waited[t] \in 0 .. MaxAge
          /\ linkAge[t] <= waited[t]
        BY <2>3 DEF WatchTypeOK, SinceClick
    <3> QED  BY <3>1, <3>2, OlderInOrder
  <2> QED  BY <2>1, <2>2, <2>3 DEF SinceClick, tabs
<1>8. ASSUME NEW t \in Tabs, SignGet(t)
      PROVE  SinceClick'
  <2>1. waited[t] \in 0 .. MaxAge /\ linkAge \in [Tabs -> 0 .. MaxAge]
      BY DEF WatchTypeOK
  <2> QED  BY <1>8, <2>1 DEF SignGet, PollSucceeded, Polling, SinceClick, handler, store,
           clock, Inv, TypeOK
<1>9. ASSUME NEW t \in Tabs, NEW j \in Jobs, Stage(t, j), Untimed
      PROVE  SinceClick'
  <2>1. upload[j] = "none"
      BY <1>9 DEF Stage, Queue!Submit, Inv, HandlerInv
  <2> QED  BY <1>9, <2>1 DEF Stage, Untimed, clock, watch, handler, store, SinceClick, Inv,
           TypeOK
<1>10. ASSUME NEW t \in Tabs,
              \/ \E j \in Jobs : StageUnheard(t, j)
              \/ StageFails(t) \/ PollFails(t) \/ PollAgain(t) \/ GiveUp(t) \/ SaveFails(t),
              Untimed
       PROVE  SinceClick'
    BY <1>10 DEF StageUnheard, StageFails, PollFails, PollAgain, GiveUp, SaveFails,
       Errs, Untimed, clock, watch, handler, store, SinceClick, Inv, TypeOK
<1>11. ASSUME NEW t \in Tabs, Fetch(t)
       PROVE  SinceClick'
    BY <1>11 DEF Fetch, Save, clock, watch, handler, store, SinceClick, Inv, TypeOK
<1>12. ASSUME NEW t \in Tabs, NEW d \in Docs, TimedClick(t, d)
       PROVE  SinceClick'
    BY <1>12 DEF TimedClick, Click, clock, handler, store, SinceClick, Inv, TypeOK,
       WatchTypeOK
<1>13. CASE UNCHANGED timedVars
    BY <1>0, <1>13 DEF timedVars, vars, clock, handler, store
<1> QED
    BY <1>1, <1>2, <1>3, <1>4, <1>5, <1>6, <1>7, <1>8, <1>9, <1>10, <1>11, <1>12, <1>13
       DEF TimedNext, TimedHandlerStep, TimedTabStep

(* TimedInv holds in every reachable state. *)
THEOREM TimedInvariance == TimedSpec => []TimedInv
<1>1. TimedInit => TimedInv
  <2>1. TimedInit => WatchTypeOK /\ SinceClick
      BY DEF TimedInit, Init, WatchTypeOK, SinceClick
  <2> QED  BY <2>1, InvInit, StoreInit DEF TimedInit, TimedInv
<1>2. TimedInv /\ [TimedNext]_timedVars => TimedInv'
    BY DownloadStep, InvStep, StoreStep, StoreAges, WatchStep, SinceClickStep DEF TimedInv
<1> QED
    BY <1>1, <1>2, PTL DEF TimedSpec

(* A document staged for a browser leaves the relay within the two          *)
(* lifetimes and the overstay of its URL's signature, whatever has become of *)
(* its job, its tab and the connector.                                      *)
THEOREM StagedLeaves == TimedSpec => []Store!ResidencyIsBounded
<1>1. Store!AgeInv => Store!ResidencyIsBounded
    BY StoreAssumptions, StoreProofs!AgesBoundStay
       DEF Store!AgeInv, StoreProofs!AgeInv, Store!TypeOK, StoreProofs!TypeOK,
           Store!ReadableForTTL, StoreProofs!ReadableForTTL,
           Store!ResidencyIsBounded, StoreProofs!ResidencyIsBounded
<1>2. TimedInv => Store!ResidencyIsBounded
    BY <1>1 DEF TimedInv
<1> QED
    BY <1>2, TimedInvariance, PTL

(* A tab that fetches within TTL of its click finds its document, opened by *)
(* its key, behind a URL that is still valid.                               *)
THEOREM PromptFetches == TimedSpec => []PromptFetchSucceeds
<1>1. ASSUME TimedInv, NEW t \in Tabs, tab[t] = "fetching", waited[t] < TTL
      PROVE  /\ linkAge[t] < PresignTTL
             /\ \E o \in relay :
                    /\ o.blob = got[t].blob
                    /\ o.text.key = got[t].key
                    /\ o.text.doc = want[t]
  <2> DEFINE j == job[t]
  <2>1. /\ j \in Jobs /\ verdict[j] = "ok" /\ got[t] = row[j] /\ docOf[j] = want[t]
      BY <1>1, TabsJob DEF TimedInv, Inv, TabInv
  <2>2. /\ upload[j] = "landed" /\ got[t] = [blob |-> blobOf[j], key |-> sealed[j].key]
        /\ sealed[j] # None /\ sealed[j].doc = docOf[j] /\ blobOf[j] \in BlobKeys
      BY <2>1, <1>1, TabsJob DEF TimedInv, Inv, RowInv, HandlerInv
  <2>3. /\ age[blobOf[j]] \in 0 .. MaxAge /\ age[blobOf[j]] <= waited[t]
        /\ waited[t] \in 0 .. MaxAge
        /\ linkAge[t] \in 0 .. MaxAge /\ linkAge[t] <= waited[t]
      BY <1>1, <2>1, <2>2 DEF TimedInv, SinceClick, WatchTypeOK, Store!AgeInv, Store!TypeOK
  <2>4. urlOf(blobOf[j]) = "used"
      BY <2>1, <2>2 DEF urlOf
  <2>5. blobOf[j] \in {o.blob : o \in relay}
      BY <1>1, <2>2, <2>3, <2>4 DEF TimedInv, Store!AgeInv, Store!ReadableForTTL
  <2>6. PICK o \in relay : o.blob = blobOf[j]
      BY <2>5
  <2>7. o.text = sealed[j]
    <3>1. PICK i \in Jobs : o.blob = blobOf[i] /\ o.text = sealed[i]
        BY <1>1, <2>6 DEF TimedInv, Inv, RelayInv
    <3>2. i = j
        BY <1>1, <2>1, <2>2, <2>6, <3>1, NoneAssumption DEF TimedInv, Inv, FreshInv
    <3> QED  BY <3>1, <3>2
  <2> QED  BY <1>1, <2>1, <2>2, <2>3, <2>6, <2>7
<1>2. TimedInv => PromptFetchSucceeds
    BY <1>1 DEF PromptFetchSucceeds
<1> QED
    BY <1>2, TimedInvariance, PTL
=============================================================================
