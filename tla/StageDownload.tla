---------------------------- MODULE StageDownload ----------------------------
(***************************************************************************)
(* A document's way from the file server into a browser: the download       *)
(* button of a browser tab (DownloadButton.tsx), the stage, put-url and     *)
(* jobs routes, the connector's handleStageDownload, the relay, and the     *)
(* people who edit the document in Explorer meanwhile.                      *)
(*                                                                         *)
(* The jobs travel through the queue of module JobQueue, which JobDelivery  *)
(* is shown to implement; what a blob's expiry depends on is in module      *)
(* Relay.  A connector that dies leaves its job where it is, so it is a     *)
(* handler that takes no further step.                                      *)
(***************************************************************************)
EXTENDS Naturals

CONSTANTS
    Jobs,           \* stage_download jobs the portal may insert (bound)
    Docs,           \* documents
    Tabs,           \* download buttons, each in a tab of its own
    BlobKeys,       \* what newBlobKey() may return (bound)
    ContentKeys,    \* what NewContentKey() may return (bound)
    MaxPolls,       \* MAX_POLLS of the button
    MaxVersion,     \* how often a document is edited (bound)
    None            \* no job, no blob, no document, nothing saved

ASSUME BoundsAssumption == MaxPolls \in Nat /\ MaxVersion \in Nat

VARIABLES
    (* the queue, as in JobQueue *)
    phase, outcome, verdict,
    (* the rows' payload and result columns *)
    docOf,      \* payload.documentId
    row,        \* result.blobKey and result.contentKeyB64
    (* the file server *)
    version,    \* what the document's file holds now
    (* a job's handleStageDownload *)
    step,       \* where it is
    sealed,     \* the ciphertext: document and version read, content key
    blobOf,     \* the blob key put-url answered with
    upload,     \* its PUT: "none", "sent", "landed" or "lost"
    (* the relay *)
    relay,      \* objects in the bucket
    expired,    \* blob keys whose object was swept
    (* the browser tabs *)
    tab,        \* state of the button, and where handleClick is
    want,       \* documentId
    since,      \* history: version of that document at the click
    job,        \* stageBody.jobId
    polls,      \* attempt
    got,        \* result
    saved       \* history: what the last click put on the user's disk

queue   == <<phase, outcome, verdict>>
columns == <<docOf, row>>
handler == <<step, sealed, blobOf>>
store   == <<upload, relay, expired>>
tabs    == <<tab, want, since, job, polls, got, saved>>
vars    == <<queue, columns, version, handler, store, tabs>>

Queue == INSTANCE JobQueue

Versions    == 0 .. MaxVersion
Texts       == [doc : Docs, ver : Versions]
Ciphertexts == [key : ContentKeys, doc : Docs, ver : Versions]
Objects     == [blob : BlobKeys, text : Ciphertexts]
Results     == [blob : BlobKeys, key : ContentKeys]

ASSUME NoneAssumption ==
    None \notin Jobs \union Docs \union BlobKeys \union Ciphertexts \union Results
                    \union Texts

TypeOK ==
    /\ Queue!TypeOK
    /\ docOf \in [Jobs -> Docs \union {None}]
    /\ row \in [Jobs -> Results \union {None}]
    /\ version \in [Docs -> Versions]
    /\ step \in [Jobs -> {"start", "sealed", "addressed", "putting", "done"}]
    /\ sealed \in [Jobs -> Ciphertexts \union {None}]
    /\ blobOf \in [Jobs -> BlobKeys \union {None}]
    /\ upload \in [Jobs -> {"none", "sent", "landed", "lost"}]
    /\ relay \subseteq Objects
    /\ expired \subseteq BlobKeys
    /\ tab \in [Tabs -> {"idle", "staging", "polling", "fetching", "error"}]
    /\ want \in [Tabs -> Docs \union {None}]
    /\ since \in [Tabs -> Versions]
    /\ job \in [Tabs -> Jobs \union {None}]
    /\ polls \in [Tabs -> 0 .. MaxPolls]
    /\ got \in [Tabs -> Results \union {None}]
    /\ saved \in [Tabs -> Texts \union {None}]

Init ==
    /\ Queue!Init
    /\ docOf = [j \in Jobs |-> None]
    /\ row = [j \in Jobs |-> None]
    /\ version = [d \in Docs |-> 0]
    /\ step = [j \in Jobs |-> "start"]
    /\ sealed = [j \in Jobs |-> None]
    /\ blobOf = [j \in Jobs |-> None]
    /\ upload = [j \in Jobs |-> "none"]
    /\ relay = {}
    /\ expired = {}
    /\ tab = [t \in Tabs |-> "idle"]
    /\ want = [t \in Tabs |-> None]
    /\ since = [t \in Tabs |-> 0]
    /\ job = [t \in Tabs |-> None]
    /\ polls = [t \in Tabs |-> 0]
    /\ got = [t \in Tabs |-> None]
    /\ saved = [t \in Tabs |-> None]

-----------------------------------------------------------------------------
(* The file server: somebody saves a new version of a document, which Word  *)
(* and Explorer do by renaming a complete file into place.                  *)

Edit(d) ==
    /\ version[d] < MaxVersion
    /\ version' = [version EXCEPT ![d] = @ + 1]
    /\ UNCHANGED <<queue, columns, handler, store, tabs>>

-----------------------------------------------------------------------------
(* The connector: dispatch() hands a taken job to handleStageDownload.      *)

Lease(j) ==
    /\ Queue!Take(j)
    /\ UNCHANGED <<columns, version, handler, store, tabs>>

Running(j, s) == phase[j] = "taken" /\ outcome[j] = "none" /\ step[j] = s

FreshContentKeys == ContentKeys \ {sealed[i].key : i \in {k \in Jobs : sealed[k] # None}}

(* readFile, NewContentKey, Encrypt. *)
Seal(j) ==
    /\ Running(j, "start")
    /\ \E k \in FreshContentKeys :
        sealed' = [sealed EXCEPT ![j] =
            [key |-> k, doc |-> docOf[j], ver |-> version[docOf[j]]]]
    /\ step' = [step EXCEPT ![j] = "sealed"]
    /\ UNCHANGED <<queue, columns, version, blobOf, store, tabs>>

(* newBlobKey(): a fresh UUID, whoever asks. *)
NewBlobKeys == BlobKeys \ {blobOf[i] : i \in Jobs}

(* requestPresignedPut: the route answers with a URL and the key it is for. *)
RequestPut(j) ==
    /\ Running(j, "sealed")
    /\ \E b \in NewBlobKeys : blobOf' = [blobOf EXCEPT ![j] = b]
    /\ step' = [step EXCEPT ![j] = "addressed"]
    /\ UNCHANGED <<queue, columns, version, sealed, store, tabs>>

SendPut(j) ==
    /\ Running(j, "addressed")
    /\ step' = [step EXCEPT ![j] = "putting"]
    /\ upload' = [upload EXCEPT ![j] = "sent"]
    /\ UNCHANGED <<queue, columns, version, sealed, blobOf, relay, expired, tabs>>

(* The PUT reaches the relay, whether or not the connector still waits.     *)
PutLands(j) ==
    /\ upload[j] = "sent"
    /\ upload' = [upload EXCEPT ![j] = "landed"]
    /\ relay' = {o \in relay : o.blob # blobOf[j]}
                    \union {[blob |-> blobOf[j], text |-> sealed[j]]}
    /\ UNCHANGED <<queue, columns, version, handler, expired, tabs>>

(* It is lost, or refused because its URL has expired. *)
PutLost(j) ==
    /\ upload[j] = "sent"
    /\ upload' = [upload EXCEPT ![j] = "lost"]
    /\ UNCHANGED <<queue, columns, version, handler, relay, expired, tabs>>

(* Mutant: relay.Put does not look at the answer. *)
SucceedUnanswered(j) ==
    /\ Running(j, "putting")
    /\ Queue!Run(j)
    /\ outcome'[j] = "ok"
    /\ step' = [step EXCEPT ![j] = "done"]
    /\ UNCHANGED <<columns, version, sealed, blobOf, store, tabs>>

(* The PUT was answered with 2xx: Result{Ok: true, BlobKey, ContentKeyB64}. *)
Succeed(j) ==
    /\ Running(j, "putting")
    /\ upload[j] = "landed"
    /\ Queue!Run(j)
    /\ outcome'[j] = "ok"
    /\ step' = [step EXCEPT ![j] = "done"]
    /\ UNCHANGED <<columns, version, sealed, blobOf, store, tabs>>

(* Any step may return an error (the file is gone or locked, put-url or the *)
(* relay does not answer, ctx is cancelled): jobs.Failure.  A PUT that was  *)
(* sent may still land.                                                     *)
Fail(j) ==
    /\ \E s \in {"start", "sealed", "addressed", "putting"} : Running(j, s)
    /\ Queue!Run(j)
    /\ outcome'[j] = "fail"
    /\ step' = [step EXCEPT ![j] = "done"]
    /\ UNCHANGED <<columns, version, sealed, blobOf, store, tabs>>

(* The report arrives and completeJob stores it in the row. *)
Report(j) ==
    /\ Queue!Record(j)
    /\ row' = [row EXCEPT ![j] =
                IF outcome[j] = "ok"
                THEN [blob |-> blobOf[j], key |-> sealed[j].key] ELSE None]
    /\ UNCHANGED <<docOf, version, handler, store, tabs>>

-----------------------------------------------------------------------------
(* A sweep of the relay-cleanup loop takes objects; when, is in module       *)
(* RelayedDownload.                                                         *)

Expire(gone) ==
    /\ gone # {}
    /\ gone \subseteq {o.blob : o \in relay}
    /\ relay' = {o \in relay : o.blob \notin gone}
    /\ expired' = expired \union gone
    /\ UNCHANGED <<queue, columns, version, handler, upload, tabs>>

-----------------------------------------------------------------------------
(* The download button.                                                     *)

(* The button is disabled while it works.  The document's version is noted  *)
(* for the properties; what an earlier click saved stays on the disk.       *)
Click(t, d) ==
    /\ tab[t] \in {"idle", "error"}
    /\ tab' = [tab EXCEPT ![t] = "staging"]
    /\ want' = [want EXCEPT ![t] = d]
    /\ since' = [since EXCEPT ![t] = version[d]]
    /\ job' = [job EXCEPT ![t] = None]
    /\ polls' = [polls EXCEPT ![t] = 0]
    /\ got' = [got EXCEPT ![t] = None]
    /\ saved' = [saved EXCEPT ![t] = None]
    /\ UNCHANGED <<queue, columns, version, handler, store>>

Errs(t) ==
    /\ tab' = [tab EXCEPT ![t] = "error"]
    /\ UNCHANGED <<want, since, job, polls, got, saved>>

(* Mutant: the stage route answers with a job the document already has. *)
StageReusing(t, j) ==
    /\ tab[t] = "staging"
    /\ IF \E i \in Jobs : docOf[i] = want[t]
          THEN docOf[j] = want[t] /\ UNCHANGED <<queue, docOf>>
          ELSE Queue!Submit(j) /\ docOf' = [docOf EXCEPT ![j] = want[t]]
    /\ tab' = [tab EXCEPT ![t] = "polling"]
    /\ job' = [job EXCEPT ![t] = j]
    /\ UNCHANGED <<row, version, handler, store, want, since, polls, got, saved>>

(* The stage route inserts a job and answers with its id. *)
Stage(t, j) ==
    /\ tab[t] = "staging"
    /\ Queue!Submit(j)
    /\ docOf' = [docOf EXCEPT ![j] = want[t]]
    /\ tab' = [tab EXCEPT ![t] = "polling"]
    /\ job' = [job EXCEPT ![t] = j]
    /\ UNCHANGED <<row, version, handler, store, want, since, polls, got, saved>>

(* It inserts the job, but the answer is lost: nobody will ask for it.      *)
StageUnheard(t, j) ==
    /\ tab[t] = "staging"
    /\ Queue!Submit(j)
    /\ docOf' = [docOf EXCEPT ![j] = want[t]]
    /\ Errs(t)
    /\ UNCHANGED <<row, version, handler, store>>

(* It refuses (401, 404, 503), or the request is lost. *)
StageFails(t) ==
    /\ tab[t] = "staging"
    /\ Errs(t)
    /\ UNCHANGED <<queue, columns, version, handler, store>>

Polling(t) == tab[t] = "polling" /\ polls[t] < MaxPolls

PollSucceeded(t) ==
    /\ Polling(t)
    /\ verdict[job[t]] = "ok"
    /\ got' = [got EXCEPT ![t] = row[job[t]]]
    /\ tab' = [tab EXCEPT ![t] = "fetching"]
    /\ UNCHANGED <<queue, columns, version, handler, store, want, since, job, polls, saved>>

(* The job has failed, or the jobs route does not answer with JSON. *)
PollFails(t) ==
    /\ Polling(t)
    /\ Errs(t)
    /\ UNCHANGED <<queue, columns, version, handler, store>>

(* Any other answer, 401 and 404 among them, is asked for again. *)
PollAgain(t) ==
    /\ Polling(t)
    /\ polls' = [polls EXCEPT ![t] = @ + 1]
    /\ UNCHANGED <<queue, columns, version, handler, store, tab, want, since, job, got, saved>>

(* Mutant: the loop ends without throwing, and the button keeps spinning. *)
GiveUpSilently(t) ==
    /\ tab[t] = "polling"
    /\ polls[t] = MaxPolls
    /\ UNCHANGED vars

(* "timed out waiting for the connector": the job itself goes on. *)
GiveUp(t) ==
    /\ tab[t] = "polling"
    /\ polls[t] = MaxPolls
    /\ Errs(t)
    /\ UNCHANGED <<queue, columns, version, handler, store>>

(* The blob is fetched and its ciphertext opens with the key. *)
Save(t) ==
    /\ tab[t] = "fetching"
    /\ \E o \in relay :
        /\ o.blob = got[t].blob
        /\ o.text.key = got[t].key
        /\ saved' = [saved EXCEPT ![t] = [doc |-> o.text.doc, ver |-> o.text.ver]]
    /\ tab' = [tab EXCEPT ![t] = "idle"]
    /\ UNCHANGED <<queue, columns, version, handler, store, want, since, job, polls, got>>

(* The fetch is lost, or brings something the key does not open: another    *)
(* ciphertext, or, as the status is not looked at, the relay's error page.  *)
SaveFails(t) ==
    /\ tab[t] = "fetching"
    /\ Errs(t)
    /\ UNCHANGED <<queue, columns, version, handler, store>>

-----------------------------------------------------------------------------

HandlerStep(j) ==
    \/ Seal(j) \/ RequestPut(j) \/ SendPut(j)
    \/ Succeed(j) \/ Fail(j)

TabStep(t) ==
    \/ \E j \in Jobs : Stage(t, j) \/ StageUnheard(t, j)
    \/ StageFails(t)
    \/ PollSucceeded(t) \/ PollFails(t) \/ PollAgain(t) \/ GiveUp(t)
    \/ Save(t) \/ SaveFails(t)

Next ==
    \/ \E d \in Docs : Edit(d)
    \/ \E j \in Jobs : Lease(j) \/ HandlerStep(j) \/ PutLands(j) \/ PutLost(j) \/ Report(j)
    \/ \E gone \in SUBSET BlobKeys : Expire(gone)
    \/ \E t \in Tabs : TabStep(t) \/ \E d \in Docs : Click(t, d)

Spec == Init /\ [][Next]_vars

(* Only the page itself is relied on: its timer fires and its requests end, *)
(* with an answer or an error.                                              *)
FairSpec == Spec /\ \A t \in Tabs : WF_vars(TabStep(t))

-----------------------------------------------------------------------------

(* What a succeeded row hands out fits together: its blob was stored before *)
(* the row said so, it is still there or was swept, the row's key opens it, *)
(* it is the document that was asked for, and the key opens no other blob.  *)
RowOpensItsBlob ==
    \A j \in Jobs : verdict[j] = "ok" =>
        /\ row[j] # None
        /\ \/ row[j].blob \in expired
           \/ \E o \in relay :
                o.blob = row[j].blob /\ o.text.key = row[j].key /\ o.text.doc = docOf[j]
        /\ \A o \in relay : o.text.key = row[j].key => o.blob = row[j].blob

(* What a click saves is the document that was clicked, and no older than   *)
(* it was then: never a stale blob, never another tab's document, however   *)
(* jobs, uploads, edits and sweeps interleave.                              *)
SavedIsCurrent ==
    \A t \in Tabs : saved[t] # None =>
        saved[t].doc = want[t] /\ saved[t].ver >= since[t]

(* Whatever the connector does or does not do, a click ends: with the file  *)
(* saved, or with an error shown and the button usable again.               *)
EveryClickEnds ==
    \A t \in Tabs : tab[t] \notin {"idle", "error"} ~> tab[t] \in {"idle", "error"}

-----------------------------------------------------------------------------
(* The inductive invariant.                                                 *)

(* A handler's place says what it has in hand. *)
HandlerInv ==
    \A j \in Jobs :
        /\ phase[j] = "new" <=> docOf[j] = None
        /\ phase[j] \in {"new", "queued"} => outcome[j] = "none" /\ step[j] = "start"
        /\ step[j] = "start" => sealed[j] = None
        /\ step[j] \in {"sealed", "addressed", "putting"} => sealed[j] # None
        /\ step[j] \in {"start", "sealed"} => blobOf[j] = None
        /\ step[j] \in {"addressed", "putting"} => blobOf[j] # None
        /\ step[j] \in {"start", "sealed", "addressed"} => upload[j] = "none"
        /\ upload[j] # "none" => sealed[j] # None /\ blobOf[j] # None
        /\ sealed[j] # None => sealed[j].doc = docOf[j] /\ sealed[j].ver <= version[docOf[j]]

(* Every run has a content key and a blob key of its own. *)
FreshInv ==
    \A i, j \in Jobs :
        /\ blobOf[i] = blobOf[j] /\ blobOf[i] # None => i = j
        /\ sealed[i] # None /\ sealed[j] # None /\ sealed[i].key = sealed[j].key => i = j

(* What is in the relay is some job's upload; what landed is there or was swept. *)
RelayInv ==
    /\ \A o \in relay : \E j \in Jobs :
        upload[j] = "landed" /\ o.blob = blobOf[j] /\ o.text = sealed[j]
    /\ \A j \in Jobs : upload[j] = "landed" =>
        blobOf[j] \in expired \/ [blob |-> blobOf[j], text |-> sealed[j]] \in relay

(* A row holds what its job's handler uploaded. *)
RowInv ==
    \A j \in Jobs :
        /\ outcome[j] = "ok" => upload[j] = "landed"
        /\ verdict[j] = "ok" =>
            /\ phase[j] = "recorded"
            /\ outcome[j] = "ok"
            /\ row[j] = [blob |-> blobOf[j], key |-> sealed[j].key]

(* A tab asks for its own job, which reads the document after the click.    *)
TabInv ==
    \A t \in Tabs :
        /\ tab[t] # "idle" => want[t] # None
        /\ tab[t] \in {"polling", "fetching"} =>
            /\ job[t] # None
            /\ docOf[job[t]] = want[t]
            /\ sealed[job[t]] # None => sealed[job[t]].ver >= since[t]
        /\ want[t] # None => since[t] <= version[want[t]]
        /\ tab[t] = "fetching" =>
            verdict[job[t]] = "ok" /\ got[t] = row[job[t]]

Inv == TypeOK /\ HandlerInv /\ FreshInv /\ RelayInv /\ RowInv /\ TabInv /\ SavedIsCurrent

-----------------------------------------------------------------------------
(* StageDownload implements what the click promises.                        *)

Read == INSTANCE RemoteRead WITH busy <- [t \in Tabs |-> tab[t] \notin {"idle", "error"}]

(* Whatever happens to jobs, blobs and tabs, each click reads the document  *)
(* as it was at one moment between the click and the save, or shows an      *)
(* error: no stale blob, no other tab's document, no second save.           *)
ImplementsRead == Read!Spec
=============================================================================
