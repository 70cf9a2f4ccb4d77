--------------------------- MODULE RelayedDownload ---------------------------
(***************************************************************************)
(* StageDownload on Relay's clock: a download whose blob lies in a relay     *)
(* that sweeps.  An action that concerns both is the conjunction of the two  *)
(* modules' actions; every other is one module's action with the other's     *)
(* variables unchanged.  The download's URLs and objects are Relay's through *)
(* the substitution below, so a step of this module is a step or a stutter   *)
(* of each.                                                                 *)
(*                                                                         *)
(* Time passes for everybody at once and forces nobody: a request may take   *)
(* any number of ticks.                                                     *)
(***************************************************************************)
EXTENDS StageDownload

CONSTANTS
    TTL,            \* --older-than
    Period,         \* the cleanup loop's sleep
    PresignTTL,     \* PRESIGN_TTL_SECONDS, of PUT and GET URLs alike
    MaxMissed,      \* failed sweeps in a row are counted up to this (bound)
    MaxAge          \* ages are counted up to this (bound)

ASSUME ClockAssumption ==
    /\ TTL \in Nat \ {0}
    /\ Period \in Nat \ {0}
    /\ PresignTTL \in Nat \ {0}
    /\ MaxMissed \in Nat
    /\ MaxAge \in Nat /\ MaxAge >= PresignTTL

(* relay.ts and docker-compose.prod.yml both say an hour. *)
ASSUME LifetimesAssumption == TTL <= PresignTTL

VARIABLES
    (* as in Relay *)
    slept, missed, urlAge, age,
    (* the browser tabs *)
    waited,     \* history: ticks since the click
    linkAge     \* ticks since presignGet signed the URL in got

clock == <<slept, missed, urlAge, age>>
watch == <<waited, linkAge>>
timedVars == <<vars, clock, watch>>

(* The PUT URL of a blob key. *)
urlOf(b) ==
    IF \A j \in Jobs : blobOf[j] # b THEN "unsigned"
    ELSE IF \E j \in Jobs : blobOf[j] = b /\ upload[j] = "landed" THEN "used"
    ELSE "signed"

Store == INSTANCE Relay WITH
    url <- [b \in BlobKeys |-> urlOf(b)],
    objects <- {o.blob : o \in relay}

TimedInit ==
    /\ Init
    /\ Store!Init
    /\ waited = [t \in Tabs |-> 0]
    /\ linkAge = [t \in Tabs |-> 0]

-----------------------------------------------------------------------------
(* Steps of both modules.                                                   *)

(* The put-url route: newBlobKey() and presignPut(). *)
SignPut(j) ==
    /\ RequestPut(j)
    /\ Store!PresignPut(blobOf'[j])
    /\ UNCHANGED watch

(* MinIO takes the PUT while its URL is valid. *)
Upload(j) ==
    /\ PutLands(j)
    /\ Store!Put(blobOf[j])
    /\ UNCHANGED watch

(* mc rm --older-than: the old objects go, if there are any. *)
Sweep ==
    /\ \/ Expire(Store!Expired)
       \/ Store!Expired = {} /\ UNCHANGED vars
    /\ Store!Sweep
    /\ UNCHANGED watch

(* The relay's own. *)
CleanupFails == UNCHANGED <<vars, watch>> /\ Store!SweepFails
CleanupRestarts == UNCHANGED <<vars, watch>> /\ Store!Restart

Tick ==
    /\ UNCHANGED vars
    /\ Store!Tick
    /\ waited' = [t \in Tabs |->
                    IF tab[t] \in {"idle", "error"} THEN 0 ELSE Store!Older(waited[t])]
    /\ linkAge' = [t \in Tabs |->
                    IF tab[t] = "fetching" THEN Store!Older(linkAge[t]) ELSE 0]

-----------------------------------------------------------------------------
(* The tabs' steps that start or read a clock.                              *)

TimedClick(t, d) ==
    /\ Click(t, d)
    /\ waited' = [waited EXCEPT ![t] = 0]
    /\ UNCHANGED <<clock, linkAge>>

(* The jobs route signs a GET URL whenever it is asked, whether or not the  *)
(* blob is still there.                                                     *)
SignGet(t) ==
    /\ PollSucceeded(t)
    /\ linkAge' = [linkAge EXCEPT ![t] = 0]
    /\ UNCHANGED <<clock, waited>>

Fetch(t) ==
    /\ linkAge[t] < PresignTTL
    /\ Save(t)
    /\ UNCHANGED <<clock, watch>>

Untimed == UNCHANGED <<clock, watch>>

TimedHandlerStep(j) ==
    \/ SignPut(j)
    \/ (Seal(j) \/ SendPut(j) \/ Succeed(j) \/ Fail(j)) /\ Untimed

TimedTabStep(t) ==
    \/ SignGet(t)
    \/ Fetch(t)
    \/ /\ \/ \E j \in Jobs : Stage(t, j) \/ StageUnheard(t, j)
          \/ StageFails(t) \/ PollFails(t) \/ PollAgain(t) \/ GiveUp(t) \/ SaveFails(t)
       /\ Untimed

TimedNext ==
    \/ \E d \in Docs : Edit(d) /\ Untimed
    \/ \E j \in Jobs :
        \/ TimedHandlerStep(j)
        \/ Upload(j)
        \/ (Lease(j) \/ PutLost(j) \/ Report(j)) /\ Untimed
    \/ Sweep \/ CleanupFails \/ CleanupRestarts \/ Tick
    \/ \E t \in Tabs : TimedTabStep(t) \/ \E d \in Docs : TimedClick(t, d)

TimedSpec == TimedInit /\ [][TimedNext]_timedVars

(* As in StageDownload, only the page is relied on. *)
TimedFairSpec == TimedSpec /\ \A t \in Tabs : WF_timedVars(TimedTabStep(t))

-----------------------------------------------------------------------------

(* Whoever comes for the document within TTL of the click finds it: the     *)
(* relay still has the blob the row names, the row's key opens it, it is    *)
(* the document clicked, and the URL is valid.  No sweep, restart, late     *)
(* upload, second click or other tab takes it away; only a network that     *)
(* fails can make such a fetch fail.                                        *)
PromptFetchSucceeds ==
    \A t \in Tabs : tab[t] = "fetching" /\ waited[t] < TTL =>
        /\ linkAge[t] < PresignTTL
        /\ \E o \in relay :
            /\ o.blob = got[t].blob
            /\ o.text.key = got[t].key
            /\ o.text.doc = want[t]

-----------------------------------------------------------------------------
(* The inductive invariant.                                                 *)

WatchTypeOK ==
    /\ waited \in [Tabs -> 0 .. MaxAge]
    /\ linkAge \in [Tabs -> 0 .. MaxAge]

(* A tab's blob was stored after the click, and its URL signed after it.    *)
SinceClick ==
    \A t \in Tabs :
        /\ tab[t] \in {"polling", "fetching"} /\ upload[job[t]] = "landed" =>
            age[blobOf[job[t]]] <= waited[t]
        /\ tab[t] = "fetching" => linkAge[t] <= waited[t]

TimedInv == Inv /\ Store!AgeInv /\ WatchTypeOK /\ SinceClick
=============================================================================
