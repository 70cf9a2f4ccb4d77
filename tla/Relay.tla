-------------------------------- MODULE Relay --------------------------------
(***************************************************************************)
(* The relay store over time: MinIO holds the ciphertexts, relay.ts signs   *)
(* URLs for them, and the relay-cleanup container of docker-compose.prod.yml *)
(* is the only thing that deletes them.  Its loop runs mc rm --older-than,  *)
(* ignores a failure of it (|| true) and sleeps.                            *)
(*                                                                         *)
(* One tick is the unit TTL, Period and PresignTTL are given in.  No rule    *)
(* depends on an age beyond TTL or PresignTTL, where it may stop counting;   *)
(* how long objects overstay shows if MaxAge is larger.  A sweep takes no   *)
(* time.                                                                    *)
(***************************************************************************)
EXTENDS Naturals

CONSTANTS
    BlobKeys,       \* blob keys the portal may issue (bound)
    TTL,            \* --older-than
    Period,         \* the loop's sleep
    PresignTTL,     \* PRESIGN_TTL_SECONDS
    MaxMissed,      \* failed sweeps in a row are counted up to this (bound)
    MaxAge          \* ages are counted up to this (bound)

ASSUME TimesAssumption ==
    /\ TTL \in Nat \ {0}
    /\ Period \in Nat \ {0}
    /\ PresignTTL \in Nat \ {0}

ASSUME MaxMissedAssumption == MaxMissed \in Nat

ASSUME MaxAgeAssumption == MaxAge \in Nat /\ MaxAge >= TTL /\ MaxAge >= PresignTTL

VARIABLES
    slept,      \* how long the cleanup loop has slept; it sweeps at Period
    missed,     \* sweeps that failed since the last good one
    url,        \* the PUT URL of a blob key: "unsigned", "signed" or "used"
    urlAge,     \* ticks since it was signed
    objects,    \* blob keys that have an object in the bucket
    age         \* ticks since the object was stored

vars == <<slept, missed, url, urlAge, objects, age>>

Older(a) == IF a < MaxAge THEN a + 1 ELSE a

TypeOK ==
    /\ slept \in 0 .. Period
    /\ missed \in 0 .. MaxMissed
    /\ url \in [BlobKeys -> {"unsigned", "signed", "used"}]
    /\ urlAge \in [BlobKeys -> 0 .. MaxAge]
    /\ objects \subseteq BlobKeys
    /\ age \in [BlobKeys -> 0 .. MaxAge]

(* The loop starts with a sweep: its first sleep is over. *)
Init ==
    /\ slept = Period
    /\ missed = 0
    /\ url = [b \in BlobKeys |-> "unsigned"]
    /\ urlAge = [b \in BlobKeys |-> 0]
    /\ objects = {}
    /\ age = [b \in BlobKeys |-> 0]

(* newBlobKey() and presignPut(). *)
PresignPut(b) ==
    /\ url[b] = "unsigned"
    /\ url' = [url EXCEPT ![b] = "signed"]
    /\ urlAge' = [urlAge EXCEPT ![b] = 0]
    /\ UNCHANGED <<slept, missed, objects, age>>

(* Mutant: the relay takes a PUT whenever it comes. *)
PutWhenever(b) ==
    /\ url[b] = "signed"
    /\ url' = [url EXCEPT ![b] = "used"]
    /\ objects' = objects \union {b}
    /\ age' = [age EXCEPT ![b] = 0]
    /\ UNCHANGED <<slept, missed, urlAge>>

(* The connector's one PUT to the URL, refused once the URL has expired.    *)
Put(b) ==
    /\ url[b] = "signed"
    /\ urlAge[b] < PresignTTL
    /\ url' = [url EXCEPT ![b] = "used"]
    /\ objects' = objects \union {b}
    /\ age' = [age EXCEPT ![b] = 0]
    /\ UNCHANGED <<slept, missed, urlAge>>

(* Mutants: the URL's age instead of the object's; one tick too many. *)
ExpiredBySignature == {b \in objects : urlAge[b] >= TTL}

ExpiredLate == {b \in objects : age[b] >= TTL + 1}

(* What mc rm --older-than removes. *)
Expired == {b \in objects : age[b] >= TTL}

Sweep ==
    /\ slept = Period
    /\ slept' = 0
    /\ missed' = 0
    /\ objects' = objects \ Expired
    /\ UNCHANGED <<url, urlAge, age>>

(* Mutant: a failing sweep ends the loop. *)
SweepFailsForGood ==
    /\ slept = Period
    /\ slept' = Period + 1
    /\ UNCHANGED <<missed, url, urlAge, objects, age>>

SweepFails ==
    /\ slept = Period
    /\ slept' = 0
    /\ missed' = IF missed < MaxMissed THEN missed + 1 ELSE missed
    /\ UNCHANGED <<url, urlAge, objects, age>>

(* Docker restarts the container, whose loop starts over with a sweep.      *)
Restart ==
    /\ slept < Period
    /\ slept' = Period
    /\ UNCHANGED <<missed, url, urlAge, objects, age>>

(* Time passes while the loop sleeps, and only then: a sweep that is due    *)
(* comes first.                                                             *)
Tick ==
    /\ slept # Period
    /\ slept' = IF slept < Period THEN slept + 1 ELSE slept
    /\ urlAge' = [b \in BlobKeys |-> IF url[b] = "unsigned" THEN 0 ELSE Older(urlAge[b])]
    /\ age' = [b \in BlobKeys |-> IF url[b] = "used" THEN Older(age[b]) ELSE 0]
    /\ UNCHANGED <<missed, url, objects>>

Next ==
    \/ \E b \in BlobKeys : PresignPut(b) \/ Put(b)
    \/ Sweep \/ SweepFails \/ Restart \/ Tick

Spec == Init /\ [][Next]_vars

(* Time passes however often docker restarts the container, and not every   *)
(* sweep fails.                                                             *)
FairSpec == Spec /\ SF_vars(Tick) /\ WF_vars(Sweep \/ SweepFails) /\ SF_vars(Sweep)

-----------------------------------------------------------------------------

(* A document staged for a browser stays readable for the whole TTL: the    *)
(* cleanup loop never takes an object stored less than TTL ago, however     *)
(* long before the PUT its URL was signed.                                  *)
ReadableForTTL ==
    \A b \in BlobKeys : url[b] = "used" /\ age[b] < TTL => b \in objects

(* A blob outlives TTL by less than one period, and one more for each sweep *)
(* that failed in a row.  With none failed this is infra/deploy/README.md   *)
(* 281-283, "worst case, a blob outlives its 1h target by under 10 minutes".*)
OverstayIsBounded ==
    missed < MaxMissed => \A b \in objects : age[b] < TTL + Period * (missed + 1)

(* The two lifetimes add up: this long after a URL was signed, the document *)
(* put to it is no longer in the relay, however late it came and whatever   *)
(* became of its job.                                                       *)
ResidencyIsBounded ==
    missed < MaxMissed =>
        \A b \in objects : urlAge[b] < PresignTTL + TTL + Period * (missed + 1)

(* A staged document does not stay in the relay for good, failing sweeps or *)
(* not.                                                                     *)
StagedGoes == \A b \in BlobKeys : b \in objects ~> b \notin objects

(* The inductive invariant: an object is older than TTL by less than the    *)
(* loop has slept since the last sweep that did not fail, and its URL is    *)
(* older than itself by less than PresignTTL.                               *)
AgeInv ==
    /\ TypeOK
    /\ \A b \in objects :
        /\ url[b] = "used"
        /\ urlAge[b] < age[b] + PresignTTL
        /\ missed < MaxMissed => age[b] < TTL + slept + Period * missed
    /\ ReadableForTTL
=============================================================================
