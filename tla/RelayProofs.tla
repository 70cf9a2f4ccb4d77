----------------------------- MODULE RelayProofs -----------------------------
(***************************************************************************)
(* Proofs about Relay, for every set of blob keys and every choice of TTL,  *)
(* Period and PresignTTL.                                                   *)
(***************************************************************************)
EXTENDS Relay, TLAPS

USE TimesAssumption, MaxMissedAssumption, MaxAgeAssumption

(* One more missed sweep is one more period. *)
LEMMA OneMorePeriod ==
    ASSUME NEW k \in Nat
    PROVE  Period * k \in Nat /\ Period * (k + 1) = Period * k + Period
    OBVIOUS

(* Getting older keeps an age in range and adds at most a tick. *)
LEMMA OlderBound ==
    ASSUME NEW a \in 0 .. MaxAge
    PROVE  Older(a) \in 0 .. MaxAge /\ a <= Older(a) /\ Older(a) <= a + 1
    BY DEF Older

(* The initial state satisfies the invariant: nothing is stored. *)
LEMMA AgeInit == Init => AgeInv
    BY DEF Init, AgeInv, TypeOK, ReadableForTTL

(* Every step keeps the ages behind the cleanup loop's sleep. *)
LEMMA AgeStep == AgeInv /\ [Next]_vars => AgeInv'
<1> SUFFICES ASSUME AgeInv, [Next]_vars
             PROVE  AgeInv'
    OBVIOUS
<1> USE DEF AgeInv, TypeOK, ReadableForTTL
<1>0. /\ Period * missed \in Nat
      /\ Period * (missed + 1) = Period * missed + Period
    BY OneMorePeriod
<1>1. ASSUME NEW b \in BlobKeys, PresignPut(b)
      PROVE  AgeInv'
    BY <1>0, <1>1 DEF PresignPut
<1>2. ASSUME NEW b \in BlobKeys, Put(b)
      PROVE  AgeInv'
  <2>1. TypeOK'
      BY <1>0, <1>2 DEF Put
  <2>2. ASSUME NEW c \in objects'
        PROVE  /\ url'[c] = "used"
               /\ urlAge'[c] < age'[c] + PresignTTL
               /\ missed' < MaxMissed => age'[c] < TTL + slept' + Period * missed'
    <3>1. CASE c = b
        BY <1>0, <1>2, <3>1 DEF Put
    <3>2. CASE c # b
        BY <1>2, <2>2, <3>2 DEF Put
    <3> QED  BY <3>1, <3>2
  <2>3. ReadableForTTL'
      BY <1>2 DEF Put
  <2> QED  BY <2>1, <2>2, <2>3
<1>3. CASE Sweep
  <2>1. ASSUME NEW b \in objects'
        PROVE  age'[b] < TTL + slept' + Period * missed'
    <3>1. missed' = 0 /\ slept' = 0 /\ age'[b] < TTL
        BY <1>3, <2>1 DEF Sweep, Expired
    <3> QED  BY <3>1
  <2>2. ReadableForTTL'
      BY <1>3 DEF Sweep, Expired
  <2> QED  BY <1>3, <2>1, <2>2 DEF Sweep
<1>4. CASE SweepFails
  <2>1. ASSUME NEW b \in objects', missed' < MaxMissed
        PROVE  age'[b] < TTL + slept' + Period * missed'
    <3>1. missed' = missed + 1 /\ slept' = 0 /\ slept = Period
        BY <1>4, <2>1 DEF SweepFails
    <3>2. age[b] < TTL + slept + Period * missed
        BY <1>4, <2>1, <3>1 DEF SweepFails
    <3> QED  BY <1>0, <1>4, <3>1, <3>2 DEF SweepFails
  <2> QED  BY <1>4, <2>1 DEF SweepFails
<1>5. CASE Restart
  <2>1. ASSUME NEW b \in objects', missed' < MaxMissed
        PROVE  age'[b] < TTL + slept' + Period * missed'
      BY <1>0, <1>5, <2>1 DEF Restart
  <2> QED  BY <1>5, <2>1 DEF Restart
<1>6. CASE Tick
  <2>1. slept' = slept + 1 /\ slept' \in 0 .. Period
      BY <1>6 DEF Tick
  <2>2. ASSUME NEW b \in BlobKeys
        PROVE  /\ age'[b] \in 0 .. MaxAge /\ age'[b] <= age[b] + 1
               /\ url[b] = "used" => age'[b] = Older(age[b]) /\ age[b] <= age'[b]
               /\ urlAge'[b] \in 0 .. MaxAge
    <3>1. \/ age'[b] = Older(age[b])
          \/ age'[b] = 0 /\ url[b] # "used"
        BY <1>6 DEF Tick
    <3>2. urlAge'[b] \in {Older(urlAge[b]), 0}
        BY <1>6 DEF Tick
    <3> QED  BY <3>1, <3>2, OlderBound
  <2>3. TypeOK'
      BY <1>6, <2>1, <2>2 DEF Tick
  <2>4. ASSUME NEW b \in objects'
        PROVE  urlAge'[b] < age'[b] + PresignTTL
    <3>1. b \in objects /\ urlAge[b] < age[b] + PresignTTL /\ url[b] = "used"
        BY <1>6, <2>4 DEF Tick
    <3>2. urlAge'[b] = Older(urlAge[b]) /\ age'[b] = Older(age[b])
        BY <1>6, <3>1 DEF Tick
    <3> QED  BY <3>1, <3>2 DEF Older
  <2>5. ASSUME NEW b \in objects'
        PROVE  /\ url'[b] = "used"
               /\ missed' < MaxMissed => age'[b] < TTL + slept' + Period * missed'
      BY <1>0, <1>6, <2>1, <2>2, <2>5 DEF Tick
  <2>6. ReadableForTTL'
      BY <1>0, <1>6, <2>2 DEF Tick
  <2> QED  BY <2>3, <2>4, <2>5, <2>6
<1>7. CASE UNCHANGED vars
    BY <1>7 DEF vars
<1> QED
    BY <1>1, <1>2, <1>3, <1>4, <1>5, <1>6, <1>7 DEF Next

(* AgeInv, and with it TypeOK, holds in every reachable state. *)
THEOREM AgesBounded == Spec => []AgeInv
    BY AgeInit, AgeStep, PTL DEF Spec

(* relay-cleanup never takes what was stored less than TTL ago. *)
THEOREM Readable == Spec => []ReadableForTTL
<1>1. AgeInv => ReadableForTTL
    BY DEF AgeInv
<1> QED
    BY <1>1, AgesBounded, PTL

(* What the invariant says of ages bounds how long a blob stays. *)
LEMMA AgesBoundStay == AgeInv => OverstayIsBounded /\ ResidencyIsBounded
<1> SUFFICES ASSUME AgeInv, missed < MaxMissed, NEW b \in objects
             PROVE  /\ age[b] < TTL + Period * (missed + 1)
                    /\ urlAge[b] < PresignTTL + TTL + Period * (missed + 1)
    BY DEF OverstayIsBounded, ResidencyIsBounded
<1>1. /\ Period * missed \in Nat
      /\ Period * (missed + 1) = Period * missed + Period
    BY OneMorePeriod DEF AgeInv, TypeOK
<1>2. /\ age[b] < TTL + slept + Period * missed
      /\ urlAge[b] < age[b] + PresignTTL
      /\ slept \in Nat /\ slept <= Period /\ age[b] \in Nat /\ urlAge[b] \in Nat
    BY DEF AgeInv, TypeOK
<1> QED
    BY <1>1, <1>2

(* A blob outlives TTL by less than a period for every sweep in a row that  *)
(* failed, and one more: for none failed, the README's bound.               *)
THEOREM Overstay == Spec => []OverstayIsBounded
    BY AgesBoundStay, AgesBounded, PTL

(* From a URL's signature a document stays for at most the two lifetimes    *)
(* and the overstay together.                                               *)
THEOREM Residency == Spec => []ResidencyIsBounded
    BY AgesBoundStay, AgesBounded, PTL
=============================================================================
