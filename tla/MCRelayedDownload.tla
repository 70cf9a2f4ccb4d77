-------------------------- MODULE MCRelayedDownload --------------------------
(* A small instance of RelayedDownload for TLC.  Jobs, blob keys and content  *)
(* keys are interchangeable, so each behaviour is that of KeysInOrder under  *)
(* one renaming fixed for all its states: j1 is the job staged first, b1 and *)
(* k1 are its keys.  This loses no behaviour, liveness properties included,  *)
(* which a SYMMETRY would not promise.                                       *)
EXTENDS RelayedDownload

CONSTANTS j1, j2, d1, t1, b1, b2, k1, k2

TwoJobs == {j1, j2}
OneDoc == {d1}
OneTab == {t1}
TwoBlobs == {b1, b2}
TwoKeys == {k1, k2}

KeysInOrder ==
    /\ phase[j2] # "new" => phase[j1] # "new"
    /\ blobOf[j1] # b2 /\ blobOf[j2] # b1
    /\ sealed[j1] # None => sealed[j1].key = k1
    /\ sealed[j2] # None => sealed[j2].key = k2

(* Bound: the document is edited only once its first download's job is over *)
(* and it has been clicked again, so that the second job reads either.       *)
EditedLate == version[d1] > 0 => phase[j1] = "recorded" /\ phase[j2] # "new"
=============================================================================
