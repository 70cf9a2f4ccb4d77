--------------------------- MODULE MCStageDownload ---------------------------
(* Small instances of StageDownload for TLC. *)
EXTENDS StageDownload, TLC

CONSTANTS j1, j2, d1, d2, t1, t2, b1, b2, k1, k2

TwoJobs == {j1, j2}
TwoDocs == {d1, d2}
TwoTabs == {t1, t2}
TwoBlobs == {b1, b2}
TwoKeys == {k1, k2}

Symmetry ==
    Permutations(TwoJobs) \union Permutations(TwoDocs) \union Permutations(TwoTabs)
        \union Permutations(TwoBlobs) \union Permutations(TwoKeys)
=============================================================================
