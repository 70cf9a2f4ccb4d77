---------------------------- MODULE MCBulkImport ----------------------------
(* Module BulkImport with four folders: two share a number, one has no      *)
(* number; two users have initials that differ only in case.                *)
EXTENDS BulkImport, TLC

CONSTANTS n1, n2, dr, u1, u2

FourFolders     == 1 .. 4
TheirNumbers    == <<n1, n2, n1, None>>
TheirInitials   == <<dr, None, dr, None>>
TheHolders      == [i \in {dr} |-> {u1, u2}]
Symmetry        == Permutations(Scans) \union Permutations(Runs) \union Permutations({u1, u2})
=============================================================================
