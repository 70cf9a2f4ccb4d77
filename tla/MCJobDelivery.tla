---------------------------- MODULE MCJobDelivery ----------------------------
(* Small instances of JobDelivery for TLC. *)
EXTENDS JobDelivery, TLC

CONSTANTS j1, j2, j3, c1, c2, p1, p2

TwoJobs == {j1, j2}
ThreeJobs == {j1, j2, j3}
OneConnector == {c1}
TwoConnectors == {c1, c2}
OnePoll == {p1}
TwoPolls == {p1, p2}

NoJobs == {}
FirstJob == {j1}

Calm == {}
Stops == {"stop"}
Losses == {"loss"}
Handover == {"crash", "revoke"}
Everything == DisturbanceKinds

(* Nothing in the rules tells jobs, connectors or slots apart, as long as   *)
(* Undecodable does not name one of the jobs.                               *)
SlotSymmetry == Permutations({p1, p2})
FullSymmetry ==
    Permutations({j1, j2, j3}) \union Permutations({c1, c2}) \union SlotSymmetry
=============================================================================
