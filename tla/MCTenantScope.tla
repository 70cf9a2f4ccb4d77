---------------------------- MODULE MCTenantScope ----------------------------
(* Two firms: the operator's, and one for whose domain two people sign in,  *)
(* Ann from a directory and Gia through Google, which names none.  The      *)
(* matter is of the second.                                                 *)
EXTENDS TenantScope, FiniteSets, TLC

CONSTANTS t1, t2, d1, d2, e1, e2, operator, ann, gia, u1, u2, u3, m, b1, b2

TwoTenants == {t1, t2}
TwoDomains == {d1, d2}
TwoDirectories == {e1, e2}
People == {operator, ann, gia}
ThreeUsers == {u1, u2, u3}
OneMatter == {m}
TwoBrowsers == {b1, b2}
Operators == {operator}

Domain == [p \in People |-> IF p = operator THEN d1 ELSE d2]
Directory == [p \in People |-> IF p = ann THEN e1 ELSE None]
Firm == [x \in OneMatter |-> t2]

(* Users and browsers are interchangeable. *)
Symmetry == Permutations(ThreeUsers) \union Permutations(TwoBrowsers)

(* A request changes no table and reads no registration, so that two of     *)
(* them, or one and a form, tell each other nothing, and no property is     *)
(* about such a pair; of two forms it matters only if they want the same.   *)
(* One request is let be alone with the sign-ins, or forms for one domain.  *)
FewAtOnce ==
    LET asking == {b \in Browsers : step[b] # "idle"}
        forms  == {form[b] : b \in Browsers} \ {None}
    IN  /\ Cardinality(asking) <= 1 /\ Cardinality(forms) <= 1
        /\ asking = {} \/ forms = {}
=============================================================================
