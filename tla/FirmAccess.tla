----------------------------- MODULE FirmAccess -----------------------------
(***************************************************************************)
(* What the portal promises a law firm about its matters, as one would say  *)
(* it who knows nothing of callbacks, cookies, transactions and policies:   *)
(* an account is opened with the firm a person's domain is registered for,   *)
(* whether the person then gets in or not; a session is of the person's own  *)
(* account; and when documents appear on a page they are of that firm and   *)
(* not walled off from that account, there and then.  TenantScope shows how *)
(* it is done.                                                              *)
(***************************************************************************)
CONSTANTS Tenants, Domains, Directories, Persons, Accounts, Matters, Browsers,
          PlatformAdmins, DomainOf, DirectoryOf, TenantOf, FirstTenant, FirstDomain, None

VARIABLES
    firm,       \* what a domain is registered for
    account,    \* whose an account is, and with which firm
    walls,      \* which accounts are kept from which matters
    session,    \* the account signed in at a browser
    form,       \* a registration a platform administrator has asked for
    page        \* what a browser asked for, and whether it is shown

vars == <<firm, account, walls, session, form, page>>

Init ==
    /\ firm = [d \in Domains |->
        IF d = FirstDomain THEN [tenant |-> FirstTenant, directory |-> None] ELSE None]
    /\ account = [a \in Accounts |-> None]
    /\ walls = {}
    /\ session = [b \in Browsers |-> None]
    /\ form = [b \in Browsers |-> None]
    /\ page = [b \in Browsers |-> None]

Fills(b, f) ==
    /\ form' = [form EXCEPT ![b] = f]
    /\ UNCHANGED <<account, walls, session, page>>

(* Only a platform administrator asks for a firm to be registered. *)
Apply(b) ==
    /\ session[b] # None
    /\ account[session[b]].email \in PlatformAdmins
    /\ form[b] = None
    /\ \E t \in Tenants, d \in Domains, e \in Directories \union {None} :
        Fills(b, [tenant |-> t, domain |-> d, directory |-> e])
    /\ UNCHANGED firm

(* A firm has one domain and a domain one firm, whoever else is asking. *)
Register(b) ==
    /\ form[b] # None
    /\ firm[form[b].domain] = None
    /\ \A d \in Domains : firm[d] = None \/ firm[d].tenant # form[b].tenant
    /\ firm' = [firm EXCEPT ![form[b].domain] =
            [tenant |-> form[b].tenant, directory |-> form[b].directory]]
    /\ Fills(b, None)

Withdraw(b) == form[b] # None /\ Fills(b, None) /\ UNCHANGED firm

Wall(a, m) ==
    /\ account[a] # None
    /\ account[a].tenant = TenantOf[m]
    /\ walls' = walls \union {<<a, m>>}
    /\ UNCHANGED <<firm, account, session, form, page>>

FirmOf(p) == firm[DomainOf[p]]

(* The firm takes this directory's word, or one of the two names none.      *)
(* This is the comparison of auth.ts:86-87; the comment above it and the    *)
(* one at sso.ts:24-27 would have a registered directory match always.      *)
Vouched(p) ==
    /\ FirmOf(p) # None
    /\ \/ None \in {FirmOf(p).directory, DirectoryOf[p]}
       \/ FirmOf(p).directory = DirectoryOf[p]

Own(p) == [tenant |-> FirmOf(p).tenant, email |-> p]

(* A person's account with the firm, maybe not the only one. *)
OpenAccount(p, a) ==
    /\ Vouched(p)
    /\ account[a] = None
    /\ account' = [account EXCEPT ![a] = Own(p)]
    /\ UNCHANGED <<firm, walls, session, form, page>>

SignIn(b) ==
    /\ session[b] = None
    /\ \E p \in Persons, a \in Accounts :
        /\ Vouched(p)
        /\ account[a] = Own(p)
        /\ session' = [session EXCEPT ![b] = a]
    /\ UNCHANGED <<firm, account, walls, form, page>>

SignOut(b) ==
    /\ session[b] # None
    /\ session' = [session EXCEPT ![b] = None]
    /\ UNCHANGED <<firm, account, walls, form, page>>

Turns(b, to) ==
    /\ page' = [page EXCEPT ![b] = to]
    /\ UNCHANGED <<firm, account, walls, session, form>>

Ask(b) ==
    /\ session[b] # None
    /\ page[b] = None \/ page[b].shown
    /\ \E m \in Matters :
        Turns(b, [account |-> session[b], matter |-> m, shown |-> FALSE])

(* The account need not be signed in any more: the request goes on. *)
Show(b) ==
    /\ page[b] # None /\ ~page[b].shown
    /\ TenantOf[page[b].matter] = FirmOf(account[page[b].account].email).tenant
    /\ <<page[b].account, page[b].matter>> \notin walls
    /\ Turns(b, [account |-> page[b].account, matter |-> page[b].matter, shown |-> TRUE])

Leave(b) == page[b] # None /\ Turns(b, None)

Next ==
    \/ \E b \in Browsers :
        \/ SignIn(b) \/ SignOut(b)
        \/ Apply(b) \/ Register(b) \/ Withdraw(b)
        \/ Ask(b) \/ Show(b) \/ Leave(b)
    \/ \E p \in Persons, a \in Accounts : OpenAccount(p, a)
    \/ \E a \in Accounts, m \in Matters : Wall(a, m)

Spec == Init /\ [][Next]_vars
=============================================================================
