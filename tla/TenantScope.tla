----------------------------- MODULE TenantScope -----------------------------
(***************************************************************************)
(* From a sign-in to the rows a page shows: the signIn and jwt callbacks of *)
(* lib/auth.ts, the session a request reads, the transaction withTenant()   *)
(* opens for it, and the row-level policies PostgreSQL applies in it; next  *)
(* to them the page that registers tenants and the operators who put up     *)
(* ethical walls.                                                           *)
(*                                                                         *)
(* Every statement is a step of its own: a transaction is READ COMMITTED,   *)
(* so each sees what was committed before it.  The settings of withTenant() *)
(* are local to their transaction and set before its first statement; they  *)
(* are the tenant and user of the sign-in or request the transaction serves.*)
(*                                                                         *)
(* A browser stands for one sign-in and the session it ends with: a page    *)
(* closed during a sign-in and opened again is another one.                 *)
(***************************************************************************)
EXTENDS Naturals

CONSTANTS
    Tenants,        \* slugs of tenants
    Domains,        \* email domains
    Directories,    \* Entra directory ids
    Persons,        \* people, each with one email address
    UserIds,        \* ids the users table may hand out (bound)
    Matters,        \* rows of matters, with their documents
    Browsers,
    PlatformAdmins, \* people in PLATFORM_ADMIN_EMAILS
    DomainOf,       \* a person's email domain
    DirectoryOf,    \* the tid claim of a person's provider; None for Google
    TenantOf,       \* tenant_id of a matter and of its documents
    FirstTenant, FirstDomain,   \* what is registered before the first sign-in
    None

ASSUME PeopleAssumption ==
    /\ PlatformAdmins \subseteq Persons
    /\ DomainOf \in [Persons -> Domains]
    /\ DirectoryOf \in [Persons -> Directories \union {None}]
    /\ TenantOf \in [Matters -> Tenants]
    /\ FirstTenant \in Tenants
    /\ FirstDomain \in Domains

VARIABLES
    registry,   \* tenant_sso_domains: what a domain is registered for
    users,      \* the users table
    walls,      \* the deny rows of matter_access
    at,         \* where a browser's sign-in is
    person,     \* who signs in
    newcomer,   \* history: this person had no row when the sign-in began
    scope,      \* match.tenantId of the jwt callback
    dbUser,     \* id of the row the jwt callback found or inserted
    token,      \* the session cookie
    form,       \* a tenant submitted from a browser, past the check of who asks
    step,       \* where a browser's request is
    req         \* the request: what it read of the session, what it asks for

signin  == <<at, person, newcomer, scope, dbUser, token>>
request == <<step, req>>
tables  == <<registry, users, walls>>
vars    == <<tables, signin, form, request>>

Registrations == [tenant : Tenants, directory : Directories \union {None}]
Forms         == [tenant : Tenants, domain : Domains, directory : Directories \union {None}]
Users         == [tenant : Tenants, email : Persons]
Tokens        == [tenant : Tenants, user : UserIds]
Requests      == [tenant : Tenants, user : UserIds, matter : Matters,
                  by : Persons, barred : SUBSET UserIds]
Pages         == [account : UserIds, matter : Matters, shown : BOOLEAN]

ASSUME NoneAssumption ==
    None \notin Registrations \union Forms \union Users \union Tokens \union Requests
                    \union Pages \union Persons \union Tenants \union Directories \union UserIds

TypeOK ==
    /\ registry \in [Domains -> Registrations \union {None}]
    /\ users \in [UserIds -> Users \union {None}]
    /\ walls \subseteq UserIds \X Matters
    /\ at \in [Browsers -> {"out", "admitted", "scoped", "inserting", "found", "in"}]
    /\ person \in [Browsers -> Persons \union {None}]
    /\ newcomer \in [Browsers -> BOOLEAN]
    /\ scope \in [Browsers -> Tenants \union {None}]
    /\ dbUser \in [Browsers -> UserIds \union {None}]
    /\ token \in [Browsers -> Tokens \union {None}]
    /\ form \in [Browsers -> Forms \union {None}]
    /\ step \in [Browsers -> {"idle", "page", "found", "stage", "shown"}]
    /\ req \in [Browsers -> Requests \union {None}]

(* Operations put a first tenant and its domain, without a directory, into  *)
(* an empty database: /admin/tenants is for those who can sign in already.  *)
Init ==
    /\ registry = [d \in Domains |->
        IF d = FirstDomain THEN [tenant |-> FirstTenant, directory |-> None] ELSE None]
    /\ users = [u \in UserIds |-> None]
    /\ walls = {}
    /\ at = [b \in Browsers |-> "out"]
    /\ person = [b \in Browsers |-> None]
    /\ newcomer = [b \in Browsers |-> FALSE]
    /\ scope = [b \in Browsers |-> None]
    /\ dbUser = [b \in Browsers |-> None]
    /\ token = [b \in Browsers |-> None]
    /\ form = [b \in Browsers |-> None]
    /\ step = [b \in Browsers |-> "idle"]
    /\ req = [b \in Browsers |-> None]

RowsOf(p) == {u \in UserIds : users[u] # None /\ users[u].email = p}

(* findTenantForEmail *)
Match(p) == registry[DomainOf[p]]

-----------------------------------------------------------------------------
(* The signIn callback: the domain is registered, and when both the row and *)
(* the profile name a directory it is the same one; a Google profile names  *)
(* none and passes whatever the firm registered.  A refusal changes nothing.*)

SameDirectory(p) ==
    \/ Match(p).directory = None
    \/ DirectoryOf[p] = None
    \/ Match(p).directory = DirectoryOf[p]

(* Mutant: the directory is not compared. *)
AdmitFromAnywhere(b, p) ==
    /\ at[b] = "out"
    /\ Match(p) # None
    /\ at' = [at EXCEPT ![b] = "admitted"]
    /\ person' = [person EXCEPT ![b] = p]
    /\ newcomer' = [newcomer EXCEPT ![b] = RowsOf(p) = {}]
    /\ UNCHANGED <<tables, scope, dbUser, token, form, request>>

Admit(b, p) ==
    /\ at[b] = "out"
    /\ Match(p) # None
    /\ SameDirectory(p)
    /\ at' = [at EXCEPT ![b] = "admitted"]
    /\ person' = [person EXCEPT ![b] = p]
    /\ newcomer' = [newcomer EXCEPT ![b] = RowsOf(p) = {}]
    /\ UNCHANGED <<tables, scope, dbUser, token, form, request>>

(* The jwt callback looks the domain up again and opens withTenant() with   *)
(* what it finds.  It finds something: nothing in the program removes or    *)
(* changes a registration.                                                  *)
Scope(b) ==
    /\ at[b] = "admitted"
    /\ at' = [at EXCEPT ![b] = "scoped"]
    /\ scope' = [scope EXCEPT ![b] = Match(person[b]).tenant]
    /\ UNCHANGED <<tables, person, newcomer, dbUser, token, form, request>>

(* Mutant: the SELECT never finds the row. *)
ExistingNever(b) == {}

(* What the policy on users lets the SELECT by email see. *)
Existing(b) ==
    {u \in RowsOf(person[b]) : users[u].tenant = scope[b]}

(* The transaction hands its caller a row. *)
Return(b, u) ==
    /\ at' = [at EXCEPT ![b] = "found"]
    /\ newcomer' = [newcomer EXCEPT ![b] = FALSE]
    /\ dbUser' = [dbUser EXCEPT ![b] = u]

(* SELECT ... LIMIT 1, in no particular order. *)
FindUser(b) ==
    /\ at[b] = "scoped"
    /\ \E u \in Existing(b) : Return(b, u)
    /\ UNCHANGED <<tables, person, scope, token, form, request>>

FindNoUser(b) ==
    /\ at[b] = "scoped"
    /\ Existing(b) = {}
    /\ at' = [at EXCEPT ![b] = "inserting"]
    /\ UNCHANGED <<tables, person, newcomer, scope, dbUser, token, form, request>>

(* INSERT ... RETURNING, and COMMIT.  No constraint keeps (tenant_id, email) *)
(* unique.                                                                  *)
InsertUser(b) ==
    /\ at[b] = "inserting"
    /\ \E u \in UserIds :
        /\ users[u] = None
        /\ users' = [users EXCEPT ![u] = [tenant |-> scope[b], email |-> person[b]]]
        /\ Return(b, u)
    /\ UNCHANGED <<registry, walls, person, scope, token, form, request>>

(* token.tenantId = dbUser.tenantId; token.userId = dbUser.id; and the       *)
(* answer with the cookie reaches the browser.                              *)
Issue(b) ==
    /\ at[b] = "found"
    /\ token' = [token EXCEPT ![b] = [tenant |-> users[dbUser[b]].tenant, user |-> dbUser[b]]]
    /\ at' = [at EXCEPT ![b] = "in"]
    /\ dbUser' = [dbUser EXCEPT ![b] = None]
    /\ UNCHANGED <<tables, person, newcomer, scope, form, request>>

LeaveSession(b) ==
    /\ at' = [at EXCEPT ![b] = "out"]
    /\ person' = [person EXCEPT ![b] = None]
    /\ newcomer' = [newcomer EXCEPT ![b] = FALSE]
    /\ scope' = [scope EXCEPT ![b] = None]
    /\ dbUser' = [dbUser EXCEPT ![b] = None]
    /\ token' = [token EXCEPT ![b] = None]

(* The database fails or the portal restarts before the COMMIT, which rolls *)
(* back.  A page that is closed does not: nothing tells the callback.       *)
SignInFails(b) ==
    /\ at[b] \in {"admitted", "scoped", "inserting"}
    /\ LeaveSession(b)
    /\ UNCHANGED <<tables, form, request>>

(* After the COMMIT the portal restarts, or the answer reaches nobody: the  *)
(* page was closed, the connection lost.  The row stays.                    *)
SignInUnheard(b) ==
    /\ at[b] = "found"
    /\ LeaveSession(b)
    /\ UNCHANGED <<tables, form, request>>

(* signOut, or the cookie expires.  A request or a form under way goes on. *)
SignOut(b) ==
    /\ at[b] = "in"
    /\ LeaveSession(b)
    /\ UNCHANGED <<tables, form, request>>

-----------------------------------------------------------------------------
(* createTenant: who asks is checked first; later a tenant and its domain   *)
(* are inserted in one transaction, which a unique violation of slug or     *)
(* domain rolls back.                                                       *)

(* Mutant: isPlatformAdmin is not asked. *)
SubmitByAnyone(b, f) ==
    /\ at[b] = "in"
    /\ form[b] = None
    /\ form' = [form EXCEPT ![b] = f]
    /\ UNCHANGED <<tables, signin, request>>

SubmitTenant(b, f) ==
    /\ at[b] = "in"
    /\ person[b] \in PlatformAdmins
    /\ form[b] = None
    /\ form' = [form EXCEPT ![b] = f]
    /\ UNCHANGED <<tables, signin, request>>

Taken(t) == \E d \in Domains : registry[d] # None /\ registry[d].tenant = t

(* Mutant: tenant_sso_domains without its unique constraint. *)
DomainFreeOrNot(d) == TRUE

(* tenant_sso_domains_email_domain_unique *)
DomainFree(d) == registry[d] = None

CreateTenant(b) ==
    /\ form[b] # None
    /\ ~Taken(form[b].tenant)
    /\ DomainFree(form[b].domain)
    /\ registry' = [registry EXCEPT ![form[b].domain] =
            [tenant |-> form[b].tenant, directory |-> form[b].directory]]
    /\ form' = [form EXCEPT ![b] = None]
    /\ UNCHANGED <<users, walls, signin, request>>

(* A unique violation, or any other failure: both INSERTs are undone. *)
RefuseTenant(b) ==
    /\ form[b] # None
    /\ form' = [form EXCEPT ![b] = None]
    /\ UNCHANGED <<tables, signin, request>>

(* An operator denies a user a matter of the firm. *)
SetWall(u, m) ==
    /\ users[u] # None
    /\ users[u].tenant = TenantOf[m]
    /\ walls' = walls \union {<<u, m>>}
    /\ UNCHANGED <<registry, users, signin, form, request>>

-----------------------------------------------------------------------------
(* Requests.  requireSession() or getSession() reads the cookie; which of   *)
(* the person's rows are walled off then is noted for the properties.       *)

Open(b, m, route) ==
    /\ at[b] = "in"
    /\ step[b] \in {"idle", "shown"}
    /\ step' = [step EXCEPT ![b] = route]
    /\ req' = [req EXCEPT ![b] =
            [tenant |-> token[b].tenant, user |-> token[b].user,
             matter |-> m, by |-> person[b],
             barred |-> {u \in RowsOf(person[b]) : <<u, m>> \in walls}]]
    /\ UNCHANGED <<tables, signin, form>>

(* Mutant: a table without a policy. *)
MatterVisibleToAll(r) == TRUE

(* Policy tenant_isolation on matters. *)
MatterVisible(r) == TenantOf[r.matter] = r.tenant

(* Mutant: the wall is looked up for a user nobody set. *)
NotDeniedWithoutUser(r) == TRUE

(* Policy tenant_isolation on documents. *)
NotDenied(r) == <<r.user, r.matter>> \notin walls

Close(b) ==
    /\ step' = [step EXCEPT ![b] = "idle"]
    /\ req' = [req EXCEPT ![b] = None]

(* Rows, or "Matter not found.", "No documents yet." or 404. *)
Answer(b, visible, next) ==
    IF visible THEN step' = [step EXCEPT ![b] = next] /\ UNCHANGED req ELSE Close(b)

(* The matter page looks for the matter first. *)
FindMatter(b) ==
    /\ step[b] = "page"
    /\ Answer(b, MatterVisible(req[b]), "found")
    /\ UNCHANGED <<tables, signin, form>>

(* Then for its documents. *)
ListDocuments(b) ==
    /\ step[b] = "found"
    /\ Answer(b, MatterVisible(req[b]) /\ NotDenied(req[b]), "shown")
    /\ UNCHANGED <<tables, signin, form>>

(* The stage route joins documents and matters in one SELECT. *)
FindDocument(b) ==
    /\ step[b] = "stage"
    /\ Answer(b, MatterVisible(req[b]) /\ NotDenied(req[b]), "shown")
    /\ UNCHANGED <<tables, signin, form>>

(* The request fails, or the user leaves what it showed. *)
Leave(b) ==
    /\ step[b] # "idle"
    /\ Close(b)
    /\ UNCHANGED <<tables, signin, form>>

-----------------------------------------------------------------------------

SignInStep(b) ==
    \/ \E p \in Persons : Admit(b, p)
    \/ Scope(b) \/ FindUser(b) \/ FindNoUser(b) \/ InsertUser(b) \/ Issue(b)
    \/ SignInFails(b) \/ SignInUnheard(b) \/ SignOut(b)

TenantStep(b) ==
    \/ \E f \in Forms : SubmitTenant(b, f)
    \/ CreateTenant(b) \/ RefuseTenant(b)

RequestStep(b) ==
    \/ \E m \in Matters, route \in {"page", "stage"} : Open(b, m, route)
    \/ FindMatter(b) \/ ListDocuments(b) \/ FindDocument(b) \/ Leave(b)

Next ==
    \/ \E b \in Browsers : SignInStep(b) \/ TenantStep(b) \/ RequestStep(b)
    \/ \E u \in UserIds, m \in Matters : SetWall(u, m)

Spec == Init /\ [][Next]_vars

-----------------------------------------------------------------------------

(* Whose tenant a session is: the one the person's email domain was         *)
(* registered for; and its user is a row of that person in that tenant.     *)
(* Where both the registration and the profile name a directory it is the   *)
(* same one (auth.ts:86-87); a person who comes by way of a provider that   *)
(* names none may be in all the same.  The signIn callback compares, the    *)
(* jwt callback decides, tenants are registered in between, and the row may  *)
(* be that of another sign-in.                                              *)
SessionIsOwn ==
    \A b \in Browsers : at[b] = "in" =>
        /\ Match(person[b]) # None
        /\ SameDirectory(person[b])
        /\ token[b].tenant = Match(person[b]).tenant
        /\ users[token[b].user] = [tenant |-> token[b].tenant, email |-> person[b]]

(* What a page shows is of the tenant that is registered for the domain of  *)
(* the person who asked, whoever signs in or out of the browser meanwhile.  *)
ShownIsOwn ==
    \A b \in Browsers : step[b] = "shown" =>
        /\ Match(req[b].by) # None
        /\ TenantOf[req[b].matter] = Match(req[b].by).tenant

(* The policy on documents.  What is shown is shown to an account of the    *)
(* person who asked, and one that no wall kept from the matter when the      *)
(* request began.  A wall is on an account: of a person with several it     *)
(* keeps the one, and it keeps the person if it stands on all of them.      *)
WallsHold ==
    \A b \in Browsers : step[b] = "shown" =>
        req[b].user \in RowsOf(req[b].by) \ req[b].barred

(* A person gets another row only from a sign-in that began while there was *)
(* none: sign-ins that overlap with the first may add one each, a later one *)
(* never does.                                                              *)
OnlyNewcomersInsert ==
    [][\A u \in UserIds : users'[u] # users[u] =>
        /\ users[u] = None
        /\ \E b \in Browsers : newcomer[b] /\ person[b] = users'[u].email]_vars

(* Of all this FirmAccess knows a session by its account, and a page by its *)
(* request.  A row of users is an account, with a session or without.       *)
Access == INSTANCE FirmAccess WITH
    firm <- registry, account <- users, Accounts <- UserIds,
    session <- [b \in Browsers |-> IF at[b] = "in" THEN token[b].user ELSE None],
    page <- [b \in Browsers |->
        IF step[b] = "idle" THEN None
        ELSE [account |-> req[b].user, matter |-> req[b].matter,
              shown |-> step[b] = "shown"]]

(* Two lookups of the domain, a SELECT and an INSERT, an answer that may be *)
(* lost, a tenant and a user copied into a cookie and from it into each      *)
(* request, and two queries under two policies come to what FirmAccess       *)
(* promises: accounts only for those the firm's registration lets in,       *)
(* sessions only of one's own account, and documents that are the firm's,   *)
(* and not walled off, when they are shown.                                 *)
ImplementsAccess == Access!Spec

-----------------------------------------------------------------------------
(* The inductive invariant.                                                 *)

(* A sign-in beyond the signIn callback is of somebody who was admitted.    *)
SignInInv ==
    \A b \in Browsers :
        /\ at[b] # "out" =>
            person[b] # None /\ Match(person[b]) # None /\ SameDirectory(person[b])
        /\ at[b] \in {"scoped", "inserting", "found", "in"} =>
            scope[b] = Match(person[b]).tenant
        /\ at[b] = "found" =>
            /\ dbUser[b] # None
            /\ users[dbUser[b]] = [tenant |-> scope[b], email |-> person[b]]
        /\ at[b] = "in" => token[b] # None

(* A row is in the tenant of its person's domain. *)
RowInv ==
    \A u \in UserIds : users[u] # None =>
        /\ Match(users[u].email) # None
        /\ users[u].tenant = Match(users[u].email).tenant

(* Who had a row when the sign-in began has one now, and the SELECT finds it. *)
NewcomerInv ==
    \A b \in Browsers :
        /\ at[b] # "out" /\ ~newcomer[b] => RowsOf(person[b]) # {}
        /\ at[b] = "inserting" => newcomer[b]

(* A request runs with a tenant and a user of the person who made it.       *)
RequestInv ==
    \A b \in Browsers : step[b] # "idle" =>
        /\ req[b] # None
        /\ Match(req[b].by) # None
        /\ users[req[b].user] = [tenant |-> req[b].tenant, email |-> req[b].by]
        /\ req[b].barred \subseteq RowsOf(req[b].by)
        /\ \A u \in req[b].barred : <<u, req[b].matter>> \in walls
        /\ step[b] = "found" => MatterVisible(req[b])
        /\ step[b] = "shown" => MatterVisible(req[b]) /\ req[b].user \notin req[b].barred

Inv == TypeOK /\ SignInInv /\ RowInv /\ NewcomerInv /\ RequestInv /\ SessionIsOwn
=============================================================================
