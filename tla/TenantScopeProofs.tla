-------------------------- MODULE TenantScopeProofs --------------------------
(***************************************************************************)
(* Proofs about TenantScope, for every number of tenants, people, browsers  *)
(* and matters.  Registrations, rows of users and walls are only ever       *)
(* added, which keeps what a sign-in or a request once read true; the rest  *)
(* of the argument is that every row is in the tenant of its person's       *)
(* domain, and that the SELECT by email finds every row of the person.      *)
(***************************************************************************)
EXTENDS TenantScope, TLAPS

USE PeopleAssumption, NoneAssumption

LEMMA InvInit == Init => Inv
<1> SUFFICES ASSUME Init
             PROVE  Inv
    OBVIOUS
<1>1. TypeOK
    BY DEF Init, TypeOK, Registrations
<1>2. SignInInv /\ RowInv /\ NewcomerInv /\ RequestInv /\ SessionIsOwn
    BY DEF Init, SignInInv, RowInv, NewcomerInv, RequestInv, SessionIsOwn
<1> QED  BY <1>1, <1>2 DEF Inv

-----------------------------------------------------------------------------
(* What a step leaves alone.                                                *)

LEMMA SignInFrame ==
    ASSUME NEW b \in Browsers, SignInStep(b)
    PROVE  UNCHANGED <<registry, walls, form, step, req>>
    BY DEF SignInStep, Admit, Scope, FindUser, FindNoUser, InsertUser, Issue, SignInFails,
       SignInUnheard, SignOut, tables, request

LEMMA TenantFrame ==
    ASSUME NEW b \in Browsers, TenantStep(b)
    PROVE  UNCHANGED <<users, walls, signin, request>>
    BY DEF TenantStep, SubmitTenant, CreateTenant, RefuseTenant, tables

LEMMA RequestFrame ==
    ASSUME NEW b \in Browsers, RequestStep(b)
    PROVE  UNCHANGED <<tables, signin, form>>
    BY DEF RequestStep, Open, FindMatter, ListDocuments, FindDocument, Leave

LEMMA WallFrame ==
    ASSUME NEW u \in UserIds, NEW m \in Matters, SetWall(u, m)
    PROVE  UNCHANGED <<registry, users, signin, form, request>>
    BY DEF SetWall

(* A step is of one sign-in, of one request, or of neither. *)
LEMMA Kinds ==
    ASSUME [Next]_vars
    PROVE  /\ (\E b \in Browsers : SignInStep(b)) \/ UNCHANGED <<users, signin>>
           /\ (\E b \in Browsers : RequestStep(b)) \/ UNCHANGED request
    BY SignInFrame, TenantFrame, RequestFrame, WallFrame DEF Next, vars, tables, signin, request

(* The sign-ins at other browsers are where they were. *)
LEMMA OtherSignIns ==
    ASSUME TypeOK, NEW b \in Browsers, SignInStep(b), NEW c \in Browsers, c # b
    PROVE  /\ at'[c] = at[c] /\ person'[c] = person[c] /\ newcomer'[c] = newcomer[c]
           /\ scope'[c] = scope[c] /\ dbUser'[c] = dbUser[c] /\ token'[c] = token[c]
<1>1. CASE (\E p \in Persons : Admit(b, p)) \/ Scope(b) \/ FindNoUser(b)
    BY <1>1 DEF Admit, Scope, FindNoUser, TypeOK
<1>2. CASE FindUser(b) \/ InsertUser(b) \/ Issue(b)
    BY <1>2 DEF FindUser, InsertUser, Issue, Return, TypeOK
<1>3. CASE SignInFails(b) \/ SignInUnheard(b) \/ SignOut(b)
    BY <1>3 DEF SignInFails, SignInUnheard, SignOut, LeaveSession, TypeOK
<1> QED  BY <1>1, <1>2, <1>3 DEF SignInStep

(* Rows of users are inserted by sign-ins and by nothing else. *)
LEMMA UsersChange ==
    ASSUME [Next]_vars
    PROVE  UNCHANGED users \/ \E b \in Browsers : InsertUser(b)
<1>1. ASSUME NEW b \in Browsers, SignInStep(b)
      PROVE  UNCHANGED users \/ InsertUser(b)
    BY <1>1 DEF SignInStep, Admit, Scope, FindUser, FindNoUser, Issue, SignInFails,
       SignInUnheard, SignOut, tables
<1> QED  BY <1>1, Kinds

(* A registration, a row of users and a wall stay what they are. *)
LEMMA TablesGrow ==
    ASSUME TypeOK, [Next]_vars
    PROVE  /\ \A d \in Domains : registry[d] # None => registry'[d] = registry[d]
           /\ \A u \in UserIds : users[u] # None => users'[u] = users[u]
           /\ walls \subseteq walls'
<1>1. ASSUME NEW b \in Browsers, TenantStep(b)
      PROVE  \A d \in Domains : registry[d] # None => registry'[d] = registry[d]
    BY <1>1 DEF TenantStep, SubmitTenant, CreateTenant, RefuseTenant, DomainFree, tables, TypeOK
<1>2. \A u \in UserIds : users[u] # None => users'[u] = users[u]
    BY UsersChange DEF InsertUser, TypeOK
<1>3. \A u \in UserIds, m \in Matters : SetWall(u, m) => walls \subseteq walls'
    BY DEF SetWall
<1> QED
    BY <1>1, <1>2, <1>3, SignInFrame, TenantFrame, RequestFrame, WallFrame
       DEF Next, vars, tables

(* What was read of the tables stays true. *)
LEMMA ReadsStand ==
    ASSUME TypeOK, [Next]_vars
    PROVE  /\ \A p \in Persons : Match(p) # None =>
                /\ Match(p)' = Match(p)
                /\ SameDirectory(p) => SameDirectory(p)'
           /\ \A p \in Persons : RowsOf(p) \subseteq RowsOf(p)'
<1>1. ASSUME NEW p \in Persons, Match(p) # None
      PROVE  Match(p)' = Match(p)
    BY <1>1, TablesGrow DEF Match
<1>2. ASSUME NEW p \in Persons, Match(p) # None, SameDirectory(p)
      PROVE  SameDirectory(p)'
    BY <1>2, <1>1 DEF SameDirectory
<1>3. ASSUME NEW p \in Persons
      PROVE  RowsOf(p) \subseteq RowsOf(p)'
    BY TablesGrow DEF RowsOf
<1> QED  BY <1>1, <1>2, <1>3

(* What a sign-in was told by the tables is a tenant, and a row of it. *)
LEMMA SignInReads ==
    ASSUME Inv, NEW b \in Browsers, at[b] # "out"
    PROVE  /\ person[b] \in Persons
           /\ Match(person[b]) \in Registrations
           /\ Match(person[b]).tenant \in Tenants
           /\ at[b] \in {"scoped", "inserting", "found", "in"} => scope[b] \in Tenants
           /\ at[b] = "found" => dbUser[b] \in UserIds /\ users[dbUser[b]] \in Users
<1>0. person[b] # None /\ Match(person[b]) # None
    BY DEF Inv, SignInInv
<1>1. person[b] \in Persons
  <2>1. person[b] \in Persons \union {None}
      BY DEF Inv, TypeOK
  <2> QED  BY <2>1, <1>0
<1>1a. Match(person[b]) \in Registrations
  <2>1. registry[DomainOf[person[b]]] \in Registrations \union {None}
      BY <1>1, PeopleAssumption DEF Inv, TypeOK
  <2> QED  BY <2>1, <1>0 DEF Match
<1>2. Match(person[b]).tenant \in Tenants
    BY <1>1a DEF Registrations
<1>3. at[b] \in {"scoped", "inserting", "found", "in"} => scope[b] \in Tenants
    BY <1>2 DEF Inv, SignInInv
<1>4. ASSUME at[b] = "found"
      PROVE  dbUser[b] \in UserIds /\ users[dbUser[b]] \in Users
  <2>1. [tenant |-> scope[b], email |-> person[b]] \in Users
      BY <1>1, <1>3, <1>4 DEF Users
  <2>2. dbUser[b] \in UserIds
    <3>1. dbUser[b] # None
        BY <1>4 DEF Inv, SignInInv
    <3>2. dbUser[b] \in UserIds \union {None}
        BY DEF Inv, TypeOK
    <3> QED  BY <3>1, <3>2
  <2> QED  BY <1>4, <2>1, <2>2 DEF Inv, SignInInv
<1> QED  BY <1>1, <1>1a, <1>2, <1>3, <1>4

(* The token of a session is one. *)
LEMMA TokenTyped ==
    ASSUME Inv, NEW b \in Browsers, at[b] = "in"
    PROVE  token[b] \in Tokens
<1>1. token[b] # None
    BY DEF Inv, SignInInv
<1>2. token[b] \in Tokens \union {None}
    BY DEF Inv, TypeOK
<1> QED  BY <1>1, <1>2

-----------------------------------------------------------------------------
(* The invariant, conjunct by conjunct.                                     *)

(* Every step keeps the types. *)
LEMMA TypeStep == Inv /\ [Next]_vars => TypeOK'
<1> SUFFICES ASSUME Inv, [Next]_vars
             PROVE  TypeOK'
    OBVIOUS
<1>0. TypeOK
    BY DEF Inv
<1>1. ASSUME NEW b \in Browsers, NEW p \in Persons, Admit(b, p)
      PROVE  TypeOK'
    BY <1>0, <1>1 DEF Admit, request, tables, TypeOK
<1>2. ASSUME NEW b \in Browsers, Scope(b)
      PROVE  TypeOK'
    BY <1>0, <1>2, SignInReads DEF Scope, request, tables, TypeOK
<1>3. ASSUME NEW b \in Browsers, FindUser(b) \/ FindNoUser(b)
      PROVE  TypeOK'
  <2>1. CASE FindUser(b)
    <3>1. PICK u \in UserIds : Return(b, u)
        BY <2>1 DEF FindUser, Existing, RowsOf
    <3> QED  BY <1>0, <2>1, <3>1 DEF FindUser, Return, request, tables, TypeOK
  <2>2. CASE FindNoUser(b)
      BY <1>0, <2>2 DEF FindNoUser, request, tables, TypeOK
  <2> QED  BY <1>3, <2>1, <2>2
<1>4. ASSUME NEW b \in Browsers, InsertUser(b)
      PROVE  TypeOK'
    BY <1>0, <1>4, SignInReads DEF InsertUser, Return, request, Users, TypeOK
<1>5. ASSUME NEW b \in Browsers, Issue(b)
      PROVE  TypeOK'
  <2>1. [tenant |-> users[dbUser[b]].tenant, user |-> dbUser[b]] \in Tokens
      BY <1>5, SignInReads DEF Issue, Users, Tokens
  <2> QED  BY <1>0, <1>5, <2>1 DEF Issue, request, tables, TypeOK
<1>6. ASSUME NEW b \in Browsers, SignInFails(b) \/ SignInUnheard(b) \/ SignOut(b)
      PROVE  TypeOK'
    BY <1>0, <1>6 DEF SignInFails, SignInUnheard, SignOut, LeaveSession, request, tables, TypeOK
<1>7. ASSUME NEW b \in Browsers, NEW f \in Forms, SubmitTenant(b, f)
      PROVE  TypeOK'
    BY <1>0, <1>7 DEF SubmitTenant, signin, request, tables, TypeOK
<1>8. ASSUME NEW b \in Browsers, CreateTenant(b)
      PROVE  TypeOK'
  <2>1. form[b] \in Forms
      BY <1>0, <1>8 DEF CreateTenant, TypeOK
  <2>2. [tenant |-> form[b].tenant, directory |-> form[b].directory] \in Registrations
      BY <2>1 DEF Forms, Registrations
  <2> QED  BY <1>0, <1>8, <2>2 DEF CreateTenant, signin, request, TypeOK
<1>9. ASSUME NEW b \in Browsers, RefuseTenant(b)
      PROVE  TypeOK'
    BY <1>0, <1>9 DEF RefuseTenant, signin, request, tables, TypeOK
<1>10. ASSUME NEW b \in Browsers, NEW m \in Matters, NEW route \in {"page", "stage"},
              Open(b, m, route)
       PROVE  TypeOK'
    BY <1>0, <1>10 DEF Open, signin, tables, Requests, Tokens, Inv, SignInInv, RowsOf, TypeOK
<1>11. ASSUME NEW b \in Browsers,
              FindMatter(b) \/ ListDocuments(b) \/ FindDocument(b) \/ Leave(b)
       PROVE  TypeOK'
    BY <1>0, <1>11 DEF FindMatter, ListDocuments, FindDocument, Leave, Answer, Close, signin,
       tables, TypeOK
<1>12. ASSUME NEW u \in UserIds, NEW m \in Matters, SetWall(u, m)
       PROVE  TypeOK'
    BY <1>0, <1>12 DEF SetWall, signin, request, TypeOK
<1>13. CASE UNCHANGED vars
    BY <1>0, <1>13 DEF vars, tables, signin, request, TypeOK
<1> QED
    BY <1>1, <1>2, <1>3, <1>4, <1>5, <1>6, <1>7, <1>8, <1>9, <1>10, <1>11, <1>12, <1>13
       DEF Next, SignInStep, TenantStep, RequestStep

(* A row is inserted into the tenant of its person. *)
LEMMA RowStep == Inv /\ [Next]_vars => RowInv'
<1> SUFFICES ASSUME Inv, [Next]_vars
             PROVE  RowInv'
    OBVIOUS
<1>1. CASE UNCHANGED users
    BY <1>1, ReadsStand DEF Inv, RowInv, TypeOK, Users
<1>2. ASSUME NEW b \in Browsers, InsertUser(b)
      PROVE  RowInv'
  <2>1. /\ at[b] = "inserting"
        /\ Match(person[b]) # None /\ scope[b] = Match(person[b]).tenant
        /\ person[b] \in Persons
      BY <1>2, SignInReads DEF InsertUser, Inv, SignInInv
  <2>2. PICK u \in UserIds :
            users' = [users EXCEPT ![u] = [tenant |-> scope[b], email |-> person[b]]]
      BY <1>2 DEF InsertUser
  <2> QED
      BY <2>1, <2>2, ReadsStand DEF Inv, RowInv, TypeOK, Users
<1> QED  BY <1>1, <1>2, UsersChange

(* Whoever was admitted still would be; the row found is still there. *)
LEMMA SignInInvStep == Inv /\ [Next]_vars => SignInInv'
<1> SUFFICES ASSUME Inv, [Next]_vars
             PROVE  SignInInv'
    OBVIOUS
<1> DEFINE Ok(c) ==
        /\ at[c] # "out" =>
            person[c] # None /\ Match(person[c]) # None /\ SameDirectory(person[c])
        /\ at[c] \in {"scoped", "inserting", "found", "in"} =>
            scope[c] = Match(person[c]).tenant
        /\ at[c] = "found" =>
            /\ dbUser[c] # None
            /\ users[dbUser[c]] = [tenant |-> scope[c], email |-> person[c]]
        /\ at[c] = "in" => token[c] # None
<1>1. \A c \in Browsers : Ok(c)
    BY DEF Inv, SignInInv
<1>2. ASSUME NEW c \in Browsers,
             at'[c] = at[c], person'[c] = person[c], scope'[c] = scope[c],
             dbUser'[c] = dbUser[c], token'[c] = token[c]
      PROVE  Ok(c)'
  <2>1. CASE at[c] = "out"
      BY <1>2, <2>1
  <2>2. CASE at[c] # "out"
    <3>1. /\ Match(person[c]) # None
          /\ registry'[DomainOf[person[c]]] = registry[DomainOf[person[c]]]
        BY <1>1, <2>2, SignInReads, TablesGrow DEF Inv, Match
    <3>2. at[c] = "found" => users'[dbUser[c]] = users[dbUser[c]]
        BY <2>2, SignInReads, TablesGrow DEF Inv
    <3> QED  BY <1>1, <1>2, <2>2, <3>1, <3>2 DEF Match, SameDirectory
  <2> QED  BY <2>1, <2>2
<1>3. ASSUME NEW b \in Browsers, SignInStep(b)
      PROVE  Ok(b)'
  <2>1. CASE \E p \in Persons : Admit(b, p)
      BY <2>1 DEF Admit, tables, Inv, TypeOK, Match, SameDirectory
  <2>2. CASE Scope(b)
      BY <1>1, <2>2 DEF Scope, tables, Inv, TypeOK, Match, SameDirectory
  <2>3. CASE FindUser(b)
    <3>1. PICK u \in Existing(b) : Return(b, u)
        BY <2>3 DEF FindUser
    <3>2. /\ u \in UserIds /\ users[u] \in Users
          /\ users[u].tenant = scope[b] /\ users[u].email = person[b]
        BY <3>1 DEF Existing, RowsOf, Inv, TypeOK
    <3>3. users[u] = [tenant |-> scope[b], email |-> person[b]] /\ u # None
        BY <3>2 DEF Users
    <3> QED
        BY <1>1, <2>3, <3>1, <3>3
           DEF FindUser, Return, tables, Inv, TypeOK, Match, SameDirectory
  <2>4. CASE FindNoUser(b)
      BY <1>1, <2>4 DEF FindNoUser, tables, Inv, TypeOK, Match, SameDirectory
  <2>5. CASE InsertUser(b)
    <3>1. PICK u \in UserIds :
            /\ users' = [users EXCEPT ![u] = [tenant |-> scope[b], email |-> person[b]]]
            /\ Return(b, u)
        BY <2>5 DEF InsertUser
    <3> QED
        BY <1>1, <2>5, <3>1 DEF InsertUser, Return, Inv, TypeOK, Match, SameDirectory
  <2>6. CASE Issue(b)
    <3>1. [tenant |-> users[dbUser[b]].tenant, user |-> dbUser[b]] \in Tokens
        BY <2>6, SignInReads DEF Issue, Users, Tokens
    <3> QED
        BY <1>1, <2>6, <3>1 DEF Issue, tables, Inv, TypeOK, Match, SameDirectory
  <2>7. CASE SignInFails(b) \/ SignInUnheard(b) \/ SignOut(b)
      BY <2>7 DEF SignInFails, SignInUnheard, SignOut, LeaveSession, Inv, TypeOK
  <2> QED  BY <1>3, <2>1, <2>2, <2>3, <2>4, <2>5, <2>6, <2>7 DEF SignInStep
<1>4. ASSUME NEW c \in Browsers
      PROVE  Ok(c)'
  <2>1. CASE UNCHANGED signin
      BY <1>2, <2>1 DEF signin
  <2>2. ASSUME NEW b \in Browsers, SignInStep(b)
        PROVE  Ok(c)'
      BY <1>2, <1>3, <2>2, OtherSignIns DEF Inv
  <2> QED  BY <2>1, <2>2, Kinds
<1> QED  BY <1>4 DEF SignInInv

(* Whoever had a row finds it. *)
LEMMA NewcomerStep == Inv /\ [Next]_vars => NewcomerInv'
<1> SUFFICES ASSUME Inv, [Next]_vars
             PROVE  NewcomerInv'
    OBVIOUS
<1> DEFINE Ok(c) ==
        /\ at[c] # "out" /\ ~newcomer[c] => RowsOf(person[c]) # {}
        /\ at[c] = "inserting" => newcomer[c]
<1>1. \A c \in Browsers : Ok(c)
    BY DEF Inv, NewcomerInv
<1>2. ASSUME NEW c \in Browsers, at[c] # "out" \/ at'[c] = "out",
             at'[c] \in {at[c], "scoped", "out", "in"},
             newcomer'[c] = newcomer[c], person'[c] = person[c] \/ at'[c] = "out"
      PROVE  Ok(c)'
    BY <1>1, <1>2, TablesGrow DEF Inv, RowsOf
<1>3. ASSUME NEW b \in Browsers, SignInStep(b)
      PROVE  Ok(b)'
  <2>1. ASSUME NEW p \in Persons, Admit(b, p)
        PROVE  Ok(b)'
    <3>1. at'[b] = "admitted" /\ person'[b] = p /\ newcomer'[b] = (RowsOf(p) = {})
        BY <2>1 DEF Admit, Inv, TypeOK
    <3>2. UNCHANGED users
        BY <2>1 DEF Admit, tables
    <3> QED  BY <3>1, <3>2 DEF RowsOf
  <2>2. CASE Scope(b) \/ Issue(b)
      BY <1>2, <2>2 DEF Scope, Issue, Inv, TypeOK
  <2>3. ASSUME NEW u \in UserIds, at[b] \in {"scoped", "inserting"}, Return(b, u),
               UNCHANGED person, users'[u] # None, users'[u].email = person[b]
        PROVE  Ok(b)'
    <3>1. at'[b] = "found" /\ person'[b] = person[b]
        BY <2>3 DEF Return, Inv, TypeOK
    <3>2. u \in {v \in UserIds : users'[v] # None /\ users'[v].email = person'[b]}
        BY <2>3, <3>1
    <3> QED  BY <3>1, <3>2 DEF RowsOf
  <2>4. CASE FindUser(b)
      BY <2>3, <2>4 DEF FindUser, Existing, RowsOf, tables
  <2>5. CASE InsertUser(b)
    <3>1. person[b] \in Persons /\ scope[b] \in Tenants
        BY <2>5, SignInReads DEF InsertUser
    <3>2. PICK u \in UserIds :
            /\ users' = [users EXCEPT ![u] = [tenant |-> scope[b], email |-> person[b]]]
            /\ Return(b, u)
        BY <2>5 DEF InsertUser
    <3>3. users'[u] = [tenant |-> scope[b], email |-> person[b]]
        BY <3>2 DEF Inv, TypeOK
    <3>4. users'[u] # None
        BY <3>1, <3>3 DEF Users
    <3> QED  BY <2>3, <2>5, <3>2, <3>3, <3>4 DEF InsertUser
  <2>6. CASE FindNoUser(b)
    <3>1. Existing(b) = {} /\ at[b] = "scoped" /\ UNCHANGED <<users, newcomer, person>>
        BY <2>6 DEF FindNoUser, tables
    <3>2. RowsOf(person[b]) = {}
      <4>1. scope[b] = Match(person[b]).tenant
          BY <3>1 DEF Inv, SignInInv
      <4>2. ASSUME NEW u \in RowsOf(person[b])
            PROVE  users[u].tenant = scope[b]
          BY <4>1 DEF RowsOf, Inv, RowInv
      <4> QED  BY <3>1, <4>2 DEF Existing
    <3>3. newcomer[b] = TRUE
        BY <1>1, <3>1, <3>2 DEF Inv, TypeOK
    <3> QED  BY <3>1, <3>3
  <2>7. CASE SignInFails(b) \/ SignInUnheard(b) \/ SignOut(b)
      BY <2>7 DEF SignInFails, SignInUnheard, SignOut, LeaveSession, Inv, TypeOK
  <2> QED  BY <1>3, <2>1, <2>2, <2>4, <2>5, <2>6, <2>7 DEF SignInStep
<1>4. ASSUME NEW c \in Browsers
      PROVE  Ok(c)'
  <2>1. CASE UNCHANGED <<users, signin>>
      BY <1>1, <2>1 DEF signin, RowsOf
  <2>2. ASSUME NEW b \in Browsers, SignInStep(b), c # b
        PROVE  Ok(c)'
    <3>1. at'[c] = at[c] /\ person'[c] = person[c] /\ newcomer'[c] = newcomer[c]
        BY <2>2, OtherSignIns DEF Inv
    <3> QED  BY <1>1, <3>1, TablesGrow DEF Inv, RowsOf
  <2> QED  BY <1>3, <2>1, <2>2, Kinds
<1> QED  BY <1>4 DEF NewcomerInv

(* A session is, and stays, its person's own. *)
LEMMA SessionStep == Inv /\ [Next]_vars => SessionIsOwn'
<1> SUFFICES ASSUME Inv, [Next]_vars
             PROVE  SessionIsOwn'
    OBVIOUS
<1> DEFINE Ok(c) == at[c] = "in" =>
        /\ Match(person[c]) # None
        /\ SameDirectory(person[c])
        /\ token[c].tenant = Match(person[c]).tenant
        /\ users[token[c].user] = [tenant |-> token[c].tenant, email |-> person[c]]
<1>1. \A c \in Browsers : Ok(c)
    BY DEF Inv, SessionIsOwn
<1>2. ASSUME NEW c \in Browsers, at'[c] = at[c], person'[c] = person[c], token'[c] = token[c]
      PROVE  Ok(c)'
  <2> SUFFICES ASSUME at[c] = "in"
               PROVE  Ok(c)'
      BY <1>2
  <2>0. Match(person[c]) # None /\ person[c] \in Persons
      BY SignInReads DEF Inv, SignInInv
  <2>1. /\ Match(person[c]) # None /\ person[c] \in Persons
        /\ registry'[DomainOf[person[c]]] = registry[DomainOf[person[c]]]
      BY <2>0, TablesGrow DEF Inv, Match
  <2>2. token[c] \in Tokens
      BY TokenTyped
  <2>3. /\ token[c].user \in UserIds
        /\ [tenant |-> token[c].tenant, email |-> person[c]] \in Users
      BY <2>1, <2>2 DEF Tokens, Users
  <2>4. users'[token[c].user] = users[token[c].user]
      BY <1>1, <2>3, TablesGrow DEF Inv
  <2> QED  BY <1>1, <1>2, <2>1, <2>4 DEF Match, SameDirectory
<1>3. ASSUME NEW b \in Browsers, SignInStep(b)
      PROVE  Ok(b)'
  <2>1. CASE Issue(b)
    <3>1. /\ Match(person[b]) # None /\ SameDirectory(person[b])
          /\ scope[b] = Match(person[b]).tenant
          /\ users[dbUser[b]] = [tenant |-> scope[b], email |-> person[b]]
        BY <2>1 DEF Issue, Inv, SignInInv
    <3>2. /\ token'[b] = [tenant |-> users[dbUser[b]].tenant, user |-> dbUser[b]]
          /\ UNCHANGED <<registry, users, person>>
        BY <2>1 DEF Issue, tables, Inv, TypeOK
    <3>3. token'[b].tenant = scope[b] /\ token'[b].user = dbUser[b]
        BY <3>1, <3>2
    <3> QED  BY <3>1, <3>2, <3>3 DEF Match, SameDirectory
  <2>2. CASE ~Issue(b)
    <3>1. at'[b] # "in"
        BY <1>3, <2>2 DEF SignInStep, Admit, Scope, FindUser, FindNoUser, InsertUser, Return,
           SignInFails, SignInUnheard, SignOut, LeaveSession, Inv, TypeOK
    <3> QED  BY <3>1
  <2> QED  BY <2>1, <2>2
<1>4. ASSUME NEW c \in Browsers
      PROVE  Ok(c)'
  <2>1. CASE UNCHANGED signin
      BY <1>2, <2>1 DEF signin
  <2>2. ASSUME NEW b \in Browsers, SignInStep(b), c # b
        PROVE  Ok(c)'
      BY <1>2, <2>2, OtherSignIns DEF Inv
  <2> QED  BY <1>3, <2>1, <2>2, Kinds
<1> QED  BY <1>4 DEF SessionIsOwn

(* A request is shown what its own tenant and user may see. *)
LEMMA RequestInvStep == Inv /\ [Next]_vars => RequestInv'
<1> SUFFICES ASSUME Inv, [Next]_vars
             PROVE  RequestInv'
    OBVIOUS
<1> DEFINE Sound(r) ==
        /\ r # None
        /\ Match(r.by) # None
        /\ users[r.user] = [tenant |-> r.tenant, email |-> r.by]
        /\ r.barred \subseteq RowsOf(r.by)
        /\ \A u \in r.barred : <<u, r.matter>> \in walls
<1> DEFINE Passed(c) ==
        /\ step[c] = "found" => MatterVisible(req[c])
        /\ step[c] = "shown" => MatterVisible(req[c]) /\ req[c].user \notin req[c].barred
<1>1. \A c \in Browsers : step[c] # "idle" => Sound(req[c]) /\ Passed(c)
    BY DEF Inv, RequestInv
<1>2. ASSUME NEW r \in Requests, Sound(r)
      PROVE  Sound(r)'
  <2>1. r.user \in UserIds /\ [tenant |-> r.tenant, email |-> r.by] \in Users
      BY DEF Requests, Users
  <2>2. users'[r.user] = users[r.user]
      BY <1>2, <2>1, TablesGrow DEF Inv
  <2>3. r.by \in Persons
      BY DEF Requests
  <2> QED  BY <1>2, <2>2, <2>3, ReadsStand, TablesGrow DEF Inv
<1>3. ASSUME NEW c \in Browsers, step[c] # "idle"
      PROVE  req[c] \in Requests
    BY <1>1, <1>3 DEF Inv, TypeOK
<1>4. ASSUME NEW c \in Browsers, step'[c] = step[c], req'[c] = req[c], step[c] # "idle"
      PROVE  Sound(req[c])' /\ Passed(c)'
    BY <1>1, <1>2, <1>3, <1>4 DEF MatterVisible, Match, RowsOf
<1>5. ASSUME NEW b \in Browsers, RequestStep(b), step'[b] # "idle"
      PROVE  Sound(req[b])' /\ Passed(b)'
  <2>0. UNCHANGED <<registry, users, walls>>
      BY <1>5, RequestFrame DEF tables
  <2>1. ASSUME NEW m \in Matters, NEW route \in {"page", "stage"}, Open(b, m, route)
        PROVE  Sound(req[b])' /\ Passed(b)'
    <3> DEFINE r == [tenant |-> token[b].tenant, user |-> token[b].user,
                     matter |-> m, by |-> person[b],
                     barred |-> {u \in RowsOf(person[b]) : <<u, m>> \in walls}]
    <3>1. req'[b] = r /\ step'[b] \in {"page", "stage"} /\ at[b] = "in"
        BY <2>1 DEF Open, Inv, TypeOK
    <3>2. /\ Match(person[b]) # None
          /\ users[token[b].user] = [tenant |-> token[b].tenant, email |-> person[b]]
        BY <3>1 DEF Inv, SessionIsOwn
    <3>3. r \in Requests
      <4>1. token[b] \in Tokens /\ person[b] \in Persons
          BY <3>1, TokenTyped, SignInReads
      <4>2. {u \in RowsOf(person[b]) : <<u, m>> \in walls} \in SUBSET UserIds
          BY DEF RowsOf
      <4> QED  BY <4>1, <4>2 DEF Tokens, Requests
    <3>4. r # None
        BY <3>3
    <3>5. Sound(r)
        BY <3>2, <3>4
    <3> QED  BY <2>0, <3>1, <3>5 DEF Match, RowsOf
  <2>2. ASSUME step[b] # "idle", UNCHANGED req,
               step'[b] = "found" => MatterVisible(req[b]),
               step'[b] = "shown" => MatterVisible(req[b]) /\ NotDenied(req[b])
        PROVE  Sound(req[b])' /\ Passed(b)'
    <3>1. Sound(req[b])
        BY <1>1, <2>2
    <3>2. NotDenied(req[b]) => req[b].user \notin req[b].barred
        BY <3>1 DEF NotDenied
    <3> QED  BY <2>0, <2>2, <3>1, <3>2 DEF MatterVisible, Match, RowsOf
  <2>3. CASE FindMatter(b) \/ ListDocuments(b) \/ FindDocument(b)
    <3>1. /\ step[b] # "idle" /\ UNCHANGED req
          /\ step'[b] = "found" => MatterVisible(req[b])
          /\ step'[b] = "shown" => MatterVisible(req[b]) /\ NotDenied(req[b])
        BY <1>5, <2>3 DEF FindMatter, ListDocuments, FindDocument, Answer, Close, Inv, TypeOK
    <3> QED  BY <2>2, <3>1
  <2>4. CASE Leave(b)
      BY <1>5, <2>4 DEF Leave, Close, Inv, TypeOK
  <2> QED  BY <1>5, <2>1, <2>3, <2>4 DEF RequestStep
<1>6. ASSUME NEW b \in Browsers, RequestStep(b), NEW c \in Browsers, c # b
      PROVE  step'[c] = step[c] /\ req'[c] = req[c]
    BY <1>6 DEF RequestStep, Open, FindMatter, ListDocuments, FindDocument, Leave, Answer,
       Close, Inv, TypeOK
<1>7. ASSUME NEW c \in Browsers, step'[c] # "idle"
      PROVE  Sound(req[c])' /\ Passed(c)'
  <2>1. CASE UNCHANGED request
      BY <1>4, <1>7, <2>1 DEF request
  <2>2. ASSUME NEW b \in Browsers, RequestStep(b)
        PROVE  Sound(req[c])' /\ Passed(c)'
      BY <1>4, <1>5, <1>6, <1>7, <2>2
  <2> QED  BY <2>1, <2>2, Kinds
<1> QED  BY <1>7 DEF RequestInv

(* Every step of sign-ins, requests and operators preserves the invariant.  *)
LEMMA InvStep == Inv /\ [Next]_vars => Inv'
<1> SUFFICES ASSUME Inv, [Next]_vars
             PROVE  Inv'
    OBVIOUS
<1> QED
    BY TypeStep, RowStep, SignInInvStep, NewcomerStep, SessionStep, RequestInvStep
       DEF Inv

(* The invariant holds of every state, for any number of tenants, people,   *)
(* browsers and matters.                                                    *)
THEOREM Invariance == Spec => []Inv
<1> QED  BY InvInit, InvStep, PTL DEF Spec

(* lib/auth.ts: a session is of the tenant registered for the person's      *)
(* domain and names a row of that person, however sign-ins, registrations   *)
(* and first logins interleave.                                             *)
THEOREM SessionsAreOwn == Spec => []SessionIsOwn
<1>1. Inv => SessionIsOwn
    BY DEF Inv
<1> QED  BY <1>1, Invariance, PTL

(* withTenant() and the policies: what a page shows is of the tenant of the *)
(* person who asked.                                                        *)
THEOREM PagesShowTheirTenant == Spec => []ShownIsOwn
<1>1. Inv => ShownIsOwn
  <2> SUFFICES ASSUME Inv, NEW b \in Browsers, step[b] = "shown"
               PROVE  /\ Match(req[b].by) # None
                      /\ TenantOf[req[b].matter] = Match(req[b].by).tenant
      BY DEF ShownIsOwn
  <2>1. /\ Match(req[b].by) # None
        /\ req[b] \in Requests
        /\ users[req[b].user] = [tenant |-> req[b].tenant, email |-> req[b].by]
        /\ TenantOf[req[b].matter] = req[b].tenant
      BY DEF Inv, RequestInv, TypeOK, MatterVisible
  <2>2. users[req[b].user] \in Users
      BY <2>1 DEF Requests, Users
  <2>3. req[b].tenant = Match(req[b].by).tenant
      BY <2>1, <2>2 DEF Inv, RowInv, Requests
  <2> QED  BY <2>1, <2>3
<1> QED  BY <1>1, Invariance, PTL

(* The policy on documents: what is shown is shown to an account of the      *)
(* person who asked, and not to one that was walled off when the request    *)
(* began.                                                                   *)
THEOREM WallsKeep == Spec => []WallsHold
<1>1. Inv => WallsHold
  <2> SUFFICES ASSUME Inv, NEW b \in Browsers, step[b] = "shown"
               PROVE  req[b].user \in RowsOf(req[b].by) \ req[b].barred
      BY DEF WallsHold
  <2>1. /\ req[b] \in Requests
        /\ users[req[b].user] = [tenant |-> req[b].tenant, email |-> req[b].by]
        /\ req[b].user \notin req[b].barred
      BY DEF Inv, RequestInv, TypeOK
  <2>2. [tenant |-> req[b].tenant, email |-> req[b].by] \in Users
      BY <2>1 DEF Requests, Users
  <2> QED  BY <2>1, <2>2 DEF RowsOf, Requests
<1> QED  BY <1>1, Invariance, PTL

(* The jwt callback: a person who has a row when a sign-in begins never     *)
(* gets another one from it.                                                *)
THEOREM RowsOnlyForNewcomers == Spec => OnlyNewcomersInsert
<1>1. Inv /\ [Next]_vars => [\A u \in UserIds : users'[u] # users[u] =>
        /\ users[u] = None
        /\ \E b \in Browsers : newcomer[b] /\ person[b] = users'[u].email]_vars
  <2> SUFFICES ASSUME Inv, [Next]_vars, NEW u \in UserIds, users'[u] # users[u]
               PROVE  /\ users[u] = None
                      /\ \E b \in Browsers : newcomer[b] /\ person[b] = users'[u].email
      OBVIOUS
  <2>1. users[u] = None
      BY TablesGrow DEF Inv
  <2>2. PICK b \in Browsers : InsertUser(b)
      BY UsersChange
  <2>3. newcomer[b]
      BY <2>2 DEF Inv, NewcomerInv, InsertUser
  <2>4. person[b] = users'[u].email
      BY <2>2 DEF Inv, TypeOK, InsertUser
  <2> QED  BY <2>1, <2>3, <2>4
<1> QED  BY <1>1, Invariance, PTL DEF Spec, OnlyNewcomersInsert

-----------------------------------------------------------------------------
(* FirmAccess: what TenantScope comes to.                                   *)

(* The session of module FirmAccess at a browser, and its page. *)
AccountAt(b) == IF at[b] = "in" THEN token[b].user ELSE None

PageAt(b) ==
    IF step[b] = "idle" THEN None
    ELSE [account |-> req[b].user, matter |-> req[b].matter, shown |-> step[b] = "shown"]

(* A session is an account, and never None. *)
LEMMA AccountIsUser ==
    ASSUME Inv, NEW b \in Browsers, at[b] = "in"
    PROVE  /\ AccountAt(b) = token[b].user
           /\ AccountAt(b) \in UserIds
           /\ AccountAt(b) # None
           /\ users[AccountAt(b)] = [tenant |-> token[b].tenant, email |-> person[b]]
<1>1. token[b] \in Tokens
    BY TokenTyped
<1>2. token[b].user \in UserIds
    BY <1>1 DEF Tokens
<1> QED  BY <1>2 DEF AccountAt, Inv, SessionIsOwn

(* A page that was asked for is not None. *)
LEMMA PageIsAsked ==
    ASSUME Inv, NEW b \in Browsers, step[b] # "idle"
    PROVE  PageAt(b) # None
<1>0. req[b] # None
    BY DEF Inv, RequestInv
<1>1. req[b] \in Requests
    BY <1>0 DEF Inv, TypeOK
<1>2. PageAt(b) \in Pages
    BY <1>1 DEF PageAt, Requests, Pages
<1> QED  BY <1>2

(* Whoever is beyond the signIn callback is vouched for, and an account of  *)
(* theirs is in their firm.                                                 *)
LEMMA AdmittedIsVouched ==
    ASSUME Inv, NEW b \in Browsers, at[b] # "out"
    PROVE  /\ person[b] \in Persons
           /\ Access!Vouched(person[b])
           /\ at[b] \in {"inserting", "found"} =>
                Access!Own(person[b]) = [tenant |-> scope[b], email |-> person[b]]
<1>1. /\ Match(person[b]) # None /\ SameDirectory(person[b])
      /\ at[b] \in {"inserting", "found"} => scope[b] = Match(person[b]).tenant
    BY DEF Inv, SignInInv
<1>1a. person[b] \in Persons
    BY SignInReads
<1>2. Access!FirmOf(person[b]) = Match(person[b])
    BY DEF Access!FirmOf, Match
<1> QED
    BY <1>1, <1>1a, <1>2 DEF SameDirectory, Access!Vouched, Access!Own

(* The INSERT opens an account, and the cookie begins a session; whatever    *)
(* fails in between is nothing to FirmAccess.                               *)
LEMMA SignInStepMaps ==
    ASSUME Inv, NEW b \in Browsers, SignInStep(b)
    PROVE  [Access!Next]_(Access!vars)
<1> DEFINE S == [c \in Browsers |-> AccountAt(c)]
<1> DEFINE P == [c \in Browsers |-> PageAt(c)]
<1>0. UNCHANGED <<step, req, registry, walls, form>>
    BY SignInFrame
<1>1. P' = P
    BY <1>0 DEF PageAt
<1>2. \A c \in Browsers : c # b => AccountAt(c)' = AccountAt(c)
    BY OtherSignIns DEF AccountAt, Inv
<1>3. ASSUME at[b] # "in", at'[b] # "in"
      PROVE  S' = S
  <2>1. AccountAt(b)' = AccountAt(b)
      BY <1>3 DEF AccountAt
  <2> QED  BY <2>1, <1>2
<1>4. CASE \/ \E p \in Persons : Admit(b, p)
           \/ Scope(b) \/ FindUser(b) \/ FindNoUser(b) \/ SignInFails(b) \/ SignInUnheard(b)
  <2>1. at[b] # "in" /\ at'[b] # "in" /\ UNCHANGED users
      BY <1>4 DEF Admit, Scope, FindUser, FindNoUser, Return, SignInFails, SignInUnheard,
         LeaveSession, tables, Inv, TypeOK
  <2> QED
      BY <1>3, <2>1, <1>0, <1>1 DEF Access!vars, AccountAt, PageAt
<1>5. CASE InsertUser(b)
  <2>1. PICK u \in UserIds :
          /\ users[u] = None
          /\ users' = [users EXCEPT ![u] = [tenant |-> scope[b], email |-> person[b]]]
          /\ Return(b, u)
      BY <1>5 DEF InsertUser
  <2>2. at[b] = "inserting" /\ at'[b] # "in"
      BY <1>5, <2>1 DEF InsertUser, Return, Inv, TypeOK
  <2>3. /\ person[b] \in Persons
        /\ Access!Vouched(person[b])
        /\ Access!Own(person[b]) = [tenant |-> scope[b], email |-> person[b]]
      BY <2>2, AdmittedIsVouched
  <2>4. Access!OpenAccount(person[b], u)
      BY <1>3, <2>1, <2>2, <2>3, <1>0, <1>1 DEF Access!OpenAccount, AccountAt, PageAt
  <2> QED  BY <2>3, <2>4 DEF Access!Next
<1>6. CASE Issue(b)
  <2>1. at[b] = "found" /\ UNCHANGED users
      BY <1>6 DEF Issue, tables
  <2>2. /\ dbUser[b] \in UserIds
        /\ users[dbUser[b]] = [tenant |-> scope[b], email |-> person[b]]
      BY <2>1, SignInReads DEF Inv, SignInInv
  <2>3. /\ person[b] \in Persons
        /\ Access!Vouched(person[b])
        /\ Access!Own(person[b]) = [tenant |-> scope[b], email |-> person[b]]
      BY <2>1, AdmittedIsVouched
  <2>4. AccountAt(b) = None
      BY <2>1 DEF AccountAt
  <2>5. AccountAt(b)' = dbUser[b]
      BY <1>6 DEF Issue, AccountAt, Inv, TypeOK
  <2>6. S' = [S EXCEPT ![b] = dbUser[b]]
      BY <2>5, <1>2
  <2>7. Access!SignIn(b)
      BY <2>1, <2>2, <2>3, <2>4, <2>6, <1>0, <1>1 DEF Access!SignIn, AccountAt, PageAt
  <2> QED  BY <2>7 DEF Access!Next
<1>7. CASE SignOut(b)
  <2>1. at[b] = "in" /\ UNCHANGED users
      BY <1>7 DEF SignOut, tables
  <2>2. AccountAt(b) # None
      BY <2>1, AccountIsUser
  <2>3. AccountAt(b)' = None
      BY <1>7 DEF SignOut, LeaveSession, AccountAt, Inv, TypeOK
  <2>4. S' = [S EXCEPT ![b] = None]
      BY <2>3, <1>2
  <2>5. Access!SignOut(b)
      BY <2>1, <2>2, <2>4, <1>0, <1>1 DEF Access!SignOut, AccountAt, PageAt
  <2> QED  BY <2>5 DEF Access!Next
<1> QED  BY <1>4, <1>5, <1>6, <1>7 DEF SignInStep

(* A request is asked for, shown or closed; the matter found in between is  *)
(* nothing to FirmAccess.  What a request copied of the session is still    *)
(* the person's own when the page is shown.                                 *)
LEMMA RequestStepMaps ==
    ASSUME Inv, NEW b \in Browsers, RequestStep(b)
    PROVE  [Access!Next]_(Access!vars)
<1> DEFINE S == [c \in Browsers |-> AccountAt(c)]
<1> DEFINE P == [c \in Browsers |-> PageAt(c)]
<1>0. UNCHANGED <<registry, users, walls, at, token, form>>
    BY RequestFrame DEF signin, tables
<1>1. S' = S
    BY <1>0 DEF AccountAt
<1>2. \A c \in Browsers : c # b => PageAt(c)' = PageAt(c)
  <2> SUFFICES ASSUME NEW c \in Browsers, c # b
               PROVE  step'[c] = step[c] /\ req'[c] = req[c]
      BY DEF PageAt
  <2> QED
      BY DEF RequestStep, Open, FindMatter, ListDocuments, FindDocument, Leave, Answer,
         Close, Inv, TypeOK
<1>3. CASE \E m \in Matters, route \in {"page", "stage"} : Open(b, m, route)
  <2>1. PICK m \in Matters, route \in {"page", "stage"} : Open(b, m, route)
      BY <1>3
  <2>2. /\ at[b] = "in" /\ step[b] \in {"idle", "shown"}
        /\ step'[b] = route
        /\ req'[b].user = token[b].user /\ req'[b].matter = m
      BY <2>1 DEF Open, Inv, TypeOK
  <2>3. AccountAt(b) # None /\ AccountAt(b) = token[b].user
      BY <2>2, AccountIsUser
  <2>4. PageAt(b) = None \/ PageAt(b).shown
      BY <2>2 DEF PageAt
  <2>5. PageAt(b)' = [account |-> AccountAt(b), matter |-> m, shown |-> FALSE]
      BY <2>2, <2>3 DEF PageAt
  <2>6. P' = [P EXCEPT ![b] = [account |-> AccountAt(b), matter |-> m, shown |-> FALSE]]
      BY <2>5, <1>2
  <2>7. Access!Ask(b)
      BY <2>3, <2>4, <2>6, <1>0, <1>1 DEF Access!Ask, Access!Turns, AccountAt, PageAt
  <2> QED  BY <2>7 DEF Access!Next
<1>4. ASSUME step[b] # "idle", Close(b)
      PROVE  Access!Leave(b)
  <2>1. PageAt(b) # None
      BY <1>4, PageIsAsked
  <2>2. PageAt(b)' = None
      BY <1>4 DEF PageAt, Close, Inv, TypeOK
  <2>3. P' = [P EXCEPT ![b] = None]
      BY <2>2, <1>2
  <2> QED
      BY <2>1, <2>3, <1>0, <1>1 DEF Access!Leave, Access!Turns, AccountAt, PageAt
<1>5. CASE Leave(b)
    BY <1>5, <1>4 DEF Leave, Access!Next
<1>6. ASSUME step[b] = "page", step' = [step EXCEPT ![b] = "found"], UNCHANGED req
      PROVE  UNCHANGED Access!vars
  <2>1. PageAt(b)' = PageAt(b)
      BY <1>6 DEF PageAt, Inv, TypeOK
  <2>2. P' = P
      BY <2>1, <1>2
  <2> QED  BY <2>2, <1>0, <1>1 DEF Access!vars, AccountAt, PageAt
<1>7. CASE FindMatter(b)
    BY <1>7, <1>4, <1>6 DEF FindMatter, Answer, Access!Next
<1>8. ASSUME step[b] \in {"found", "stage"}, MatterVisible(req[b]), NotDenied(req[b]),
             step' = [step EXCEPT ![b] = "shown"], UNCHANGED req
      PROVE  Access!Show(b)
  <2>1. /\ req[b] \in Requests
        /\ Match(req[b].by) # None
        /\ users[req[b].user] = [tenant |-> req[b].tenant, email |-> req[b].by]
      BY <1>8 DEF Inv, RequestInv, TypeOK
  <2>2. users[req[b].user] \in Users
      BY <2>1 DEF Requests, Users
  <2>3. req[b].tenant = Match(req[b].by).tenant
      BY <2>1, <2>2 DEF Inv, RowInv, Requests
  <2>4. Access!FirmOf(users[req[b].user].email).tenant = req[b].tenant
      BY <2>1, <2>3 DEF Access!FirmOf, Match
  <2>5. TenantOf[req[b].matter] = req[b].tenant /\ <<req[b].user, req[b].matter>> \notin walls
      BY <1>8 DEF MatterVisible, NotDenied
  <2>6. /\ PageAt(b) = [account |-> req[b].user, matter |-> req[b].matter, shown |-> FALSE]
        /\ PageAt(b)' = [account |-> req[b].user, matter |-> req[b].matter, shown |-> TRUE]
      BY <1>8 DEF PageAt, Inv, TypeOK
  <2>7. P' = [P EXCEPT ![b] =
                [account |-> PageAt(b).account, matter |-> PageAt(b).matter, shown |-> TRUE]]
    <3>1. PageAt(b).account = req[b].user /\ PageAt(b).matter = req[b].matter
        BY <2>6
    <3>2. PageAt(b)' = [account |-> PageAt(b).account, matter |-> PageAt(b).matter,
                        shown |-> TRUE]
        BY <2>6, <3>1
    <3>3. P' = [P EXCEPT ![b] = PageAt(b)']
        BY <1>2
    <3> QED  BY <3>2, <3>3
  <2>8. PageAt(b) # None
      BY <1>8, PageIsAsked
  <2> QED
      BY <2>4, <2>5, <2>6, <2>7, <2>8, <1>0, <1>1
         DEF Access!Show, Access!Turns, AccountAt, PageAt
<1>9. CASE ListDocuments(b) \/ FindDocument(b)
    BY <1>9, <1>4, <1>8 DEF ListDocuments, FindDocument, Answer, Access!Next
<1> QED  BY <1>3, <1>5, <1>7, <1>9 DEF RequestStep

(* A registration, asked for and made, is the same in both modules. *)
LEMMA TenantStepMaps ==
    ASSUME Inv, NEW b \in Browsers, TenantStep(b)
    PROVE  Access!Next
<1>0. UNCHANGED <<users, walls, at, token, step, req>>
    BY TenantFrame DEF signin, request
<1>1. ASSUME NEW f \in Forms, SubmitTenant(b, f)
      PROVE  Access!Apply(b)
  <2>1. /\ at[b] = "in" /\ person[b] \in PlatformAdmins /\ form[b] = None
        /\ form' = [form EXCEPT ![b] = f] /\ UNCHANGED registry
      BY <1>1 DEF SubmitTenant, tables
  <2>2. /\ AccountAt(b) # None
        /\ users[AccountAt(b)] = [tenant |-> token[b].tenant, email |-> person[b]]
      BY <2>1, AccountIsUser
  <2>2a. users[AccountAt(b)].email = person[b]
      BY <2>2
  <2>3. PICK t \in Tenants, d \in Domains, e \in Directories \union {None} :
            f = [tenant |-> t, domain |-> d, directory |-> e]
      BY DEF Forms
  <2> QED
      BY <1>0, <2>1, <2>2, <2>2a, <2>3 DEF AccountAt, Access!Apply, Access!Fills
<1>2. ASSUME CreateTenant(b)
      PROVE  Access!Register(b)
    BY <1>0, <1>2 DEF CreateTenant, DomainFree, Taken, Access!Register, Access!Fills
<1>3. ASSUME RefuseTenant(b)
      PROVE  Access!Withdraw(b)
    BY <1>0, <1>3 DEF RefuseTenant, tables, Access!Withdraw, Access!Fills
<1> QED  BY <1>1, <1>2, <1>3 DEF TenantStep, Access!Next

LEMMA WallMaps ==
    ASSUME NEW u \in UserIds, NEW m \in Matters, SetWall(u, m)
    PROVE  Access!Next
    BY DEF SetWall, signin, request, Access!Wall, Access!Next

(* lib/auth.ts, client.ts and the policies implement the firm's own idea of *)
(* access: accounts for those its registration lets in, whether the answer  *)
(* reaches them or not, sessions of one's own account only, firms that a    *)
(* platform administrator asked for, and pages that are the firm's and not  *)
(* walled off when they are shown.                                          *)
THEOREM Accesses == Spec => ImplementsAccess
<1>1. Init => Access!Init
    BY DEF Init, Access!Init
<1>2. Inv /\ [Next]_vars => [Access!Next]_(Access!vars)
  <2> SUFFICES ASSUME Inv, [Next]_vars
               PROVE  [Access!Next]_(Access!vars)
      OBVIOUS
  <2>1. CASE \E b \in Browsers : SignInStep(b) \/ TenantStep(b) \/ RequestStep(b)
      BY <2>1, SignInStepMaps, TenantStepMaps, RequestStepMaps
  <2>2. CASE UNCHANGED vars
      BY <2>2 DEF vars, tables, signin, request, Access!vars
  <2> QED  BY <2>1, <2>2, WallMaps DEF Next
<1> QED
    BY <1>1, <1>2, Invariance, PTL DEF Spec, ImplementsAccess, Access!Spec
=============================================================================
