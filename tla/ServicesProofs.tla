--------------------------- MODULE ServicesProofs ---------------------------
(***************************************************************************)
(* Theorems about the services side by side, and about those that keep     *)
(* tenants, versions of models, of taxonomies and of pipelines, and        *)
(* trainings; and about the taxons of a taxonomy, for any ids and any      *)
(* requests that overlap: paths agree with the parents, and so what a      *)
(* search says of parents.                                                 *)
(***************************************************************************)
EXTENDS ServiceParts, Taxons, Integers, Sequences, FiniteSets, FiniteSetsExt,
        FiniteSetTheorems, SequenceTheorems, WellFoundedInduction, TLAPS

-----------------------------------------------------------------------------
(* Tenants *)

IsPerson(p) == p = U!Unknown \/ p = U!Representation(p.tenants, p.others)

\* The requests of users: their steps, and what they have found out.
TenantRequestOK(q) ==
    \/ q = U!NoUserRequest
    \/ /\ q = [op |-> q.op, user |-> q.user, tenant |-> q.tenant, at |-> q.at,
               seen |-> q.seen]
       /\ q.op \in {"register", "tenant", "add", "remove"}
       /\ q.op = "tenant" /\ q.at = "group" => q.tenant \in buckets
       /\ q.op \in {"register", "add", "remove"} => q.user \in Person
       /\ q.op \in {"add", "remove"} => q.tenant \in Tenant
       /\ q.op = "add" /\ q.at \in {"read", "write"} => q.tenant \in groups
       /\ q.op \in {"add", "remove"} /\ q.at = "write" =>
              /\ q.seen.known /\ q.seen = U!Representation(q.seen.tenants, q.seen.others)
              /\ q.seen.tenants \subseteq groups
              /\ persons[q.user].known

TenantInv ==
    /\ DOMAIN userRequest = UserSession
    /\ \A s \in UserSession : TenantRequestOK(userRequest[s])
    /\ DOMAIN persons = Person /\ \A u \in Person : IsPerson(persons[u])
    /\ granted \subseteq Person \X Tenant
    /\ \A g \in granted : persons[g[1]].known
    /\ U!TenantsExist /\ U!MembersAsGranted /\ U!RegisteredIsInvited

\* At first there is the home tenant, with its bucket, and nobody is in a tenant.
LEMMA TenantInit == U!Init => TenantInv
<1> SUFFICES ASSUME U!Init
             PROVE  TenantInv
  OBVIOUS
<1>1. \A u \in Person : persons[u] = U!Unknown \/ persons[u] = U!Representation({}, TRUE)
  BY DEF U!Init
<1>2. \A u \in Person : IsPerson(persons[u]) /\ (persons[u].known => persons[u].tenants = {})
  <2> TAKE u \in Person
  <2>1. CASE persons[u] = U!Unknown
    BY <2>1 DEF IsPerson, U!Unknown
  <2>2. CASE persons[u] = U!Representation({}, TRUE)
    BY <2>2 DEF IsPerson, U!Representation
  <2> QED
    BY <1>1, <2>1, <2>2
<1>3. DOMAIN persons = Person
  BY DEF U!Init
<1> QED
  BY <1>2, <1>3 DEF U!Init, TenantInv, TenantRequestOK, U!NoUserRequest, U!TenantsExist,
                    U!MembersAsGranted, U!RegisteredIsInvited

\* It is enough to look at the request that a step writes: tenants are never
\* deleted, and nor are users.
LEMMA UserRequestsKept ==
    ASSUME TenantInv, NEW s \in UserSession, NEW q, TenantRequestOK(q)',
           userRequest' = [userRequest EXCEPT ![s] = q],
           buckets \subseteq buckets', groups \subseteq groups',
           \A u \in Person : persons[u].known => persons'[u].known
    PROVE  /\ DOMAIN userRequest' = UserSession
           /\ \A o \in UserSession : TenantRequestOK(userRequest[o])'
<1>1. DOMAIN userRequest' = UserSession /\ userRequest'[s] = q
  BY DEF TenantInv
<1>2. ASSUME NEW o \in UserSession, o # s
      PROVE  TenantRequestOK(userRequest[o])'
  <2>1. userRequest'[o] = userRequest[o]
    BY <1>2
  <2>2. PICK r : r = userRequest[o]
    OBVIOUS
  <2>3. TenantRequestOK(r)
    BY <2>2 DEF TenantInv
  <2>4. TenantRequestOK(r)'
    BY <2>3 DEF TenantRequestOK
  <2> QED
    BY <2>1, <2>2, <2>4
<1> QED
  BY <1>1, <1>2

\* A step that writes only a request.
LEMMA TenantRequestStep ==
    ASSUME TenantInv, NEW s \in UserSession, NEW q, TenantRequestOK(q),
           userRequest' = [userRequest EXCEPT ![s] = q],
           UNCHANGED <<buckets, groups, persons, invited, granted, registered, overwritten>>
    PROVE  TenantInv'
<1>1. TenantRequestOK(q)'
  BY DEF TenantRequestOK
<1>2. /\ DOMAIN userRequest' = UserSession
      /\ \A o \in UserSession : TenantRequestOK(userRequest[o])'
  BY <1>1, UserRequestsKept
<1> QED
  BY <1>2 DEF TenantInv, IsPerson, U!TenantsExist, U!MembersAsGranted, U!RegisteredIsInvited

\* A request begins, with nothing found out.
LEMMA BeginsStep ==
    ASSUME TenantInv, NEW s \in UserSession, NEW op, NEW u, NEW t, NEW at,
           U!Begins(s, op, u, t, at),
           \/ op = "tenant" /\ at = "bucket"
           \/ op = "register" /\ at = "create" /\ u \in Person
           \/ op = "add" /\ at = "groups" /\ u \in Person /\ t \in Tenant
           \/ op = "remove" /\ at = "read" /\ u \in Person /\ t \in Tenant
    PROVE  TenantInv'
<1>1. PICK q : q = [op |-> op, user |-> u, tenant |-> t, at |-> at, seen |-> U!Unknown]
  OBVIOUS
<1>2. TenantRequestOK(q)
  BY <1>1 DEF TenantRequestOK
<1>3. /\ userRequest' = [userRequest EXCEPT ![s] = q]
      /\ UNCHANGED <<buckets, groups, persons, invited, granted, registered, overwritten>>
  BY <1>1 DEF U!Begins
<1> QED
  BY <1>2, <1>3, TenantRequestStep

\* Keycloak has a new user, who is in no tenant: nothing was granted to him.
LEMMA CreateUserStep ==
    ASSUME TenantInv, NEW s \in UserSession, U!CreateUser(s)
    PROVE  TenantInv'
<1>1. PICK q, u : q = userRequest[s] /\ u = q.user
  OBVIOUS
<1>2. /\ q.op = "register" /\ ~persons[u].known
      /\ persons' = [persons EXCEPT ![u] = U!Representation({}, FALSE)]
      /\ userRequest' = [userRequest EXCEPT ![s] = [q EXCEPT !.at = "find"]]
      /\ UNCHANGED <<buckets, groups, invited, granted, registered, overwritten>>
  BY <1>1 DEF U!CreateUser, U!AtCall, U!GoesTo
<1>3. TenantRequestOK(q) /\ u \in Person
  BY <1>1, <1>2 DEF TenantInv, TenantRequestOK, U!NoUserRequest
<1>4. /\ persons'[u] = U!Representation({}, FALSE)
      /\ persons'[u].known /\ persons'[u].tenants = {}
      /\ \A p \in Person \ {u} : persons'[p] = persons[p]
      /\ DOMAIN persons' = Person
  BY <1>2, <1>3 DEF TenantInv, U!Representation
<1>5. TenantRequestOK([q EXCEPT !.at = "find"])'
  BY <1>2, <1>3, <1>4 DEF TenantRequestOK, U!NoUserRequest
<1>6. \A p \in Person : persons[p].known => persons'[p].known
  BY <1>4
<1>7. /\ DOMAIN userRequest' = UserSession
      /\ \A o \in UserSession : TenantRequestOK(userRequest[o])'
  BY <1>2, <1>5, <1>6, UserRequestsKept
<1>8. \A p \in Person : IsPerson(persons[p])'
  BY <1>4 DEF TenantInv, IsPerson, U!Representation
<1>9. \A t : <<u, t>> \notin granted
  BY <1>2 DEF TenantInv
<1>10. U!TenantsExist' /\ U!MembersAsGranted' /\ U!RegisteredIsInvited'
  BY <1>2, <1>4, <1>9 DEF TenantInv, U!TenantsExist, U!MembersAsGranted, U!RegisteredIsInvited
<1> QED
  BY <1>2, <1>4, <1>6, <1>7, <1>8, <1>10 DEF TenantInv

\* The mail is sent before the registration is answered.
LEMMA ActionEmailStep ==
    ASSUME TenantInv, NEW s \in UserSession, U!ActionEmail(s)
    PROVE  TenantInv'
<1>1. /\ userRequest' = [userRequest EXCEPT ![s] = U!NoUserRequest]
      /\ UNCHANGED <<buckets, groups, persons, granted, overwritten>>
      /\ TenantRequestOK(U!NoUserRequest)'
  BY DEF U!ActionEmail, U!Done, TenantRequestOK
<1>2. /\ DOMAIN userRequest' = UserSession
      /\ \A o \in UserSession : TenantRequestOK(userRequest[o])'
  BY <1>1, UserRequestsKept
<1>3. U!RegisteredIsInvited'
  BY DEF TenantInv, U!ActionEmail, U!RegisteredIsInvited
<1> QED
  BY <1>1, <1>2, <1>3 DEF TenantInv, IsPerson, U!TenantsExist, U!MembersAsGranted

\* A tenant gets its bucket, and then its group.
LEMMA CreateTenantStep ==
    ASSUME TenantInv, NEW s \in UserSession, U!CreateBucket(s) \/ U!CreateGroup(s)
    PROVE  TenantInv'
<1>1. PICK q : q = userRequest[s]
  OBVIOUS
<1>2. PICK r : r = IF q.at = "bucket" THEN [q EXCEPT !.at = "group"] ELSE U!NoUserRequest
  OBVIOUS
<1>3. /\ q.op = "tenant" /\ q # U!NoUserRequest /\ TenantRequestOK(q)
      /\ userRequest' = [userRequest EXCEPT ![s] = r]
      /\ UNCHANGED <<persons, invited, granted, registered, overwritten>>
      /\ \/ q.at = "bucket" /\ groups' = groups /\ buckets' = buckets \cup {q.tenant}
         \/ q.at = "group" /\ buckets' = buckets /\ groups' = groups \cup {q.tenant}
  BY <1>1, <1>2 DEF U!CreateBucket, U!CreateGroup, U!AtCall, U!After, U!GoesTo, U!Done,
                    U!TenantSteps, U!NoUserRequest, TenantInv
<1>4. TenantRequestOK(r)'
  BY <1>2, <1>3 DEF TenantRequestOK, U!NoUserRequest
<1>5. /\ DOMAIN userRequest' = UserSession
      /\ \A o \in UserSession : TenantRequestOK(userRequest[o])'
  BY <1>3, <1>4, UserRequestsKept
<1>6. groups' \subseteq buckets'
  BY <1>3 DEF TenantRequestOK, TenantInv, U!TenantsExist
<1>7. U!TenantsExist'
  BY <1>3, <1>6 DEF TenantInv, U!TenantsExist
<1> QED
  BY <1>3, <1>5, <1>7 DEF TenantInv, IsPerson, U!MembersAsGranted, U!RegisteredIsInvited

\* A request finds its group, or its user, whose tenants exist.
LEMMA FindStep ==
    ASSUME TenantInv, NEW s \in UserSession,
           U!FindUser(s) \/ U!GetGroups(s) \/ U!GetUser(s) \/ U!KeycloakFails(s)
    PROVE  TenantInv'
<1>1. PICK q : q = userRequest[s]
  OBVIOUS
<1>2. UNCHANGED <<buckets, groups, persons, invited, granted, registered, overwritten>>
  BY DEF U!FindUser, U!GetGroups, U!GetUser, U!KeycloakFails
<1>3. TenantRequestOK(q)
  BY <1>1 DEF TenantInv
<1>4. CASE U!FindUser(s)
  <2>1. /\ q.op = "register"
        /\ userRequest' = [userRequest EXCEPT ![s] = [q EXCEPT !.at = "mail"]]
    BY <1>1, <1>4 DEF U!FindUser, U!AtCall, U!GoesTo
  <2>2. TenantRequestOK([q EXCEPT !.at = "mail"])
    BY <1>3, <2>1 DEF TenantRequestOK, U!NoUserRequest
  <2> QED
    BY <1>2, <2>1, <2>2, TenantRequestStep
<1>5. CASE U!GetGroups(s)
  <2>1. /\ q.op = "add" /\ q.tenant \in groups
        /\ userRequest' = [userRequest EXCEPT ![s] = [q EXCEPT !.at = "read"]]
    BY <1>1, <1>5 DEF U!GetGroups, U!AtCall, U!GoesTo
  <2>2. TenantRequestOK([q EXCEPT !.at = "read"])
    BY <1>3, <2>1 DEF TenantRequestOK, U!NoUserRequest
  <2> QED
    BY <1>2, <2>1, <2>2, TenantRequestStep
<1>6. CASE U!GetUser(s)
  <2>1. PICK p : p = persons[q.user]
    OBVIOUS
  <2>2. /\ q.op \in {"add", "remove"} /\ q.at = "read" /\ p.known
        /\ userRequest' = [userRequest EXCEPT ![s] = [q EXCEPT !.at = "write", !.seen = p]]
    BY <1>1, <1>6, <2>1 DEF U!GetUser
  <2>3. q.user \in Person
    BY <1>3, <2>2 DEF TenantRequestOK, U!NoUserRequest
  <2>4. p = U!Representation(p.tenants, p.others) /\ p.tenants \subseteq groups
    BY <2>1, <2>2, <2>3 DEF TenantInv, IsPerson, U!Unknown, U!TenantsExist
  <2>5. PICK r : r = [q EXCEPT !.at = "write", !.seen = p]
    OBVIOUS
  <2>6. q = [op |-> q.op, user |-> q.user, tenant |-> q.tenant, at |-> q.at,
             seen |-> q.seen]
    BY <1>3, <2>2 DEF TenantRequestOK, U!NoUserRequest
  <2>7. /\ r = [op |-> r.op, user |-> r.user, tenant |-> r.tenant, at |-> r.at,
                seen |-> r.seen]
        /\ r.op = q.op /\ r.user = q.user /\ r.tenant = q.tenant
        /\ r.at = "write" /\ r.seen = p
    BY <2>5, <2>6
  <2>8. TenantRequestOK(r)
    BY <1>3, <2>1, <2>2, <2>4, <2>7 DEF TenantRequestOK, U!NoUserRequest
  <2> QED
    BY <1>2, <2>2, <2>5, <2>8, TenantRequestStep
<1>7. CASE U!KeycloakFails(s)
  BY <1>2, <1>7, TenantRequestStep DEF U!KeycloakFails, U!Done, TenantRequestOK
<1> QED
  BY <1>4, <1>5, <1>6, <1>7

\* What is written is what was read with the tenant added or taken away, unless
\* the user has changed meanwhile.
LEMMA UpdateUserStep ==
    ASSUME TenantInv, NEW s \in UserSession, U!UpdateUser(s)
    PROVE  TenantInv'
<1>1. PICK q, u, t, p : /\ q = userRequest[s] /\ u = q.user /\ t = q.tenant
                        /\ p = U!Written(q, persons[u])
  OBVIOUS
<1>2. /\ q.op \in {"add", "remove"} /\ q.at = "write"
      /\ userRequest' = [userRequest EXCEPT ![s] = U!NoUserRequest]
      /\ persons' = [persons EXCEPT ![u] = p]
      /\ granted' = IF q.op = "add" THEN granted \cup {<<u, t>>} ELSE granted \ {<<u, t>>}
      /\ overwritten' = overwritten \cup (IF persons[u] # q.seen THEN {u} ELSE {})
      /\ UNCHANGED <<buckets, groups, invited, registered>>
  BY <1>1 DEF U!UpdateUser, U!Done
<1>3. /\ u \in Person /\ t \in Tenant /\ persons[u].known
      /\ q.op = "add" => t \in groups
      /\ q.seen.known /\ q.seen = U!Representation(q.seen.tenants, q.seen.others)
      /\ q.seen.tenants \subseteq groups
  BY <1>1, <1>2 DEF TenantInv, TenantRequestOK, U!NoUserRequest
<1>4. /\ IsPerson(persons[u]) /\ persons[u] # U!Unknown
      /\ persons[u].tenants \subseteq groups
      /\ u \notin overwritten =>
             persons[u].tenants = {x \in Tenant : <<u, x>> \in granted}
  BY <1>3 DEF TenantInv, U!TenantsExist, U!MembersAsGranted, U!Unknown
<1>5. /\ IsPerson(p) /\ p.known /\ p.tenants \subseteq groups
      /\ persons[u] = q.seen =>
             p.tenants = IF q.op = "add" THEN q.seen.tenants \cup {t}
                         ELSE q.seen.tenants \ {t}
  <2>1. CASE q.op = "add"
    BY <1>1, <1>3, <2>1 DEF U!Written, U!AddTenant, U!Representation, IsPerson
  <2>2. CASE q.op = "remove" /\ q.seen.tenants = {} /\ ~q.seen.others
    BY <1>1, <1>3, <1>4, <2>2 DEF U!Written
  <2>3. CASE q.op = "remove" /\ ~(q.seen.tenants = {} /\ ~q.seen.others)
    BY <1>1, <1>3, <2>3 DEF U!Written, U!RemoveTenant, U!Representation, IsPerson
  <2> QED
    BY <1>2, <2>1, <2>2, <2>3
<1>6. /\ DOMAIN persons' = Person /\ persons'[u] = p
      /\ \A x \in Person \ {u} : persons'[x] = persons[x]
  BY <1>2, <1>3 DEF TenantInv
<1>7. /\ DOMAIN userRequest' = UserSession
      /\ \A o \in UserSession : TenantRequestOK(userRequest[o])'
  <2>1. TenantRequestOK(U!NoUserRequest)'
    BY DEF TenantRequestOK
  <2>2. \A x \in Person : persons[x].known => persons'[x].known
    BY <1>5, <1>6
  <2> QED
    BY <1>2, <2>1, <2>2, UserRequestsKept
<1>8. /\ granted' \subseteq Person \X Tenant
      /\ \A g \in granted' : persons'[g[1]].known
  BY <1>2, <1>3, <1>5, <1>6 DEF TenantInv
<1>9. U!MembersAsGranted'
  <2> SUFFICES ASSUME NEW x \in Person, x \notin overwritten', persons'[x].known
               PROVE  persons'[x].tenants = {y \in Tenant : <<x, y>> \in granted'}
    BY DEF U!MembersAsGranted
  <2>1. CASE x # u
    <3>1. \A y : <<x, y>> \in granted' <=> <<x, y>> \in granted
      BY <1>2, <2>1
    <3> QED
      BY <1>2, <1>6, <2>1, <3>1 DEF TenantInv, U!MembersAsGranted
  <2>2. CASE x = u
    <3>1. persons[u] = q.seen /\ u \notin overwritten
      BY <1>2, <2>2
    <3> QED
      BY <1>2, <1>3, <1>4, <1>5, <1>6, <2>2, <3>1
  <2> QED
    BY <2>1, <2>2
<1>10. /\ \A x \in Person : IsPerson(persons[x])'
       /\ U!TenantsExist' /\ U!RegisteredIsInvited'
  BY <1>2, <1>5, <1>6 DEF TenantInv, U!TenantsExist, U!RegisteredIsInvited, IsPerson
<1> QED
  BY <1>6, <1>7, <1>8, <1>9, <1>10 DEF TenantInv

\* Every step keeps the tenants and their users in order.
LEMMA TenantNext == TenantInv /\ [U!Next]_U!tenantsVars => TenantInv'
<1> SUFFICES ASSUME TenantInv, [U!Next]_U!tenantsVars
             PROVE  TenantInv'
  OBVIOUS
<1>1. CASE UNCHANGED U!tenantsVars
  BY <1>1 DEF U!tenantsVars, TenantInv, TenantRequestOK, IsPerson, U!TenantsExist,
              U!MembersAsGranted, U!RegisteredIsInvited
<1>2. ASSUME NEW s \in UserSession, NEW u \in Person, U!Register(s, u)
      PROVE  TenantInv'
  BY <1>2, BeginsStep DEF U!Register
<1>3. ASSUME NEW s \in UserSession, NEW t \in Tenant, U!CreateTenant(s, t)
      PROVE  TenantInv'
  BY <1>3, BeginsStep DEF U!CreateTenant, U!TenantSteps
<1>4. ASSUME NEW s \in UserSession, NEW u \in Person, NEW t \in Tenant,
             U!AddToTenant(s, u, t) \/ U!RemoveFromTenant(s, u, t)
      PROVE  TenantInv'
  BY <1>4, BeginsStep DEF U!AddToTenant, U!RemoveFromTenant
<1> QED
  BY <1>1, <1>2, <1>3, <1>4, CreateUserStep, ActionEmailStep, CreateTenantStep, FindStep,
     UpdateUserStep DEF U!Next

\* A tenant has its bucket and users are in tenants that exist, whatever calls
\* of Keycloak fail and however the requests overlap (create_tenant,
\* add_user_to_tenant).
THEOREM TenantsAlwaysExist == U!Spec => []U!TenantsExist
<1>1. TenantInv => U!TenantsExist
  BY DEF TenantInv
<1> QED
  BY <1>1, TenantInit, TenantNext, PTL DEF U!Spec

\* A user is in the tenants that were granted to him and not taken away, as
\* long as no request has written over the change of another one (update_user).
THEOREM MembersAreAsGranted == U!Spec => []U!MembersAsGranted
<1>1. TenantInv => U!MembersAsGranted
  BY DEF TenantInv
<1> QED
  BY <1>1, TenantInit, TenantNext, PTL DEF U!Spec

-----------------------------------------------------------------------------
(* Highest versions *)

\* A set of versions that is not empty has a highest one.
LEMMA HighestExists ==
    ASSUME NEW top \in Nat, NEW S \in SUBSET (1 .. top), S # {}
    PROVE  \E x \in S : \A y \in S : x >= y
<1>1. PICK T : T = {top - x : x \in S}
  OBVIOUS
<1>2. T \subseteq Nat
  <2> SUFFICES ASSUME NEW x \in S
               PROVE  top - x \in Nat
    BY <1>1
  <2> QED
    OBVIOUS
<1>3. T # {}
  BY <1>1
<1>4. PICK m \in T : \A y \in T : ~ (<<y, m>> \in OpToRel(<, Nat))
  BY <1>2, <1>3, WFMin, NatLessThanWellFounded
<1>5. \A y \in T : ~ (y < m)
  BY <1>2, <1>4 DEF OpToRel
<1>6. PICK x \in S : m = top - x
  BY <1>1, <1>4
<1> QED
  BY <1>1, <1>5, <1>6

\* Max is at least as high as all others.
LEMMA MaxIsHighest ==
    ASSUME NEW top \in Nat, NEW S \in SUBSET (1 .. top), S # {}
    PROVE  /\ Max(S) \in S
           /\ \A y \in S : Max(S) >= y
BY HighestExists DEF Max

\* What the second from the highest down is.
LEMMA SecondIs ==
    ASSUME NEW top \in Nat, NEW S \in SUBSET (1 .. top), NEW m \in S, \A y \in S : m >= y,
           NEW n, n = IF Cardinality(S) < 2 THEN 0 ELSE Max(S \ {Max(S)})
    PROVE  IF S = {m} THEN n = 0
           ELSE n \in S \ {m} /\ \A y \in S \ {m} : n >= y
<1>1. Max(S) = m
  <2>1. PICK x : x = Max(S)
    OBVIOUS
  <2>2. x \in S /\ x >= m
    BY <2>1, MaxIsHighest
  <2>3. x \in Int /\ m \in Int /\ m >= x
    BY <2>2
  <2> QED
    BY <2>1, <2>2, <2>3
<1>2. IsFiniteSet(S)
  <2>1. IsFiniteSet(1 .. top)
    BY FS_Interval
  <2> QED
    BY <2>1, FS_Subset
<1>3. /\ IsFiniteSet(S \ {m}) /\ Cardinality(S \ {m}) = Cardinality(S) - 1
      /\ Cardinality(S \ {m}) = 0 <=> S \ {m} = {}
  BY <1>2, FS_RemoveElement, FS_EmptySet
<1>4. Cardinality(S) \in Nat /\ Cardinality(S \ {m}) \in Nat
  BY <1>2, <1>3, FS_CardinalityType
<1>5. CASE S = {m}
  BY <1>3, <1>4, <1>5
<1>6. CASE S # {m}
  <2>1. S \ {m} # {} /\ S \ {m} \in SUBSET (1 .. top)
    BY <1>6
  <2>2. n = Max(S \ {m})
    <3>1. PICK c, d : c = Cardinality(S) /\ d = Cardinality(S \ {m})
      OBVIOUS
    <3>2. c \in Nat /\ d \in Nat /\ d = c - 1 /\ d # 0
      BY <1>3, <1>4, <2>1, <3>1
    <3>3. ~(c < 2)
      BY <3>2
    <3> QED
      BY <1>1, <3>1, <3>3
  <2> QED
    BY <1>6, <2>1, <2>2, MaxIsHighest
<1> QED
  BY <1>5, <1>6

\* The operators of the libraries are the same in each instance.
LEMMA LibrariesOfModels ==
    /\ \A S : M!Max(S) = Max(S)
    /\ \A S : M!Cardinality(S) = Cardinality(S)
<1>1. \A S : M!Max(S) = Max(S)
  BY DEF M!Max, Max
<1>2. \A S : M!Cardinality(S) = Cardinality(S)
  BY DEF M!Cardinality, Cardinality
<1> QED
  BY <1>1, <1>2

-----------------------------------------------------------------------------
(* Models *)

IsModel(r) ==
    \/ r = M!NoModel
    \/ \E latest \in BOOLEAN, status \in {"ready", "deployed"} :
           r = [latest |-> latest, status |-> status]

ModelsOK ==
    /\ DOMAIN models = M!ModelVersion
    /\ \A v \in M!ModelVersion : IsModel(models[v])

HighestIsLatest ==
    \A v \in M!ModelRows : models[v].latest <=> \A y \in M!ModelRows : v >= y

\* As long as requests do not cross, q is the one there is, if there is one.
Current(q) ==
    \/ /\ q = M!NoModelRequest
       /\ modelRequest = [o \in ModelSession |-> M!NoModelRequest]
    \/ /\ q # M!NoModelRequest
       /\ \E s \in ModelSession :
              modelRequest = [o \in ModelSession |-> IF o = s THEN q ELSE M!NoModelRequest]

\* What it has read is still so.
ModelRequestOK(q) ==
    \/ q = M!NoModelRequest
    \/ /\ q = [op |-> "create", at |-> "commit", version |-> q.version]
       /\ q.version \in 0 .. MaxModelVersion - 1
       /\ IF M!ModelRows = {} THEN q.version = 0
          ELSE q.version \in M!ModelRows /\ \A y \in M!ModelRows : q.version >= y
    \/ /\ q = [op |-> "delete", at |-> "commit", version |-> q.version, next |-> q.next]
       /\ q.version \in M!ModelRows
       /\ q.next = IF models[q.version].latest THEN M!SecondLatestModel ELSE 0
    \/ /\ q = [op |-> q.op, at |-> q.at, version |-> q.version, seen |-> q.seen]
       /\ q.op \in {"deploy", "undeploy"}
       /\ q.version \in M!ModelRows /\ q.seen = models[q.version].status

\* The service and the mapping are being made, or taken away.
Changing(q) ==
    \/ q.op = "deploy" /\ q.at \in {"mapping", "service"}
    \/ q.op = "undeploy" /\ q.at = "mapping"

\* How far the service of a deployment, or of its removal, is.
ServiceOK(q) ==
    /\ Changing(q) \/ (q.op = "undeploy" /\ q.at = "commit") => service = 0
    /\ q.op = "deploy" /\ q.at = "commit" => service = q.version

\* What runs says so, or is about to.
DeployedOK(q) ==
    mishaps \cap {"crash", "orphaned"} = {} /\ service # 0 =>
        /\ service \in M!ModelRows
        /\ models[service].status = "deployed" \/ (q.op = "deploy" /\ q.at = "commit")

MappingOK(q) ==
    mishaps \subseteq {"orphaned"} =>
        /\ q.op = "deploy" /\ q.at = "service" => mapping
        /\ ~Changing(q) => (mapping <=> service # 0)

ModelInv(q) ==
    /\ ModelsOK /\ HighestIsLatest
    /\ Current(q) /\ ModelRequestOK(q)
    /\ ServiceOK(q) /\ DeployedOK(q) /\ MappingOK(q)

ModelsInv == "crossed" \in mishaps \/ \E q : ModelInv(q)

\* At first there are no versions, and nothing is deployed.
LEMMA ModelsInit == M!Init => ModelsInv
<1> SUFFICES ASSUME M!Init
             PROVE  ModelInv(M!NoModelRequest)
  BY DEF ModelsInv
<1>1. M!ModelRows = {}
  BY DEF M!Init, M!ModelRows
<1>2. ModelsOK
  BY DEF M!Init, ModelsOK, IsModel
<1>3. HighestIsLatest /\ Current(M!NoModelRequest) /\ ModelRequestOK(M!NoModelRequest)
  BY <1>1 DEF M!Init, HighestIsLatest, Current, ModelRequestOK
<1>4. service = 0 /\ ~mapping /\ M!NoModelRequest.op = "none"
  BY DEF M!Init, M!NoModelRequest
<1>5. ServiceOK(M!NoModelRequest) /\ DeployedOK(M!NoModelRequest)
  BY <1>4 DEF ServiceOK, DeployedOK, Changing
<1>6. MappingOK(M!NoModelRequest)
  BY <1>4 DEF MappingOK, Changing
<1> QED
  BY <1>2, <1>3, <1>5, <1>6 DEF ModelInv

\* A request that does not cross another one begins when there is none.
LEMMA ModelBegins ==
    ASSUME NEW q, ModelInv(q), NEW s \in ModelSession, NEW r, r # M!NoModelRequest,
           M!ModelBegins(s, r), "crossed" \notin mishaps'
    PROVE  /\ q = M!NoModelRequest /\ Current(r)'
           /\ UNCHANGED <<models, service, mapping, mishaps>>
<1>1. /\ modelRequest[s] = M!NoModelRequest
      /\ modelRequest' = [modelRequest EXCEPT ![s] = r]
      /\ \A o \in ModelSession \ {s} : modelRequest[o] = M!NoModelRequest
      /\ UNCHANGED <<models, service, mapping, mishaps>>
  BY DEF M!ModelBegins
<1>2. modelRequest = [o \in ModelSession |-> M!NoModelRequest]
  BY <1>1 DEF ModelInv, Current
<1>3. q = M!NoModelRequest
  BY <1>2 DEF ModelInv, Current
<1>4. modelRequest' = [o \in ModelSession |-> IF o = s THEN r ELSE M!NoModelRequest]
  BY <1>1, <1>2
<1> QED
  BY <1>1, <1>3, <1>4 DEF Current

\* What a request that is there becomes.
LEMMA ModelGoes ==
    ASSUME NEW q, Current(q), NEW s \in ModelSession, modelRequest[s] # M!NoModelRequest,
           NEW r, modelRequest' = [modelRequest EXCEPT ![s] = r]
    PROVE  q = modelRequest[s] /\ Current(r)'
<1>1. PICK o \in ModelSession :
          modelRequest = [x \in ModelSession |-> IF x = o THEN q ELSE M!NoModelRequest]
  BY DEF Current
<1>2. o = s /\ q = modelRequest[s]
  BY <1>1
<1>3. modelRequest' = [x \in ModelSession |-> IF x = s THEN r ELSE M!NoModelRequest]
  BY <1>1, <1>2
<1> QED
  BY <1>2, <1>3 DEF Current

\* A request begins with what it reads.
LEMMA ModelReadStep ==
    ASSUME MaxModelVersion \in Nat, NEW q, ModelInv(q), "crossed" \notin mishaps',
           NEW s \in ModelSession, NEW v \in M!ModelVersion,
           \/ M!CreateModelRead(s) \/ M!DeleteModelRead(s, v)
           \/ M!Deploy(s, v) \/ M!Undeploy(s, v)
    PROVE  ModelsInv'
<1>1. CASE M!CreateModelRead(s)
  <2>1. PICK w \in M!LatestModels \cup (IF M!LatestModels = {} THEN {0} ELSE {}) :
            /\ w < MaxModelVersion
            /\ M!ModelBegins(s, [op |-> "create", at |-> "commit", version |-> w])
    BY <1>1 DEF M!CreateModelRead
  <2>2. PICK r : r = [op |-> "create", at |-> "commit", version |-> w]
    OBVIOUS
  <2>3. r.op = "create" /\ r.version = w /\ r # M!NoModelRequest
        /\ r = [op |-> "create", at |-> "commit", version |-> r.version]
    BY <2>2 DEF M!NoModelRequest
  <2>4. q = M!NoModelRequest /\ Current(r)' /\ UNCHANGED <<models, service, mapping, mishaps>>
    BY <2>1, <2>2, <2>3, ModelBegins
  <2>5. M!ModelRows \in SUBSET (1 .. MaxModelVersion)
    BY DEF M!ModelRows, M!ModelVersion
  <2>6. IF M!ModelRows = {} THEN w = 0
        ELSE w \in M!ModelRows /\ \A y \in M!ModelRows : w >= y
    <3>1. CASE M!ModelRows = {}
      BY <2>1, <3>1 DEF M!LatestModels
    <3>2. CASE M!ModelRows # {}
      <4>1. M!LatestModels # {}
        BY <2>5, <3>2, HighestExists DEF ModelInv, HighestIsLatest, M!LatestModels
      <4> QED
        BY <2>1, <3>2, <4>1 DEF ModelInv, HighestIsLatest, M!LatestModels
    <3> QED
      BY <3>1, <3>2
  <2>7. w \in 0 .. MaxModelVersion - 1
    <3>1. w = 0 \/ w \in 1 .. MaxModelVersion
      BY <2>5, <2>6
    <3> QED
      BY <2>1, <3>1
  <2>8. ModelRequestOK(r)
    BY <2>3, <2>6, <2>7 DEF ModelRequestOK
  <2>9. ModelInv(r)'
    BY <2>3, <2>4, <2>8 DEF ModelInv, ModelsOK, IsModel, HighestIsLatest, M!ModelRows, ModelRequestOK,
          M!SecondLatestModel, ServiceOK, DeployedOK, MappingOK, Changing, M!NoModelRequest
  <2> QED
    BY <2>9 DEF ModelsInv
<1>2. CASE M!DeleteModelRead(s, v)
  <2>1. PICK r : r = [op |-> "delete", at |-> "commit", version |-> v,
                      next |-> IF models[v].latest THEN M!SecondLatestModel ELSE 0]
    OBVIOUS
  <2>2. /\ r.op = "delete" /\ r.version = v /\ r # M!NoModelRequest
        /\ r = [op |-> "delete", at |-> "commit", version |-> r.version, next |-> r.next]
        /\ r.next = IF models[v].latest THEN M!SecondLatestModel ELSE 0
    BY <2>1 DEF M!NoModelRequest
  <2>3. v \in M!ModelRows /\ M!ModelBegins(s, r)
    BY <1>2, <2>1 DEF M!DeleteModelRead
  <2>4. q = M!NoModelRequest /\ Current(r)' /\ UNCHANGED <<models, service, mapping, mishaps>>
    BY <2>2, <2>3, ModelBegins
  <2>5. ModelRequestOK(r)
    BY <2>2, <2>3 DEF ModelRequestOK
  <2>6. ModelInv(r)'
    BY <2>2, <2>4, <2>5 DEF ModelInv, ModelsOK, IsModel, HighestIsLatest, M!ModelRows, ModelRequestOK,
          M!SecondLatestModel, ServiceOK, DeployedOK, MappingOK, Changing, M!NoModelRequest
  <2> QED
    BY <2>6 DEF ModelsInv
<1>3. CASE M!Deploy(s, v) \/ M!Undeploy(s, v)
  <2>1. PICK op \in {"deploy", "undeploy"} :
            /\ v \in M!ModelRows
            /\ M!ModelBegins(s, [op |-> op, at |-> "check", version |-> v,
                                 seen |-> models[v].status])
    BY <1>3 DEF M!Deploy, M!Undeploy
  <2>2. PICK r : r = [op |-> op, at |-> "check", version |-> v, seen |-> models[v].status]
    OBVIOUS
  <2>3. /\ r.op \in {"deploy", "undeploy"} /\ r.version = v /\ r # M!NoModelRequest
        /\ r = [op |-> r.op, at |-> r.at, version |-> r.version, seen |-> r.seen]
        /\ r.seen = models[v].status /\ r.at = "check"
    BY <2>1, <2>2 DEF M!NoModelRequest
  <2>4. q = M!NoModelRequest /\ Current(r)' /\ UNCHANGED <<models, service, mapping, mishaps>>
    BY <2>1, <2>2, <2>3, ModelBegins
  <2>5. ModelRequestOK(r)
    BY <2>1, <2>3 DEF ModelRequestOK
  <2>6. ModelInv(r)'
    BY <2>3, <2>4, <2>5 DEF ModelInv, ModelsOK, IsModel, HighestIsLatest, M!ModelRows, ModelRequestOK,
          M!SecondLatestModel, ServiceOK, DeployedOK, MappingOK, Changing, M!NoModelRequest
  <2> QED
    BY <2>6 DEF ModelsInv
<1> QED
  BY <1>1, <1>2, <1>3

\* A model whose latest flag is set or taken away.
LEMMA Flagged ==
    ASSUME NEW b, NEW l, NEW st, b = [latest |-> l, status |-> st],
           NEW f \in BOOLEAN, NEW m, m = [b EXCEPT !.latest = f]
    PROVE  m = [latest |-> f, status |-> st]
OBVIOUS

\* A status that is set: the rows and the latest ones stay.
LEMMA StatusSet ==
    ASSUME ModelsOK, HighestIsLatest, NEW r, r.version \in M!ModelRows,
           r.seen = models[r.version].status,
           NEW status \in {"ready", "deployed"}, M!SetStatus(r, status)
    PROVE  /\ ModelsOK' /\ HighestIsLatest' /\ M!ModelRows' = M!ModelRows
           /\ models'[r.version].status = status
           /\ \A v \in M!ModelRows : v # r.version => models'[v] = models[v]
<1>1. PICK v : v = r.version
  OBVIOUS
<1>2. v \in M!ModelVersion /\ v \in M!ModelRows
  BY <1>1 DEF M!ModelRows
<1>3. PICK l \in BOOLEAN, st \in {"ready", "deployed"} :
          models[v] = [latest |-> l, status |-> st]
  BY <1>2 DEF ModelsOK, IsModel, M!ModelRows
<1>4. /\ DOMAIN models' = M!ModelVersion
      /\ models'[v] = [latest |-> l, status |-> status]
      /\ \A x \in M!ModelVersion \ {v} : models'[x] = models[x]
  <2>1. CASE r.seen # status
    BY <1>1, <1>2, <1>3, <2>1 DEF M!SetStatus, ModelsOK
  <2>2. CASE r.seen = status
    BY <1>1, <1>2, <1>3, <2>2 DEF M!SetStatus, ModelsOK
  <2> QED
    BY <2>1, <2>2
<1>5. /\ models'[v].latest = l /\ models'[v].status = status
      /\ models'[v] # M!NoModel
  BY <1>4 DEF M!NoModel
<1>6. ModelsOK'
  <2>1. IsModel(models'[v])
    BY <1>4 DEF IsModel
  <2> QED
    BY <1>4, <2>1 DEF ModelsOK, IsModel
<1>7. M!ModelRows' = M!ModelRows
  BY <1>2, <1>4, <1>5 DEF M!ModelRows
<1>8. HighestIsLatest'
  <2> SUFFICES ASSUME NEW x \in M!ModelRows
               PROVE  models'[x].latest = models[x].latest
    BY <1>7 DEF HighestIsLatest
  <2> QED
    BY <1>3, <1>4, <1>5 DEF M!ModelRows
<1> QED
  BY <1>1, <1>2, <1>4, <1>5, <1>6, <1>7, <1>8 DEF M!ModelRows

\* The next version becomes the latest.
LEMMA CreateCommitStep ==
    ASSUME MaxModelVersion \in Nat, NEW q, ModelInv(q), NEW s \in ModelSession,
           M!CreateModelCommit(s)
    PROVE  ModelsInv'
<1>1. PICK v : v = modelRequest[s].version
  OBVIOUS
<1>2. /\ modelRequest[s].op = "create" /\ modelRequest[s] # M!NoModelRequest
      /\ modelRequest' = [modelRequest EXCEPT ![s] = M!NoModelRequest]
      /\ UNCHANGED <<service, mapping, mishaps>>
  BY DEF M!CreateModelCommit, M!At, M!NoModelRequest, M!ModelEnds
<1>3. q = modelRequest[s] /\ Current(M!NoModelRequest)'
  BY <1>2, ModelGoes DEF ModelInv
<1>4. /\ v \in 0 .. MaxModelVersion - 1
      /\ IF M!ModelRows = {} THEN v = 0
         ELSE v \in M!ModelRows /\ \A y \in M!ModelRows : v >= y
  BY <1>1, <1>2, <1>3 DEF ModelInv, ModelRequestOK, M!NoModelRequest
<1>5. M!ModelRows \in SUBSET (1 .. MaxModelVersion)
  BY DEF M!ModelRows, M!ModelVersion
<1>6. v + 1 \in M!ModelVersion /\ v + 1 \notin M!ModelRows /\ (v > 0 => v \in M!ModelRows)
  BY <1>4, <1>5 DEF M!ModelVersion
<1>7. models' = [x \in M!ModelVersion |->
                    IF x = v + 1 THEN [latest |-> TRUE, status |-> "ready"]
                    ELSE IF x = v THEN [models[x] EXCEPT !.latest = FALSE]
                    ELSE models[x]]
  BY <1>1, <1>6 DEF M!CreateModelCommit
<1>8. /\ DOMAIN models' = M!ModelVersion
      /\ models'[v + 1] = [latest |-> TRUE, status |-> "ready"]
      /\ \A x \in M!ModelVersion \ {v, v + 1} : models'[x] = models[x]
  BY <1>6, <1>7
<1>9. ASSUME v \in M!ModelRows
      PROVE  /\ models'[v] = [latest |-> FALSE, status |-> models[v].status]
             /\ models[v].status \in {"ready", "deployed"}
  <2>1. v \in M!ModelVersion /\ models[v] # M!NoModel /\ v # v + 1
    BY <1>4, <1>9 DEF M!ModelRows
  <2>2. PICK l \in BOOLEAN, st \in {"ready", "deployed"} :
            models[v] = [latest |-> l, status |-> st]
    BY <2>1 DEF ModelInv, ModelsOK, IsModel
  <2>3. models'[v] = [models[v] EXCEPT !.latest = FALSE]
    BY <1>7, <2>1
  <2>4. PICK b : b = models[v]
    OBVIOUS
  <2>5. b = [latest |-> l, status |-> st]
    BY <2>2, <2>4
  <2>6. PICK f, m : f \in BOOLEAN /\ f = FALSE /\ m = [b EXCEPT !.latest = f]
    OBVIOUS
  <2>7. m = [latest |-> f, status |-> st]
    BY <2>5, <2>6, Flagged
  <2>8. models[v].status = st
    BY <2>2
  <2> QED
    BY <2>3, <2>4, <2>6, <2>7, <2>8
<1>10. v \in M!ModelVersion => v \in M!ModelRows
  BY <1>4, <1>6 DEF M!ModelVersion
<1>11. ModelsOK'
  <2> SUFFICES ASSUME NEW x \in M!ModelVersion
               PROVE  IsModel(models'[x])
    BY <1>8 DEF ModelsOK, IsModel
  <2>1. CASE x = v
    BY <1>9, <1>10, <2>1 DEF IsModel
  <2>2. CASE x = v + 1
    BY <1>8, <2>2 DEF IsModel
  <2>3. CASE x \notin {v, v + 1}
    BY <1>8, <2>3 DEF ModelInv, ModelsOK, IsModel
  <2> QED
    BY <2>1, <2>2, <2>3
<1>12. M!ModelRows' = M!ModelRows \cup {v + 1}
  <2> SUFFICES ASSUME NEW x \in M!ModelVersion
               PROVE  models'[x] # M!NoModel <=> (models[x] # M!NoModel \/ x = v + 1)
    BY <1>6 DEF M!ModelRows
  <2>1. CASE x = v
    BY <1>9, <1>10, <2>1 DEF M!NoModel, M!ModelRows
  <2>2. CASE x = v + 1
    BY <1>8, <2>2 DEF M!NoModel
  <2>3. CASE x \notin {v, v + 1}
    BY <1>8, <2>3
  <2> QED
    BY <2>1, <2>2, <2>3
<1>13. HighestIsLatest'
  <2> SUFFICES ASSUME NEW x \in M!ModelRows \cup {v + 1}
               PROVE  models'[x].latest
                          <=> \A y \in M!ModelRows \cup {v + 1} : x >= y
    BY <1>12 DEF HighestIsLatest
  <2>1. CASE x = v + 1
    <3>1. \A y \in M!ModelRows : v + 1 >= y
      BY <1>4, <1>5
    <3> QED
      BY <1>4, <1>8, <2>1, <3>1
  <2>2. CASE x # v + 1
    <3>1. x \in M!ModelRows /\ v \in M!ModelRows /\ v >= x /\ x \in 1 .. MaxModelVersion
      BY <1>4, <1>5, <2>2
    <3>2. ~(x >= v + 1)
      BY <1>4, <3>1
    <3>3. CASE x = v
      BY <1>9, <3>1, <3>2, <3>3
    <3>4. CASE x # v
      <4>1. models'[x] = models[x]
        BY <1>8, <2>2, <3>1, <3>4 DEF M!ModelRows
      <4>2. ~ (x >= v)
        BY <1>4, <3>1, <3>4
      <4>3. ~models[x].latest
        BY <3>1, <4>2 DEF ModelInv, HighestIsLatest
      <4> QED
        BY <3>2, <4>1, <4>3
    <3> QED
      BY <3>3, <3>4
  <2> QED
    BY <2>1, <2>2
<1>14. ASSUME service \in M!ModelRows
       PROVE  service \in M!ModelRows' /\ models'[service].status = models[service].status
  BY <1>6, <1>8, <1>9, <1>12, <1>14 DEF M!ModelRows
<1>15. /\ ServiceOK(M!NoModelRequest)' /\ DeployedOK(M!NoModelRequest)'
       /\ MappingOK(M!NoModelRequest)'
  BY <1>2, <1>3, <1>14 DEF ModelInv, ServiceOK, DeployedOK, MappingOK, Changing, M!NoModelRequest
<1>16. ModelInv(M!NoModelRequest)'
  BY <1>3, <1>11, <1>13, <1>15 DEF ModelInv, ModelRequestOK
<1> QED
  BY <1>16 DEF ModelsInv

\* A version is deleted; when it was the latest, the second one becomes it.
LEMMA DeleteCommitStep ==
    ASSUME MaxModelVersion \in Nat, NEW q, ModelInv(q), NEW s \in ModelSession,
           M!DeleteModelCommit(s)
    PROVE  ModelsInv'
<1>1. PICK r, v, n : r = modelRequest[s] /\ v = r.version /\ n = r.next
  OBVIOUS
<1>2. /\ r.op = "delete" /\ modelRequest[s] # M!NoModelRequest
      /\ modelRequest' = [modelRequest EXCEPT ![s] = M!NoModelRequest]
      /\ UNCHANGED <<service, mapping>>
      /\ mishaps' = IF service = v THEN mishaps \cup {"orphaned"} ELSE mishaps
  BY <1>1 DEF M!DeleteModelCommit, M!At, M!NoModelRequest
<1>3. q = r /\ Current(M!NoModelRequest)'
  BY <1>1, <1>2, ModelGoes DEF ModelInv
<1>4. /\ v \in M!ModelRows
      /\ n = IF models[v].latest THEN M!SecondLatestModel ELSE 0
  BY <1>1, <1>2, <1>3 DEF ModelInv, ModelRequestOK, M!NoModelRequest
<1>5. M!ModelRows \in SUBSET (1 .. MaxModelVersion)
  BY DEF M!ModelRows, M!ModelVersion
<1>6. models[v].latest /\ M!ModelRows # {v} =>
          n \in M!ModelRows \ {v} /\ \A y \in M!ModelRows \ {v} : n >= y
  <2> SUFFICES ASSUME models[v].latest, M!ModelRows # {v}
               PROVE  n \in M!ModelRows \ {v} /\ \A y \in M!ModelRows \ {v} : n >= y
    OBVIOUS
  <2>1. \A y \in M!ModelRows : v >= y
    BY <1>4 DEF ModelInv, HighestIsLatest
  <2>2. n = IF Cardinality(M!ModelRows) < 2 THEN 0
            ELSE Max(M!ModelRows \ {Max(M!ModelRows)})
    BY <1>4, LibrariesOfModels DEF M!SecondLatestModel
  <2> QED
    BY <1>4, <1>5, <2>1, <2>2, SecondIs
<1>7. ~models[v].latest \/ M!ModelRows = {v} => n = 0
  <2>1. CASE ~models[v].latest
    BY <1>4, <2>1
  <2>2. CASE models[v].latest /\ M!ModelRows = {v}
    <3>1. n = IF Cardinality(M!ModelRows) < 2 THEN 0
              ELSE Max(M!ModelRows \ {Max(M!ModelRows)})
      BY <1>4, <2>2, LibrariesOfModels DEF M!SecondLatestModel
    <3>2. \A y \in M!ModelRows : v >= y
      BY <1>4 , <2>2 DEF ModelInv, HighestIsLatest
    <3> QED
      BY <1>4, <1>5, <2>2, <3>1, <3>2, SecondIs
  <2> QED
    BY <2>1, <2>2
<1>8. n = 0 \/ n \in M!ModelRows \ {v}
  BY <1>6, <1>7
<1>9. /\ models' = [x \in M!ModelVersion |->
                       IF x = v THEN M!NoModel
                       ELSE IF x = n THEN [models[x] EXCEPT !.latest = TRUE]
                       ELSE models[x]]
      /\ 0 \notin M!ModelVersion
  <2>1. ~(n > 0 /\ n \notin M!ModelRows)
    BY <1>8
  <2> QED
    BY <1>1, <2>1 DEF M!DeleteModelCommit, M!ModelVersion
<1>10. /\ DOMAIN models' = M!ModelVersion /\ models'[v] = M!NoModel
       /\ \A x \in M!ModelVersion \ {v, n} : models'[x] = models[x]
  BY <1>4, <1>9 DEF M!ModelRows
<1>11. ASSUME n # 0
       PROVE  /\ n \in M!ModelRows \ {v} /\ n \in M!ModelVersion
              /\ models'[n] # M!NoModel /\ IsModel(models'[n])
              /\ models'[n].latest = TRUE /\ models'[n].status = models[n].status
  <2>1. n \in M!ModelRows \ {v} /\ n \in M!ModelVersion /\ models[n] # M!NoModel
    BY <1>8, <1>11 DEF M!ModelRows
  <2>2. PICK l \in BOOLEAN, st \in {"ready", "deployed"} :
            models[n] = [latest |-> l, status |-> st]
    BY <2>1 DEF ModelInv, ModelsOK, IsModel
  <2>3. PICK b : b = models[n]
    OBVIOUS
  <2>4. models'[n] = [b EXCEPT !.latest = TRUE]
    BY <1>9, <2>1, <2>3
  <2>5. b = [latest |-> l, status |-> st]
    BY <2>2, <2>3
  <2>6. PICK f, m : f \in BOOLEAN /\ f = TRUE /\ m = [b EXCEPT !.latest = f]
    OBVIOUS
  <2>7. m = [latest |-> f, status |-> st]
    BY <2>5, <2>6, Flagged
  <2>8. models'[n] = [latest |-> f, status |-> st]
    BY <2>4, <2>6, <2>7
  <2>9. IsModel(models'[n])
    BY <2>2, <2>6, <2>8 DEF IsModel
  <2>10. models'[n] # M!NoModel
    BY <2>6, <2>8 DEF M!NoModel
  <2>11. models'[n].latest = TRUE
    BY <2>6, <2>8
  <2>12. models'[n].status = models[n].status
    BY <2>2, <2>8
  <2> QED
    BY <2>1, <2>9, <2>10, <2>11, <2>12
<1>12. ModelsOK'
  <2> SUFFICES ASSUME NEW x \in M!ModelVersion
               PROVE  IsModel(models'[x])
    BY <1>10 DEF ModelsOK, IsModel
  <2>1. CASE x = v
    BY <1>10, <2>1 DEF IsModel
  <2>2. CASE x = n /\ x # v
    BY <1>9, <1>11, <2>2
  <2>3. CASE x \notin {v, n}
    BY <1>10, <2>3 DEF ModelInv, ModelsOK
  <2> QED
    BY <2>1, <2>2, <2>3
<1>13. M!ModelRows' = M!ModelRows \ {v}
  <2> SUFFICES ASSUME NEW x \in M!ModelVersion
               PROVE  models'[x] # M!NoModel <=> (models[x] # M!NoModel /\ x # v)
    BY DEF M!ModelRows
  <2>1. CASE x = v
    BY <1>10, <2>1
  <2>2. CASE x = n /\ x # v
    BY <1>9, <1>11, <2>2 DEF M!ModelRows
  <2>3. CASE x \notin {v, n}
    BY <1>10, <2>3
  <2> QED
    BY <2>1, <2>2, <2>3
<1>14. HighestIsLatest'
  <2> SUFFICES ASSUME NEW x \in M!ModelRows \ {v}
               PROVE  models'[x].latest <=> \A y \in M!ModelRows \ {v} : x >= y
    BY <1>13 DEF HighestIsLatest
  <2>1. /\ \A y \in M!ModelRows : y \in 1 .. MaxModelVersion
        /\ x \in M!ModelVersion
        /\ models[x].latest <=> \A y \in M!ModelRows : x >= y
        /\ models[v].latest <=> \A y \in M!ModelRows : v >= y
    BY <1>4, <1>5 DEF ModelInv, HighestIsLatest, M!ModelRows
  <2>2. CASE n = 0
    <3>1. models'[x] = models[x]
      BY <1>9, <1>10, <2>1, <2>2
    <3>2. ~models[v].latest
      <4>1. 0 \notin M!ModelRows /\ M!ModelRows # {v}
        BY <2>1, <2>2
      <4> QED
        BY <1>6, <2>2, <4>1
    <3> QED
      BY <1>4, <2>1, <3>1, <3>2
  <2>3. CASE n # 0
    <3>1. /\ models[v].latest /\ n \in M!ModelRows \ {v}
          /\ \A y \in M!ModelRows \ {v} : n >= y
      BY <1>6, <1>7, <2>3
    <3>2. CASE x = n
      BY <1>11, <2>3, <3>1, <3>2
    <3>3. CASE x # n
      <4>1. models'[x] = models[x]
        BY <1>10, <2>1, <3>3
      <4>2. ~ (x >= v) /\ ~ (x >= n)
        BY <1>4, <2>1, <3>1, <3>3
      <4> QED
        BY <1>4, <2>1, <3>1, <4>1, <4>2
    <3> QED
      BY <3>2, <3>3
  <2> QED
    BY <2>2, <2>3
<1>15. ASSUME service \in M!ModelRows, service # v
       PROVE  service \in M!ModelRows' /\ models'[service].status = models[service].status
  <2>1. service \in M!ModelVersion
    BY <1>15 DEF M!ModelRows
  <2> QED
    BY <1>9, <1>10, <1>11, <1>13, <1>15, <2>1
<1>16. DeployedOK(M!NoModelRequest)'
  <2> SUFFICES ASSUME mishaps' \cap {"crash", "orphaned"} = {}, service # 0
               PROVE  service \in M!ModelRows' /\ models'[service].status = "deployed"
    BY <1>2 DEF DeployedOK
  <2>1. service # v /\ mishaps \cap {"crash", "orphaned"} = {}
    BY <1>2
  <2>2. service \in M!ModelRows /\ models[service].status = "deployed"
    BY <1>2, <1>3, <2>1 DEF ModelInv, DeployedOK
  <2> QED
    BY <1>15, <2>1, <2>2
<1>17. /\ ServiceOK(M!NoModelRequest)' /\ MappingOK(M!NoModelRequest)'
  BY <1>2, <1>3 DEF ModelInv, ServiceOK, MappingOK, Changing, M!NoModelRequest
<1>18. ModelInv(M!NoModelRequest)'
  BY <1>3, <1>12, <1>14, <1>16, <1>17 DEF ModelInv, ModelRequestOK
<1> QED
  BY <1>18 DEF ModelsInv

\* One call of a deployment, or of its removal.
LEMMA ModelCallStep ==
    ASSUME NEW q, ModelInv(q), NEW s \in ModelSession,
           \/ M!DeployCheck(s) \/ M!CreateMapping(s) \/ M!CreateService(s)
           \/ M!UndeployCheck(s) \/ M!DeleteService(s) \/ M!DeleteMapping(s)
           \/ M!DeployCommit(s) \/ M!UndeployCommit(s)
    PROVE  ModelsInv'
<1>1. PICK v : v = q.version
  OBVIOUS
<1>2. /\ modelRequest[s].op \in {"deploy", "undeploy"}
      /\ modelRequest[s] # M!NoModelRequest /\ UNCHANGED mishaps
  BY DEF M!DeployCheck, M!CreateMapping, M!CreateService, M!UndeployCheck, M!DeleteService,
         M!DeleteMapping, M!DeployCommit, M!UndeployCommit, M!At, M!NoModelRequest,
         M!ModelEnds, M!ModelGoes
<1>3. /\ \E r : modelRequest' = [modelRequest EXCEPT ![s] = r]
      /\ Current(q)
  BY DEF M!DeployCheck, M!CreateMapping, M!CreateService, M!UndeployCheck, M!DeleteService,
         M!DeleteMapping, M!DeployCommit, M!UndeployCommit, M!ModelEnds, M!ModelGoes, ModelInv
<1>4. q = modelRequest[s]
  BY <1>2, <1>3, ModelGoes
<1>5. /\ q = [op |-> q.op, at |-> q.at, version |-> v, seen |-> q.seen]
      /\ v \in M!ModelRows /\ q.seen = models[v].status /\ v # 0
  BY <1>1, <1>2, <1>4 DEF ModelInv, ModelRequestOK, M!NoModelRequest, M!ModelRows, M!ModelVersion
<1>6. ASSUME modelRequest' = [modelRequest EXCEPT ![s] = M!NoModelRequest],
             ModelsOK', HighestIsLatest',
             ServiceOK(M!NoModelRequest)', DeployedOK(M!NoModelRequest)',
             MappingOK(M!NoModelRequest)'
      PROVE  ModelsInv'
  <2>1. Current(M!NoModelRequest)'
    BY <1>2, <1>3, <1>6, ModelGoes
  <2> QED
    BY <1>6, <2>1 DEF ModelsInv, ModelInv, ModelRequestOK
<1>7. ASSUME NEW r, r = [q EXCEPT !.at = r.at], UNCHANGED models,
             modelRequest' = [modelRequest EXCEPT ![s] = r],
             ServiceOK(r)', DeployedOK(r)', MappingOK(r)'
      PROVE  ModelsInv'
  <2>1. Current(r)'
    BY <1>2, <1>3, <1>7, ModelGoes
  <2>2. /\ r = [op |-> r.op, at |-> r.at, version |-> r.version, seen |-> r.seen]
        /\ r.op = q.op /\ r.version = v /\ r.seen = q.seen
    BY <1>5, <1>7
  <2>3. ModelRequestOK(r)'
    BY <1>2, <1>4, <1>5, <1>7, <2>2 DEF ModelRequestOK, M!ModelRows
  <2>4. ModelsOK' /\ HighestIsLatest'
    BY <1>7 DEF ModelInv, ModelsOK, HighestIsLatest, M!ModelRows
  <2> QED
    BY <1>7, <2>1, <2>3, <2>4 DEF ModelsInv, ModelInv
<1>8. CASE M!DeployCheck(s)
  <2>1. CASE service # 0
    <3>1. q.op = "deploy" /\ q.at = "check"
          /\ M!ModifyStatus(q, "ready", "deployed") /\ UNCHANGED <<service, mapping>>
          /\ modelRequest' = [modelRequest EXCEPT ![s] = M!NoModelRequest]
      BY <1>4, <1>8, <2>1 DEF M!DeployCheck, M!ModelEnds, M!At
    <3>2. \/ UNCHANGED models
          \/ M!SetStatus(q, "deployed")
      BY <3>1 DEF M!ModifyStatus
    <3>3. /\ ModelsOK' /\ HighestIsLatest' /\ M!ModelRows' = M!ModelRows
          /\ \A x \in M!ModelRows : models'[x].status \in {models[x].status, "deployed"}
      <4>1. CASE UNCHANGED models
        BY <4>1 DEF ModelInv, ModelsOK, HighestIsLatest, M!ModelRows
      <4>2. CASE M!SetStatus(q, "deployed")
        BY <1>1, <1>5, <4>2, StatusSet DEF ModelInv
      <4> QED
        BY <3>2, <4>1, <4>2
    <3>4. /\ ServiceOK(M!NoModelRequest)' /\ DeployedOK(M!NoModelRequest)'
          /\ MappingOK(M!NoModelRequest)'
      BY <1>2, <3>1, <3>3 DEF ModelInv, ServiceOK, DeployedOK, MappingOK, Changing,
                              M!NoModelRequest
    <3> QED
      BY <1>6, <3>1, <3>3, <3>4
  <2>2. CASE service = 0
    <3>1. PICK r : r = [q EXCEPT !.at = "mapping"]
      OBVIOUS
    <3>2. r.at = "mapping" /\ r.op = q.op
      BY <1>5, <3>1
    <3>3. /\ q.op = "deploy" /\ UNCHANGED <<models, service, mapping>>
          /\ modelRequest' = [modelRequest EXCEPT ![s] = r]
      BY <1>4, <1>8, <2>2, <3>1 DEF M!DeployCheck, M!ModelGoes, M!At
    <3>4. ServiceOK(r)' /\ DeployedOK(r)' /\ MappingOK(r)'
      BY <2>2, <3>2, <3>3 DEF ServiceOK, DeployedOK, MappingOK, Changing
    <3> QED
      BY <1>7, <3>1, <3>2, <3>3, <3>4
  <2> QED
    BY <2>1, <2>2
<1>9. CASE M!CreateMapping(s)
  <2>1. PICK r : r = [q EXCEPT !.at = "service"]
    OBVIOUS
  <2>2. r.at = "service" /\ r.op = q.op
    BY <1>5, <2>1
  <2>3. /\ q.op = "deploy" /\ q.at = "mapping" /\ UNCHANGED <<models, service>> /\ mapping'
        /\ modelRequest' = [modelRequest EXCEPT ![s] = r]
    BY <1>4, <1>9, <2>1 DEF M!CreateMapping, M!ModelGoes, M!At
  <2>4. ServiceOK(r)' /\ DeployedOK(r)' /\ MappingOK(r)'
    BY <2>2, <2>3 DEF ModelInv, ServiceOK, DeployedOK, MappingOK, Changing
  <2> QED
    BY <1>7, <2>1, <2>2, <2>3, <2>4
<1>10. CASE M!CreateService(s)
  <2>1. PICK r : r = [q EXCEPT !.at = "commit"]
    OBVIOUS
  <2>2. r.at = "commit" /\ r.op = q.op /\ r.version = v
    BY <1>5, <2>1
  <2>3. q.op = "deploy" /\ q.at = "service" /\ service = 0
    BY <1>4, <1>10 DEF M!CreateService, M!At, ModelInv, ServiceOK, Changing
  <2>4. /\ UNCHANGED <<models, mapping>> /\ service' = v
        /\ modelRequest' = [modelRequest EXCEPT ![s] = r]
    BY <1>1, <1>4, <1>10, <2>1, <2>3 DEF M!CreateService, M!ModelGoes
  <2>5. ServiceOK(r)' /\ DeployedOK(r)' /\ MappingOK(r)'
    BY <1>2, <1>5, <2>2, <2>3, <2>4
    DEF ModelInv, ServiceOK, DeployedOK, MappingOK, Changing, M!ModelRows
  <2> QED
    BY <1>7, <2>1, <2>2, <2>4, <2>5
<1>11. CASE M!UndeployCheck(s)
  <2>1. CASE service = 0
    <3>1. q.op = "undeploy" /\ q.at = "check"
          /\ M!ModifyStatus(q, "deployed", "ready") /\ UNCHANGED <<service, mapping>>
          /\ modelRequest' = [modelRequest EXCEPT ![s] = M!NoModelRequest]
      BY <1>4, <1>11, <2>1 DEF M!UndeployCheck, M!ModelEnds, M!At
    <3>2. ModelsOK' /\ HighestIsLatest'
      <4>1. CASE UNCHANGED models
        BY <4>1 DEF ModelInv, ModelsOK, HighestIsLatest, M!ModelRows
      <4>2. CASE M!SetStatus(q, "ready")
        BY <1>1, <1>5, <4>2, StatusSet DEF ModelInv
      <4> QED
        BY <3>1, <4>1, <4>2 DEF M!ModifyStatus
    <3>3. /\ ServiceOK(M!NoModelRequest)' /\ DeployedOK(M!NoModelRequest)'
          /\ MappingOK(M!NoModelRequest)'
      BY <1>2, <2>1, <3>1 DEF ModelInv, ServiceOK, DeployedOK, MappingOK, Changing,
                              M!NoModelRequest
    <3> QED
      BY <1>6, <3>1, <3>2, <3>3
  <2>2. CASE service # 0
    <3>1. PICK r : r = [q EXCEPT !.at = "service"]
      OBVIOUS
    <3>2. r.at = "service" /\ r.op = q.op
      BY <1>5, <3>1
    <3>3. /\ q.op = "undeploy" /\ q.at = "check" /\ UNCHANGED <<models, service, mapping>>
          /\ modelRequest' = [modelRequest EXCEPT ![s] = r]
      BY <1>4, <1>11, <2>2, <3>1 DEF M!UndeployCheck, M!ModelGoes, M!At
    <3>4. ServiceOK(r)' /\ DeployedOK(r)' /\ MappingOK(r)'
      BY <1>2, <3>2, <3>3
      DEF ModelInv, ServiceOK, DeployedOK, MappingOK, Changing, M!ModelRows
    <3> QED
      BY <1>7, <3>1, <3>2, <3>3, <3>4
  <2> QED
    BY <2>1, <2>2
<1>12. CASE M!DeleteService(s)
  <2>1. CASE service = 0
    <3>1. q.op = "undeploy" /\ q.at = "service" /\ UNCHANGED <<models, service, mapping>>
          /\ modelRequest' = [modelRequest EXCEPT ![s] = M!NoModelRequest]
      BY <1>4, <1>12, <2>1 DEF M!DeleteService, M!ModelEnds, M!At
    <3>2. ModelsOK' /\ HighestIsLatest'
      BY <3>1 DEF ModelInv, ModelsOK, HighestIsLatest, M!ModelRows
    <3>3. /\ ServiceOK(M!NoModelRequest)' /\ DeployedOK(M!NoModelRequest)'
          /\ MappingOK(M!NoModelRequest)'
      BY <1>2, <2>1, <3>1 DEF ModelInv, ServiceOK, DeployedOK, MappingOK, Changing,
                              M!NoModelRequest
    <3> QED
      BY <1>6, <3>1, <3>2, <3>3
  <2>2. CASE service # 0
    <3>1. PICK r : r = [q EXCEPT !.at = "mapping"]
      OBVIOUS
    <3>2. r.at = "mapping" /\ r.op = q.op
      BY <1>5, <3>1
    <3>3. /\ q.op = "undeploy" /\ UNCHANGED <<models, mapping>> /\ service' = 0
          /\ modelRequest' = [modelRequest EXCEPT ![s] = r]
      BY <1>4, <1>12, <2>2, <3>1 DEF M!DeleteService, M!ModelGoes, M!At
    <3>4. ServiceOK(r)' /\ DeployedOK(r)' /\ MappingOK(r)'
      BY <3>2, <3>3 DEF ServiceOK, DeployedOK, MappingOK, Changing
    <3> QED
      BY <1>7, <3>1, <3>2, <3>3, <3>4
  <2> QED
    BY <2>1, <2>2
<1>13. CASE M!DeleteMapping(s)
  <2>1. PICK r : r = [q EXCEPT !.at = "commit"]
    OBVIOUS
  <2>2. r.at = "commit" /\ r.op = q.op
    BY <1>5, <2>1
  <2>3. /\ q.op = "undeploy" /\ q.at = "mapping" /\ UNCHANGED <<models, service>> /\ ~mapping'
        /\ modelRequest' = [modelRequest EXCEPT ![s] = r]
    BY <1>4, <1>13, <2>1 DEF M!DeleteMapping, M!ModelGoes, M!At
  <2>4. service = 0
    BY <2>3 DEF ModelInv, ServiceOK, Changing
  <2>5. ServiceOK(r)' /\ DeployedOK(r)' /\ MappingOK(r)'
    BY <2>2, <2>3, <2>4 DEF ServiceOK, DeployedOK, MappingOK, Changing
  <2> QED
    BY <1>7, <2>1, <2>2, <2>3, <2>5
<1>14. CASE M!DeployCommit(s)
  <2>1. /\ q.op = "deploy" /\ q.at = "commit" /\ UNCHANGED <<service, mapping>>
        /\ M!SetStatus(q, "deployed")
        /\ modelRequest' = [modelRequest EXCEPT ![s] = M!NoModelRequest]
    BY <1>4, <1>14 DEF M!DeployCommit, M!ModelEnds, M!At
  <2>2. /\ ModelsOK' /\ HighestIsLatest' /\ M!ModelRows' = M!ModelRows
        /\ models'[v].status = "deployed"
    BY <1>1, <1>5, <2>1, StatusSet DEF ModelInv
  <2>3. service = v
    BY <1>1, <2>1 DEF ModelInv, ServiceOK
  <2>4. /\ ServiceOK(M!NoModelRequest)' /\ DeployedOK(M!NoModelRequest)'
        /\ MappingOK(M!NoModelRequest)'
    BY <1>2, <1>5, <2>1, <2>2, <2>3 DEF ModelInv, ServiceOK, DeployedOK, MappingOK, Changing,
                                        M!NoModelRequest
  <2> QED
    BY <1>6, <2>1, <2>2, <2>4
<1>15. CASE M!UndeployCommit(s)
  <2>1. /\ q.op = "undeploy" /\ q.at = "commit" /\ UNCHANGED <<service, mapping>>
        /\ M!SetStatus(q, "ready")
        /\ modelRequest' = [modelRequest EXCEPT ![s] = M!NoModelRequest]
    BY <1>4, <1>15 DEF M!UndeployCommit, M!ModelEnds, M!At
  <2>2. ModelsOK' /\ HighestIsLatest'
    BY <1>1, <1>5, <2>1, StatusSet DEF ModelInv
  <2>3. service = 0
    BY <2>1 DEF ModelInv, ServiceOK
  <2>4. /\ ServiceOK(M!NoModelRequest)' /\ DeployedOK(M!NoModelRequest)'
        /\ MappingOK(M!NoModelRequest)'
    BY <1>2, <2>1, <2>3 DEF ModelInv, ServiceOK, DeployedOK, MappingOK, Changing,
                            M!NoModelRequest
  <2> QED
    BY <1>6, <2>1, <2>2, <2>4
<1> QED
  BY <1>8, <1>9, <1>10, <1>11, <1>12, <1>13, <1>14, <1>15

\* A call fails, or the process ends: the requests end where they are.
LEMMA ModelFaultStep ==
    ASSUME NEW q, ModelInv(q), M!CrashModels \/ \E s \in ModelSession : M!ApiFails(s)
    PROVE  ModelsInv'
<1>1. UNCHANGED <<models, service, mapping>>
  BY DEF M!CrashModels, M!ApiFails
<1>2. ModelsOK' /\ HighestIsLatest'
  BY <1>1 DEF ModelInv, ModelsOK, HighestIsLatest, M!ModelRows
<1>3. CASE M!CrashModels
  <2>1. mishaps' = mishaps \cup {"crash"}
        /\ modelRequest' = [s \in ModelSession |-> M!NoModelRequest]
    BY <1>3 DEF M!CrashModels
  <2>2. Current(M!NoModelRequest)'
    BY <2>1 DEF Current
  <2>3. M!NoModelRequest.op = "none"
    BY DEF M!NoModelRequest
  <2>4. /\ ServiceOK(M!NoModelRequest)' /\ DeployedOK(M!NoModelRequest)'
        /\ MappingOK(M!NoModelRequest)'
    BY <2>1, <2>3 DEF ServiceOK, DeployedOK, MappingOK, Changing
  <2> QED
    BY <1>2, <2>2, <2>4 DEF ModelsInv, ModelInv, ModelRequestOK
<1>4. ASSUME NEW s \in ModelSession, M!ApiFails(s)
      PROVE  ModelsInv'
  <2>1. /\ mishaps' = mishaps \cup {"api"}
        /\ modelRequest' = [modelRequest EXCEPT ![s] = M!NoModelRequest]
        /\ modelRequest[s] # M!NoModelRequest
        /\ modelRequest[s].at \in {"check", "mapping", "service"}
    BY <1>4 DEF M!ApiFails, M!NoModelRequest
  <2>2. q = modelRequest[s] /\ Current(M!NoModelRequest)'
    BY <2>1, ModelGoes DEF ModelInv
  <2>3. M!NoModelRequest.op = "none"
    BY DEF M!NoModelRequest
  <2>4. DeployedOK(M!NoModelRequest)'
    BY <1>1, <2>1, <2>2 DEF ModelInv, DeployedOK, M!ModelRows
  <2>5. ServiceOK(M!NoModelRequest)' /\ MappingOK(M!NoModelRequest)'
    BY <2>1, <2>3 DEF ServiceOK, MappingOK, Changing
  <2> QED
    BY <1>2, <2>2, <2>4, <2>5 DEF ModelsInv, ModelInv, ModelRequestOK
<1> QED
  BY <1>3, <1>4

\* Once requests have crossed, nothing is claimed.
LEMMA CrossedStays == M!Next /\ "crossed" \in mishaps => "crossed" \in mishaps'
BY DEF M!Next, M!CreateModelRead, M!CreateModelCommit, M!DeleteModelCommit,
       M!DeleteModelRead, M!Deploy, M!Undeploy, M!DeleteLatestModel, M!DeployLatest,
       M!UndeployLatest, M!DeployCheck, M!CreateMapping, M!CreateService, M!DeployCommit,
       M!UndeployCheck, M!DeleteService, M!DeleteMapping, M!UndeployCommit, M!ApiFails,
       M!CrashModels, M!ModelBegins, M!ModelGoes, M!ModelEnds

\* Every step keeps the models in order.
LEMMA ModelsNext ==
    ASSUME MaxModelVersion \in Nat
    PROVE  ModelsInv /\ [M!Next]_M!modelsVars => ModelsInv'
<1> SUFFICES ASSUME ModelsInv, [M!Next]_M!modelsVars
             PROVE  ModelsInv'
  OBVIOUS
<1>1. CASE UNCHANGED M!modelsVars
  <2> USE <1>1 DEF M!modelsVars
  <2>1. ASSUME NEW q, ModelInv(q)
        PROVE  ModelInv(q)'
    BY <2>1 DEF ModelInv, ModelsOK, HighestIsLatest, Current, ModelRequestOK, ServiceOK,
                DeployedOK, MappingOK, Changing, M!ModelRows, M!SecondLatestModel
  <2> QED
    BY <2>1 DEF ModelsInv
<1>2. CASE M!Next /\ "crossed" \in mishaps'
  BY <1>2 DEF ModelsInv
<1>3. CASE M!Next /\ "crossed" \notin mishaps'
  <2>1. PICK q : ModelInv(q)
    BY <1>3, CrossedStays DEF ModelsInv
  <2>2. ASSUME NEW s \in ModelSession,
               M!DeleteLatestModel(s) \/ M!DeployLatest(s) \/ M!UndeployLatest(s)
        PROVE  \E v \in M!ModelVersion :
                   M!DeleteModelRead(s, v) \/ M!Deploy(s, v) \/ M!Undeploy(s, v)
    BY <2>2 DEF M!DeleteLatestModel, M!DeployLatest, M!UndeployLatest, M!LatestModels,
                M!ModelRows
  <2>3. ASSUME NEW s \in ModelSession, NEW v \in M!ModelVersion,
               M!DeleteModelRead(s, v) \/ M!Deploy(s, v) \/ M!Undeploy(s, v)
        PROVE  ModelsInv'
    BY <1>3, <2>1, <2>3, ModelReadStep
  <2>4. ASSUME NEW s \in ModelSession, M!CreateModelRead(s)
        PROVE  ModelsInv'
    <3>1. CASE M!ModelVersion # {}
      BY <1>3, <2>1, <2>4, <3>1, ModelReadStep
    <3>2. CASE M!ModelVersion = {}
      BY <2>4, <3>2 DEF M!CreateModelRead, M!LatestModels, M!ModelRows, M!ModelVersion
    <3> QED
      BY <3>1, <3>2
  <2> QED
    BY <1>3, <2>1, <2>2, <2>3, <2>4, CreateCommitStep, DeleteCommitStep, ModelCallStep,
       ModelFaultStep DEF M!Next
<1> QED
  BY <1>1, <1>2, <1>3

\* The latest model is the highest version and no other, as long as requests do
\* not cross (create_new_version, delete_model_by_id_and_version).
THEOREM LatestModelStaysHighest ==
    ASSUME MaxModelVersion \in Nat
    PROVE  M!Spec => []M!LatestModelIsHighest
<1>1. ModelsInv => M!LatestModelIsHighest
  <2> SUFFICES ASSUME NEW q, ModelInv(q)
               PROVE  M!LatestModels = (IF M!ModelRows = {} THEN {} ELSE {M!Max(M!ModelRows)})
    BY DEF ModelsInv, M!LatestModelIsHighest
  <2>1. M!ModelRows \in SUBSET (1 .. MaxModelVersion)
    BY DEF M!ModelRows, M!ModelVersion
  <2>2. CASE M!ModelRows = {}
    BY <2>2 DEF M!LatestModels
  <2>3. CASE M!ModelRows # {}
    <3>1. PICK m : m = M!Max(M!ModelRows)
      OBVIOUS
    <3>2. m \in M!ModelRows /\ \A y \in M!ModelRows : m >= y
      BY <2>1, <2>3, <3>1, MaxIsHighest, LibrariesOfModels
    <3>3. \A x \in M!ModelRows : (\A y \in M!ModelRows : x >= y) <=> x = m
      BY <2>1, <3>2
    <3>4. M!LatestModels = {m}
      BY <3>2, <3>3 DEF M!LatestModels, ModelInv, HighestIsLatest
    <3> QED
      BY <2>3, <3>1, <3>4
  <2> QED
    BY <2>2, <2>3
<1> QED
  BY <1>1, ModelsInit, ModelsNext, PTL DEF M!Spec

\* The version that runs says it is deployed, and the mapping is there when the
\* service is, with the exceptions the properties name: calls that fail half way
\* leave no version that runs unsaid (deploy_model, undeploy_model).
THEOREM DeploymentsAgree ==
    ASSUME MaxModelVersion \in Nat
    PROVE  M!Spec => [](M!DeployedSaysSo /\ M!MappedWhenServed)
<1>1. ModelsInv => M!DeployedSaysSo /\ M!MappedWhenServed
  <2> SUFFICES ASSUME ModelsInv, M!ModelsQuiet, "crossed" \notin mishaps
               PROVE  /\ service # 0 /\ mishaps \cap {"crash", "orphaned"} = {}
                             => models[service].status = "deployed"
                      /\ mishaps \subseteq {"orphaned"} => (mapping <=> service # 0)
    BY DEF M!DeployedSaysSo, M!MappedWhenServed
  <2>1. PICK q : ModelInv(q)
    BY DEF ModelsInv
  <2>2. q = M!NoModelRequest
    BY <2>1 DEF ModelInv, Current, M!ModelsQuiet
  <2>3. q.op = "none"
    BY <2>2 DEF M!NoModelRequest
  <2> QED
    BY <2>1, <2>3 DEF ModelInv, DeployedOK, MappingOK, Changing
<1> QED
  BY <1>1, ModelsInit, ModelsNext, PTL DEF M!Spec

-----------------------------------------------------------------------------
(* Taxonomies *)

IsTaxonomy(r) ==
    \/ r = X!Gone
    \/ \E t \in TaxTenant, latest \in BOOLEAN : r = [tenant |-> t, latest |-> latest]

TaxonomiesOK ==
    /\ DOMAIN taxonomies = X!TaxKey
    /\ \A k \in X!TaxKey : IsTaxonomy(taxonomies[k])

\* The rows of tenant t with this id.
Owned(id, t) == {k \in X!TaxRows : k[1] = id /\ X!OfTenant(k, t)}

IsHighest(id, t, v) ==
    IF Owned(id, t) = {} THEN v = 0
    ELSE <<id, v>> \in Owned(id, t) /\ \A k \in Owned(id, t) : v >= k[2]

HighestIsMarked ==
    \A id \in TaxonomyId, t \in TaxTenant : \A k \in Owned(id, t) :
        taxonomies[k].latest <=> \A y \in Owned(id, t) : k[2] >= y[2]

\* What a request has read: a creation either has the highest version, or
\* another one has made the next, which no delete takes away uncrossed; for a
\* delete nothing has changed.
CreationOK(q) ==
    /\ q.id \in TaxonomyId /\ q.tenant \in TaxTenant
    /\ q.seen \in 0 .. MaxTaxonomyVersion - 1
    /\ \/ <<q.id, q.seen + 1>> \in Owned(q.id, q.tenant)
       \/ IsHighest(q.id, q.tenant, q.seen)

DeletionOK(q) ==
    /\ q.id \in TaxonomyId /\ q.tenant \in TaxTenant
    /\ <<q.id, q.seen>> \in Owned(q.id, q.tenant)
    /\ q.next = IF taxonomies[<<q.id, q.seen>>].latest
                THEN X!SecondLatest(q.id, q.tenant) ELSE 0

TaxRequestOK(q) ==
    /\ q.op = "create" => CreationOK(q)
    /\ q.op = "delete" => DeletionOK(q)

TaxInv ==
    /\ TaxonomiesOK /\ HighestIsMarked
    /\ DOMAIN taxRequest = TaxSession
    /\ \A s \in TaxSession : TaxRequestOK(taxRequest[s])

TaxonomiesInv == taxCrossed \/ TaxInv

\* The operators of the libraries are the same in each instance.
LEMMA LibrariesOfTaxonomies ==
    /\ \A S : X!Max(S) = Max(S)
    /\ \A S : X!Cardinality(S) = Cardinality(S)
<1>1. \A S : X!Max(S) = Max(S)
  BY DEF X!Max, Max
<1>2. \A S : X!Cardinality(S) = Cardinality(S)
  BY DEF X!Cardinality, Cardinality
<1> QED
  BY <1>1, <1>2

\* A key is made of an id and a version.
LEMMA TaxKeys ==
    ASSUME NEW k \in X!TaxKey
    PROVE  /\ k = <<k[1], k[2]>> /\ k[1] \in TaxonomyId /\ k[2] \in 1 .. MaxTaxonomyVersion
           /\ k[2] \in X!TaxVersion
BY DEF X!TaxKey, X!TaxVersion

\* What is owned, its versions, and that one of them is the highest.
LEMMA OwnedVersions ==
    ASSUME MaxTaxonomyVersion \in Nat, NEW id, NEW t
    PROVE  /\ X!Versions(id, t) = {k[2] : k \in Owned(id, t)}
           /\ X!Versions(id, t) \in SUBSET (1 .. MaxTaxonomyVersion)
           /\ \A k \in Owned(id, t) : k = <<id, k[2]>> /\ k \in X!TaxKey
           /\ \A v : v \in X!Versions(id, t) <=> <<id, v>> \in Owned(id, t)
           /\ Owned(id, t) # {} => \E v : IsHighest(id, t, v)
<1>1. X!Versions(id, t) = {k[2] : k \in Owned(id, t)}
  BY DEF X!Versions, Owned
<1>2. \A k \in Owned(id, t) : k = <<id, k[2]>> /\ k \in X!TaxKey
                              /\ k[2] \in 1 .. MaxTaxonomyVersion
  BY TaxKeys DEF Owned, X!TaxRows
<1>3. X!Versions(id, t) \in SUBSET (1 .. MaxTaxonomyVersion)
  BY <1>1, <1>2
<1>4. \A v : v \in X!Versions(id, t) <=> <<id, v>> \in Owned(id, t)
  BY <1>1, <1>2
<1>5. ASSUME Owned(id, t) # {}
      PROVE  \E v : IsHighest(id, t, v)
  <2>1. X!Versions(id, t) # {}
    BY <1>1, <1>5
  <2>2. PICK v \in X!Versions(id, t) : \A w \in X!Versions(id, t) : v >= w
    BY <1>3, <2>1, HighestExists
  <2>3. IsHighest(id, t, v)
    BY <1>1, <1>4, <1>5, <2>2 DEF IsHighest
  <2> QED
    BY <2>3
<1> QED
  BY <1>1, <1>2, <1>3, <1>4, <1>5

\* At first there is no taxonomy.
LEMMA TaxonomiesInit == X!Init => TaxInv
<1> SUFFICES ASSUME X!Init
             PROVE  TaxInv
  OBVIOUS
<1>1. TaxonomiesOK /\ X!TaxRows = {}
  BY DEF X!Init, TaxonomiesOK, IsTaxonomy, X!TaxRows
<1>2. \A s \in TaxSession : TaxRequestOK(taxRequest[s])
  BY DEF X!Init, TaxRequestOK, X!NoRequest
<1> QED
  BY <1>1, <1>2 DEF X!Init, TaxInv, HighestIsMarked, Owned

\* A step that leaves the rows, and writes one request.
LEMMA TaxRequestStep ==
    ASSUME TaxInv, NEW s \in TaxSession, NEW q, TaxRequestOK(q), UNCHANGED taxonomies,
           taxRequest' = [taxRequest EXCEPT ![s] = q]
    PROVE  TaxInv'
<1>1. \A r : TaxRequestOK(r) => TaxRequestOK(r)'
  BY DEF TaxRequestOK, CreationOK, DeletionOK, IsHighest, Owned, X!TaxRows, X!OfTenant,
         X!SecondLatest, X!Versions
<1>2. TaxonomiesOK' /\ HighestIsMarked'
  BY DEF TaxInv, TaxonomiesOK, HighestIsMarked, Owned, X!TaxRows, X!OfTenant
<1>3. /\ DOMAIN taxRequest' = TaxSession /\ taxRequest'[s] = q
      /\ \A o \in TaxSession \ {s} : taxRequest'[o] = taxRequest[o]
  BY DEF TaxInv
<1>4. ASSUME NEW o \in TaxSession
      PROVE  TaxRequestOK(taxRequest[o])'
  <2>1. PICK r : r = taxRequest'[o] /\ TaxRequestOK(r)
    BY <1>3 DEF TaxInv
  <2> QED
    BY <1>1, <2>1
<1> QED
  BY <1>2, <1>3, <1>4 DEF TaxInv

\* A creation begins with the highest version, a delete with its row.
LEMMA TaxReadStep ==
    ASSUME MaxTaxonomyVersion \in Nat, TaxInv, NEW s \in TaxSession, NEW t \in TaxTenant,
           \/ \E id \in TaxonomyId : X!CreateRead(s, id, t)
           \/ \E k \in X!TaxKey : X!DeleteRead(s, k, t)
           \/ \E asked \in LinkRequests : X!LinkRead(s, asked, t)
    PROVE  TaxInv'
<1>1. ASSUME NEW id \in TaxonomyId, X!CreateRead(s, id, t)
      PROVE  TaxInv'
  <2>1. PICK v \in {k[2] : k \in X!LatestTaxonomies(id, t)} \cup
                       (IF X!LatestTaxonomies(id, t) = {} THEN {0} ELSE {}) :
            /\ v < MaxTaxonomyVersion
            /\ X!TaxReads(s, [op |-> "create", id |-> id, tenant |-> t, seen |-> v])
    BY <1>1 DEF X!CreateRead
  <2>2. PICK q : q = [op |-> "create", id |-> id, tenant |-> t, seen |-> v]
    OBVIOUS
  <2>3. /\ taxRequest' = [taxRequest EXCEPT ![s] = q] /\ UNCHANGED taxonomies
        /\ q.op = "create" /\ q.id = id /\ q.tenant = t /\ q.seen = v
    BY <2>1, <2>2 DEF X!TaxReads
  <2>4. X!LatestTaxonomies(id, t) = {k \in Owned(id, t) : taxonomies[k].latest}
    BY DEF X!LatestTaxonomies, Owned
  <2>5. IsHighest(id, t, v)
    <3>1. CASE X!LatestTaxonomies(id, t) = {}
      <4>1. Owned(id, t) = {}
        <5> SUFFICES ASSUME Owned(id, t) # {}
                     PROVE  FALSE
          OBVIOUS
        <5>1. PICK w : <<id, w>> \in Owned(id, t) /\ \A k \in Owned(id, t) : w >= k[2]
          BY OwnedVersions DEF IsHighest
        <5>2. taxonomies[<<id, w>>].latest
          BY <5>1 DEF TaxInv, HighestIsMarked
        <5> QED
          BY <2>4, <3>1, <5>1, <5>2
      <4> QED
        BY <2>1, <3>1, <4>1 DEF IsHighest
    <3>2. CASE X!LatestTaxonomies(id, t) # {}
      <4>1. PICK k \in Owned(id, t) : taxonomies[k].latest /\ v = k[2]
        BY <2>1, <2>4, <3>2
      <4> QED
        BY <4>1, OwnedVersions DEF TaxInv, HighestIsMarked, IsHighest
    <3> QED
      BY <3>1, <3>2
  <2>6. v \in 0 .. MaxTaxonomyVersion - 1
    <3>1. v = 0 \/ v \in X!Versions(id, t)
      BY <2>5, OwnedVersions DEF IsHighest
    <3>2. v = 0 \/ v \in 1 .. MaxTaxonomyVersion
      BY <3>1, OwnedVersions
    <3> QED
      BY <2>1, <3>2
  <2>7. TaxRequestOK(q)
    BY <2>3, <2>5, <2>6 DEF TaxRequestOK, CreationOK
  <2> QED
    BY <2>3, <2>7, TaxRequestStep
<1>2. ASSUME NEW k \in X!TaxKey, X!DeleteRead(s, k, t)
      PROVE  TaxInv'
  <2>1. PICK q : q = [op |-> "delete", id |-> k[1], tenant |-> t, seen |-> k[2],
                      next |-> IF taxonomies[k].latest
                               THEN X!SecondLatest(k[1], t) ELSE 0]
    OBVIOUS
  <2>2. /\ taxRequest' = [taxRequest EXCEPT ![s] = q] /\ UNCHANGED taxonomies
        /\ k \in X!TaxRows /\ X!OfTenant(k, t)
    BY <1>2, <2>1 DEF X!DeleteRead, X!TaxReads
  <2>3. /\ q.op = "delete" /\ q.id = k[1] /\ q.tenant = t /\ q.seen = k[2]
        /\ q.next = IF taxonomies[k].latest THEN X!SecondLatest(k[1], t) ELSE 0
    BY <2>1
  <2>4. k = <<k[1], k[2]>> /\ k[1] \in TaxonomyId
    BY TaxKeys
  <2>5. TaxRequestOK(q)
    BY <2>2, <2>3, <2>4 DEF TaxRequestOK, DeletionOK, Owned
  <2> QED
    BY <2>2, <2>5, TaxRequestStep
<1>3. ASSUME NEW asked \in LinkRequests, X!LinkRead(s, asked, t)
      PROVE  TaxInv'
  <2>1. PICK q : /\ q.op = "link" /\ taxRequest' = [taxRequest EXCEPT ![s] = q]
                 /\ UNCHANGED taxonomies
    BY <1>3 DEF X!LinkRead, X!TaxReads
  <2>2. TaxRequestOK(q)
    BY <2>1 DEF TaxRequestOK
  <2> QED
    BY <2>1, <2>2, TaxRequestStep
<1> QED
  BY <1>1, <1>2, <1>3

\* A request that fails, and what concerns only links.
LEMMA TaxFailsStep ==
    ASSUME TaxInv, NEW s \in TaxSession, X!TaxFails(s) \/ X!LinkCommit(s)
    PROVE  TaxInv'
<1>1. /\ taxRequest' = [taxRequest EXCEPT ![s] = X!NoRequest] /\ UNCHANGED taxonomies
      /\ TaxRequestOK(X!NoRequest)
  BY DEF X!TaxFails, X!LinkCommit, X!TaxEnds, TaxRequestOK, X!NoRequest
<1> QED
  BY <1>1, TaxRequestStep

\* The rows of one owner and id stay.
OthersStay(id, t) ==
    /\ Owned(id, t)' = Owned(id, t)
    /\ \A k \in Owned(id, t) : taxonomies'[k] = taxonomies[k]

\* What a request has read stays so with the rows of its owner and id.
LEMMA TaxRequestStays ==
    ASSUME NEW r, TaxRequestOK(r),
           r.op \in {"create", "delete"} => OthersStay(r.id, r.tenant)
    PROVE  TaxRequestOK(r)'
<1>1. CASE r.op = "create"
  BY <1>1 DEF TaxRequestOK, CreationOK, IsHighest, OthersStay
<1>2. CASE r.op = "delete"
  <2>1. PICK id, t : id = r.id /\ t = r.tenant
    OBVIOUS
  <2>2. OthersStay(id, t) /\ <<id, r.seen>> \in Owned(id, t)
    BY <1>2, <2>1 DEF TaxRequestOK, DeletionOK
  <2>3. X!Versions(id, t)' = X!Versions(id, t)
    <3>1. X!Versions(id, t) = {k[2] : k \in Owned(id, t)}
      BY DEF X!Versions, Owned
    <3>2. X!Versions(id, t)' = {k[2] : k \in Owned(id, t)'}
      BY DEF X!Versions, Owned
    <3> QED
      BY <2>2, <3>1, <3>2 DEF OthersStay
  <2>4. X!SecondLatest(id, t)' = X!SecondLatest(id, t)
    BY <2>3 DEF X!SecondLatest
  <2>5. DeletionOK(r)'
    BY <1>2, <2>1, <2>2, <2>4 DEF TaxRequestOK, DeletionOK, OthersStay
  <2> QED
    BY <1>2, <2>5 DEF TaxRequestOK
<1> QED
  BY <1>1, <1>2 DEF TaxRequestOK

\* The highest of an owner and id stays marked with its rows.
LEMMA MarksStay ==
    ASSUME HighestIsMarked, NEW id \in TaxonomyId, NEW t \in TaxTenant, OthersStay(id, t)
    PROVE  \A k \in Owned(id, t)' :
               taxonomies'[k].latest <=> \A y \in Owned(id, t)' : k[2] >= y[2]
BY DEF HighestIsMarked, OthersStay

\* The next version becomes the latest, and the one before it does not stay so.
LEMMA TaxCreateStep ==
    ASSUME MaxTaxonomyVersion \in Nat, "none" \notin TaxTenant,
           TaxInv, NEW s \in TaxSession, X!CreateCommit(s), ~taxCrossed'
    PROVE  TaxInv'
<1>1. CASE X!TaxFails(s)
  BY <1>1, TaxFailsStep
<1>2. CASE ~X!TaxFails(s)
  <2>1. PICK q, id, t, v : q = taxRequest[s] /\ id = q.id /\ t = q.tenant /\ v = q.seen
    OBVIOUS
  <2>2. PICK prev, new : prev = <<id, v>> /\ new = <<id, v + 1>>
    OBVIOUS
  <2>3. /\ q.op = "create" /\ new \notin X!TaxRows
        /\ taxonomies' = [X!Unmarked(taxonomies, prev) EXCEPT
                              ![new] = [tenant |-> t, latest |-> TRUE]]
        /\ taxRequest' = [taxRequest EXCEPT ![s] = X!NoRequest]
        /\ ~X!Crosses(s)
    BY <1>2, <2>1, <2>2 DEF X!CreateCommit, X!TaxEnds
  <2>4. /\ id \in TaxonomyId /\ t \in TaxTenant /\ v \in 0 .. MaxTaxonomyVersion - 1
        /\ IsHighest(id, t, v)
    BY <2>1, <2>2, <2>3 DEF TaxInv, TaxRequestOK, CreationOK, Owned
  <2>5. new \in X!TaxKey /\ new # prev
    BY <2>2, <2>4 DEF X!TaxKey, X!TaxVersion
  <2>6. prev \in X!TaxKey => prev \in Owned(id, t)
    <3>1. prev \in X!TaxKey => v # 0
      BY <2>2 DEF X!TaxKey, X!TaxVersion
    <3> QED
      BY <2>2, <2>4, <3>1 DEF IsHighest
  <2>7. /\ DOMAIN taxonomies' = X!TaxKey
        /\ taxonomies'[new] = [tenant |-> t, latest |-> TRUE]
        /\ prev \in X!TaxKey => taxonomies'[prev] = [taxonomies[prev] EXCEPT !.latest = FALSE]
        /\ \A k \in X!TaxKey \ {prev, new} : taxonomies'[k] = taxonomies[k]
    BY <2>3, <2>5 DEF TaxInv, TaxonomiesOK, X!Unmarked
  <2>8. ASSUME prev \in X!TaxKey
        PROVE  /\ taxonomies'[prev] = [tenant |-> t, latest |-> FALSE]
               /\ taxonomies[prev].tenant = t
    <3>1. taxonomies[prev] # X!Gone /\ taxonomies[prev].tenant = t
      BY <2>6, <2>8 DEF Owned, X!TaxRows, X!OfTenant
    <3>2. PICK l \in BOOLEAN : taxonomies[prev] = [tenant |-> t, latest |-> l]
      <4>1. PICK u \in TaxTenant, l \in BOOLEAN :
                taxonomies[prev] = [tenant |-> u, latest |-> l]
        BY <2>8, <3>1 DEF TaxInv, TaxonomiesOK, IsTaxonomy
      <4>2. u = t
        BY <3>1, <4>1
      <4> QED
        BY <4>1, <4>2
    <3>3. PICK b, f, m : /\ b = taxonomies[prev] /\ f \in BOOLEAN /\ f = FALSE
                         /\ m = [b EXCEPT !.latest = f]
      OBVIOUS
    <3>4. m = [tenant |-> t, latest |-> f]
      BY <3>2, <3>3
    <3> QED
      BY <2>7, <2>8, <3>1, <3>3, <3>4
  <2>9. TaxonomiesOK'
    <3> SUFFICES ASSUME NEW k \in X!TaxKey
                 PROVE  IsTaxonomy(taxonomies'[k])
      BY <2>7 DEF TaxonomiesOK, IsTaxonomy, X!TaxKey, X!TaxVersion, X!Gone
    <3>1. CASE k = new
      BY <2>4, <2>7, <3>1 DEF IsTaxonomy
    <3>2. CASE k = prev
      BY <2>4, <2>8, <3>2 DEF IsTaxonomy
    <3>3. CASE k \notin {prev, new}
      BY <2>7, <3>3 DEF TaxInv, TaxonomiesOK
    <3> QED
      BY <3>1, <3>2, <3>3
  <2>10. \A k \in X!TaxKey :
             /\ taxonomies'[k] # X!Gone <=> taxonomies[k] # X!Gone \/ k = new
             /\ taxonomies'[k].tenant = IF k = new THEN t ELSE taxonomies[k].tenant
    <3> TAKE k \in X!TaxKey
    <3>1. CASE k = new
      BY <2>7, <3>1 DEF X!Gone
    <3>2. CASE k = prev
      <4>1. taxonomies[k] # X!Gone /\ taxonomies'[k] # X!Gone
        <5>1. taxonomies[k] # X!Gone
          BY <2>6, <3>2 DEF Owned, X!TaxRows
        <5>2. taxonomies'[k].tenant = t /\ X!Gone.tenant = "none"
          BY <2>8, <3>2 DEF X!Gone
        <5> QED
          BY <2>4, <5>1, <5>2
      <4> QED
        BY <2>5, <2>8, <3>2, <4>1
    <3>3. CASE k \notin {prev, new}
      BY <2>7, <3>3
    <3> QED
      BY <3>1, <3>2, <3>3
  <2>11. X!TaxRows' = X!TaxRows \cup {new}
    BY <2>5, <2>10 DEF X!TaxRows
  <2>12. Owned(id, t)' = Owned(id, t) \cup {new}
    BY <2>2, <2>3, <2>5, <2>10, <2>11 DEF Owned, X!OfTenant, X!TaxRows
  <2>13. ASSUME NEW i, NEW u, i # id \/ u # t
         PROVE  OthersStay(i, u)
    <3>1. Owned(i, u)' = Owned(i, u)
      BY <2>2, <2>3, <2>5, <2>10, <2>11, <2>13 DEF Owned, X!OfTenant, X!TaxRows
    <3>2. prev \notin Owned(i, u) /\ new \notin Owned(i, u)
      BY <2>2, <2>3, <2>6, <2>13 DEF Owned, X!TaxRows, X!OfTenant
    <3>3. Owned(i, u) \subseteq X!TaxKey
      BY DEF Owned, X!TaxRows
    <3> QED
      BY <2>7, <3>1, <3>2, <3>3 DEF OthersStay
  <2>14. \A k \in Owned(id, t) : k = <<id, k[2]>> /\ k[2] \in 0 .. v /\ k # new
    <3>1. \A k \in Owned(id, t) :
              k = <<id, k[2]>> /\ k[2] \in 1 .. MaxTaxonomyVersion /\ k \in X!TaxRows
      BY OwnedVersions, TaxKeys DEF Owned, X!TaxRows
    <3> QED
      BY <2>3, <2>4, <3>1 DEF IsHighest
  <2>15. HighestIsMarked'
    <3> SUFFICES ASSUME NEW i \in TaxonomyId, NEW u \in TaxTenant, NEW k \in Owned(i, u)'
                 PROVE  taxonomies'[k].latest <=> \A y \in Owned(i, u)' : k[2] >= y[2]
      BY DEF HighestIsMarked
    <3>1. CASE i # id \/ u # t
      BY <2>13, <3>1, MarksStay DEF TaxInv
    <3>2. CASE i = id /\ u = t /\ k = new
      <4>1. taxonomies'[k].latest /\ k[2] = v + 1
        BY <2>2, <2>7, <3>2
      <4>2. \A y \in Owned(id, t)' : k[2] >= y[2]
        BY <2>4, <2>12, <2>14, <3>2, <4>1
      <4> QED
        BY <3>2, <4>1, <4>2
    <3>3. CASE i = id /\ u = t /\ k # new
      <4>1. k \in Owned(id, t) /\ k[2] \in 0 .. v /\ new[2] = v + 1 /\ new \in Owned(id, t)'
        BY <2>2, <2>12, <2>14, <3>3
      <4>2. ~(k[2] >= new[2])
        BY <2>4, <4>1
      <4>3. ~taxonomies'[k].latest
        <5>1. CASE k = prev
          <6>1. prev \in X!TaxKey
            BY <4>1, <5>1 DEF Owned, X!TaxRows
          <6> QED
            BY <2>8, <5>1, <6>1
        <5>2. CASE k # prev
          <6>1. k[2] # v
            BY <2>2, <2>14, <4>1, <5>2
          <6>2. <<id, v>> \in Owned(id, t) /\ <<id, v>>[2] = v
            BY <2>4, <4>1 DEF IsHighest
          <6>3. ~(k[2] >= v)
            BY <2>4, <4>1, <6>1
          <6>4. ~taxonomies[k].latest
            BY <2>4, <4>1, <6>2, <6>3 DEF TaxInv, HighestIsMarked
          <6>5. taxonomies'[k] = taxonomies[k]
            BY <2>7, <3>3, <4>1, <5>2 DEF Owned, X!TaxRows
          <6> QED
            BY <6>4, <6>5
        <5> QED
          BY <5>1, <5>2
      <4> QED
        BY <3>3, <4>1, <4>2, <4>3
    <3> QED
      BY <3>1, <3>2, <3>3
  <2>16. /\ DOMAIN taxRequest' = TaxSession /\ taxRequest'[s] = X!NoRequest
         /\ \A o \in TaxSession \ {s} : taxRequest'[o] = taxRequest[o]
    BY <2>3 DEF TaxInv
  <2>17. ASSUME NEW o \in TaxSession
         PROVE  TaxRequestOK(taxRequest[o])'
    <3>1. CASE o = s
      BY <2>16, <3>1 DEF TaxRequestOK, X!NoRequest
    <3>2. CASE o # s
      <4>1. PICK r : r = taxRequest[o] /\ r = taxRequest'[o] /\ TaxRequestOK(r)
        BY <2>16, <3>2 DEF TaxInv
      <4>2. CASE r.op \notin {"create", "delete"} \/ r.id # id \/ r.tenant # t
        BY <2>13, <4>1, <4>2, TaxRequestStays
      <4>3. CASE r.op = "delete" /\ r.id = id /\ r.tenant = t
        BY <2>1, <2>3, <3>2, <4>1, <4>3 DEF X!Crosses, X!NoRequest
      <4>4. CASE r.op = "create" /\ r.id = id /\ r.tenant = t
        <5>1. /\ r.seen \in 0 .. MaxTaxonomyVersion - 1
              /\ <<id, r.seen + 1>> \in Owned(id, t) \/ IsHighest(id, t, r.seen)
          BY <4>1, <4>4 DEF TaxRequestOK, CreationOK
        <5>2. IsHighest(id, t, r.seen) => r.seen = v
          BY <2>4, <5>1 DEF IsHighest
        <5>3. <<id, r.seen + 1>> \in Owned(id, t)'
          BY <2>2, <2>12, <5>1, <5>2
        <5>4. CreationOK(r)'
          BY <2>4, <4>4, <5>1, <5>3 DEF CreationOK
        <5> QED
          BY <4>1, <4>4, <5>4 DEF TaxRequestOK
      <4> QED
        BY <4>2, <4>3, <4>4
    <3> QED
      BY <3>1, <3>2
  <2> QED
    BY <2>9, <2>15, <2>16, <2>17 DEF TaxInv
<1> QED
  BY <1>1, <1>2


\* To mark a version as the latest changes nothing else of it.
LEMMA Marked ==
    ASSUME NEW t, NEW l \in BOOLEAN, NEW f \in BOOLEAN, NEW b,
           b = [tenant |-> t, latest |-> l]
    PROVE  [b EXCEPT !.latest = f] = [tenant |-> t, latest |-> f]
OBVIOUS

\* The row goes; when it was the latest, the one read with it becomes it.
LEMMA TaxDeleteStep ==
    ASSUME MaxTaxonomyVersion \in Nat, "none" \notin TaxTenant,
           TaxInv, NEW s \in TaxSession, X!DeleteCommit(s), ~taxCrossed'
    PROVE  TaxInv'
<1>1. CASE X!TaxFails(s)
  BY <1>1, TaxFailsStep
<1>2. CASE ~X!TaxFails(s)
  <2>1. PICK q, id, t, v, n : /\ q = taxRequest[s] /\ id = q.id /\ t = q.tenant
                              /\ v = q.seen /\ n = q.next
    OBVIOUS
  <2>2. PICK key, next : key = <<id, v>> /\ next = <<id, n>>
    OBVIOUS
  <2>3. /\ q.op = "delete"
        /\ taxonomies' = [x \in X!TaxKey |->
                              IF x = key THEN X!Gone
                              ELSE IF n > 0 /\ x = next
                              THEN [taxonomies[x] EXCEPT !.latest = TRUE]
                              ELSE taxonomies[x]]
        /\ taxRequest' = [taxRequest EXCEPT ![s] = X!NoRequest]
        /\ ~X!Crosses(s)
    BY <1>2, <2>1, <2>2 DEF X!DeleteCommit, X!TaxEnds
  <2>4. /\ id \in TaxonomyId /\ t \in TaxTenant /\ key \in Owned(id, t)
        /\ n = IF taxonomies[key].latest THEN X!SecondLatest(id, t) ELSE 0
    BY <2>1, <2>2, <2>3 DEF TaxInv, TaxRequestOK, DeletionOK
  <2>5. PICK V : V = X!Versions(id, t)
    OBVIOUS
  <2>6. /\ V \in SUBSET (1 .. MaxTaxonomyVersion) /\ v \in V
        /\ \A w : w \in V <=> <<id, w>> \in Owned(id, t)
        /\ \A k \in Owned(id, t) : k = <<id, k[2]>> /\ k \in X!TaxKey /\ k[2] \in V
    BY <2>2, <2>4, <2>5, OwnedVersions
  <2>7. taxonomies[key].latest <=> \A w \in V : v >= w
    <3>1. key[2] = v /\ \A w \in V : <<id, w>> \in Owned(id, t) /\ <<id, w>>[2] = w
      BY <2>2, <2>6
    <3>2. taxonomies[key].latest <=> \A y \in Owned(id, t) : v >= y[2]
      BY <2>4, <3>1 DEF TaxInv, HighestIsMarked
    <3>3. \A y \in Owned(id, t) : y[2] \in V
      BY <2>6
    <3> QED
      BY <3>1, <3>2, <3>3
  <2>8. taxonomies[key].latest =>
            IF V = {v} THEN n = 0 ELSE n \in V \ {v} /\ \A w \in V \ {v} : n >= w
    <3> SUFFICES ASSUME taxonomies[key].latest
                 PROVE  IF V = {v} THEN n = 0
                        ELSE n \in V \ {v} /\ \A w \in V \ {v} : n >= w
      OBVIOUS
    <3>1. n = IF Cardinality(V) < 2 THEN 0 ELSE Max(V \ {Max(V)})
      <4>1. n = IF X!Cardinality(V) < 2 THEN 0 ELSE X!Max(V \ {X!Max(V)})
        BY <2>4, <2>5 DEF X!SecondLatest
      <4> QED
        BY <4>1, LibrariesOfTaxonomies
    <3>2. \A w \in V : v >= w
      BY <2>6, <2>7
    <3>3. V \in SUBSET (1 .. MaxTaxonomyVersion) /\ v \in V
      BY <2>6
    <3>4. CASE V = {v}
      <4>1. n = 0
        BY <3>1, <3>2, <3>3, <3>4, SecondIs
      <4> QED
        BY <3>4, <4>1
    <3>5. CASE V # {v}
      <4>1. n \in V \ {v} /\ \A y \in V \ {v} : n >= y
        BY <3>1, <3>2, <3>3, <3>5, SecondIs
      <4> QED
        BY <3>5, <4>1
    <3> QED
      BY <3>4, <3>5
  <2>9. n = 0 \/ (n > 0 /\ n \in V \ {v})
    <3>1. n = 0 \/ n \in V \ {v}
      BY <2>4, <2>8
    <3>2. n \in V => n > 0
      BY <2>6
    <3> QED
      BY <3>1, <3>2
  <2>10. /\ n = 0 => ~(n > 0 /\ TRUE) /\ next \notin X!TaxKey
         /\ n > 0 => next \in Owned(id, t) /\ next \in X!TaxKey /\ next # key
         /\ key \in X!TaxKey
    BY <2>2, <2>4, <2>6, <2>9 DEF X!TaxKey, X!TaxVersion
  <2>11. /\ DOMAIN taxonomies' = X!TaxKey
         /\ taxonomies'[key] = X!Gone
         /\ n > 0 => taxonomies'[next] = [taxonomies[next] EXCEPT !.latest = TRUE]
         /\ \A k \in X!TaxKey \ {key, next} : taxonomies'[k] = taxonomies[k]
    BY <2>3, <2>10
  <2>12. ASSUME n > 0
         PROVE  /\ taxonomies'[next] = [tenant |-> t, latest |-> TRUE]
                /\ taxonomies[next].tenant = t /\ taxonomies[next] # X!Gone
    <3>1. taxonomies[next] # X!Gone /\ taxonomies[next].tenant = t /\ next \in X!TaxKey
      BY <2>10, <2>12 DEF Owned, X!TaxRows, X!OfTenant
    <3>2. PICK u \in TaxTenant, l \in BOOLEAN :
              taxonomies[next] = [tenant |-> u, latest |-> l]
      BY <3>1 DEF TaxInv, TaxonomiesOK, IsTaxonomy
    <3>3. u = t
      BY <3>1, <3>2
    <3>4. PICK b, f, m : /\ b = taxonomies[next] /\ f \in BOOLEAN /\ f = TRUE
                         /\ m = [b EXCEPT !.latest = f]
      OBVIOUS
    <3>5. m = [tenant |-> t, latest |-> f]
      BY <3>2, <3>3, <3>4, Marked
    <3> QED
      BY <2>11, <2>12, <3>1, <3>4, <3>5
  <2>13. n = 0 => \A k \in X!TaxKey \ {key} : taxonomies'[k] = taxonomies[k]
    BY <2>10, <2>11
  <2>14. TaxonomiesOK'
    <3> SUFFICES ASSUME NEW k \in X!TaxKey
                 PROVE  IsTaxonomy(taxonomies'[k])
      BY <2>11 DEF TaxonomiesOK, IsTaxonomy, X!TaxKey, X!TaxVersion, X!Gone
    <3>1. CASE k = key
      BY <2>11, <3>1 DEF IsTaxonomy
    <3>2. CASE k = next
      BY <2>4, <2>9, <2>10, <2>12, <3>2 DEF IsTaxonomy
    <3>3. CASE k \notin {key, next}
      BY <2>11, <3>3 DEF TaxInv, TaxonomiesOK
    <3> QED
      BY <3>1, <3>2, <3>3
  <2>15. \A k \in X!TaxKey :
             /\ taxonomies'[k] # X!Gone <=> taxonomies[k] # X!Gone /\ k # key
             /\ k # key => taxonomies'[k].tenant = taxonomies[k].tenant
    <3> TAKE k \in X!TaxKey
    <3>1. CASE k = key
      BY <2>11, <3>1
    <3>2. CASE k = next /\ k # key
      <4>1. n > 0
        BY <2>9, <2>10, <3>2
      <4>2. taxonomies'[k].tenant = t /\ X!Gone.tenant = "none"
        BY <2>12, <3>2, <4>1 DEF X!Gone
      <4>3. taxonomies'[k] # X!Gone
        BY <2>4, <4>2
      <4> QED
        BY <2>12, <3>2, <4>1, <4>2, <4>3
    <3>3. CASE k \notin {key, next}
      BY <2>11, <3>3
    <3> QED
      BY <3>1, <3>2, <3>3
  <2>16. X!TaxRows' = X!TaxRows \ {key}
    BY <2>15 DEF X!TaxRows
  <2>17. Owned(id, t)' = Owned(id, t) \ {key}
    BY <2>15, <2>16 DEF Owned, X!OfTenant, X!TaxRows
  <2>18. ASSUME NEW i, NEW u, i # id \/ u # t
         PROVE  OthersStay(i, u)
    <3>1. key \notin Owned(i, u) /\ (n > 0 => next \notin Owned(i, u))
      BY <2>2, <2>4, <2>10, <2>18 DEF Owned, X!OfTenant
    <3>2. Owned(i, u)' = Owned(i, u)
      BY <2>15, <2>16, <3>1 DEF Owned, X!OfTenant, X!TaxRows
    <3>3. Owned(i, u) \subseteq X!TaxKey
      BY DEF Owned, X!TaxRows
    <3>4. \A k \in Owned(i, u) : taxonomies'[k] = taxonomies[k]
      BY <2>9, <2>11, <2>13, <3>1, <3>3
    <3> QED
      BY <3>2, <3>4 DEF OthersStay
  <2>19. HighestIsMarked'
    <3> SUFFICES ASSUME NEW i \in TaxonomyId, NEW u \in TaxTenant, NEW k \in Owned(i, u)'
                 PROVE  taxonomies'[k].latest <=> \A y \in Owned(i, u)' : k[2] >= y[2]
      BY DEF HighestIsMarked
    <3>1. CASE i # id \/ u # t
      BY <2>18, <3>1, MarksStay DEF TaxInv
    <3>2. CASE i = id /\ u = t
      <4>1. PICK w : w = k[2]
        OBVIOUS
      <4>2. /\ k \in Owned(id, t) /\ k # key /\ k = <<id, w>> /\ w \in V \ {v}
            /\ k \in X!TaxKey
        BY <2>2, <2>6, <2>17, <3>2, <4>1
      <4>3. (\A y \in Owned(id, t)' : w >= y[2]) <=> \A y \in V \ {v} : w >= y
        <5>1. \A y \in Owned(id, t)' : y[2] \in V \ {v}
          BY <2>2, <2>6, <2>17
        <5>2. \A y \in V \ {v} : <<id, y>> \in Owned(id, t)' /\ <<id, y>>[2] = y
          BY <2>2, <2>6, <2>17
        <5> QED
          BY <5>1, <5>2
      <4>4. taxonomies[k].latest <=> \A y \in V : w >= y
        <5>1. taxonomies[k].latest <=> \A y \in Owned(id, t) : w >= y[2]
          BY <2>4, <4>1, <4>2 DEF TaxInv, HighestIsMarked
        <5>2. \A y \in V : <<id, y>> \in Owned(id, t) /\ <<id, y>>[2] = y
          BY <2>6
        <5>3. \A y \in Owned(id, t) : y[2] \in V
          BY <2>6
        <5> QED
          BY <5>1, <5>2, <5>3
      <4>5. taxonomies'[k].latest <=> \A y \in V \ {v} : w >= y
        <5>1. CASE n = 0
          <6>1. taxonomies'[k] = taxonomies[k]
            BY <2>13, <4>2, <5>1
          <6>2. V # {v}
            BY <4>2
          <6>3. ~taxonomies[key].latest
            <7>1. 0 \notin V
              BY <2>6
            <7> QED
              BY <2>8, <5>1, <6>2, <7>1
          <6>4. PICK x \in V : ~(v >= x)
            BY <2>7, <6>3
          <6>5. x \in V \ {v} /\ x \in Int /\ v \in Int /\ w \in Int
            BY <2>6, <4>2, <6>4
          <6>6. w >= x => w >= v
            BY <6>4, <6>5
          <6> QED
            BY <4>4, <6>1, <6>5, <6>6
        <5>2. CASE n > 0
          <6>1. /\ taxonomies[key].latest /\ n \in V \ {v}
                /\ \A y \in V \ {v} : n >= y
            BY <2>4, <2>6, <2>8, <5>2
          <6>2. CASE w = n
            <7>1. taxonomies'[k].latest = TRUE
              BY <2>2, <2>12, <4>2, <5>2, <6>2
            <7> QED
              BY <6>1, <6>2, <7>1
          <6>3. CASE w # n
            <7>1. k # next
              BY <2>2, <4>2, <6>3
            <7>2. taxonomies'[k] = taxonomies[k]
              BY <2>11, <4>2, <7>1
            <7>3. w \in Int /\ n \in Int /\ v \in Int /\ n >= w /\ v >= w
              BY <2>6, <2>7, <4>2, <6>1
            <7>4. ~(w >= v) /\ ~(w >= n)
              BY <4>2, <6>3, <7>3
            <7> QED
              BY <2>6, <4>4, <6>1, <7>2, <7>4
          <6> QED
            BY <6>2, <6>3
        <5> QED
          BY <2>9, <5>1, <5>2
      <4> QED
        BY <3>2, <4>1, <4>3, <4>5
    <3> QED
      BY <3>1, <3>2
  <2>20. /\ DOMAIN taxRequest' = TaxSession /\ taxRequest'[s] = X!NoRequest
         /\ \A o \in TaxSession \ {s} : taxRequest'[o] = taxRequest[o]
    BY <2>3 DEF TaxInv
  <2>21. ASSUME NEW o \in TaxSession
         PROVE  TaxRequestOK(taxRequest[o])'
    <3>1. CASE o = s
      BY <2>20, <3>1 DEF TaxRequestOK, X!NoRequest
    <3>2. CASE o # s
      <4>1. PICK r : r = taxRequest[o] /\ r = taxRequest'[o] /\ TaxRequestOK(r)
        BY <2>20, <3>2 DEF TaxInv
      <4>2. CASE r.op \notin {"create", "delete"} \/ r.id # id \/ r.tenant # t
        BY <2>18, <4>1, <4>2, TaxRequestStays
      <4>3. CASE r.op \in {"create", "delete"} /\ r.id = id /\ r.tenant = t
        BY <2>1, <2>3, <3>2, <4>1, <4>3 DEF X!Crosses, X!NoRequest
      <4> QED
        BY <4>2, <4>3
    <3> QED
      BY <3>1, <3>2
  <2> QED
    BY <2>14, <2>19, <2>20, <2>21 DEF TaxInv
<1> QED
  BY <1>1, <1>2

\* Once crossed, always crossed.
LEMMA CrossedTaxonomiesStay == X!Next /\ taxCrossed => taxCrossed'
<1> SUFFICES ASSUME X!Next, taxCrossed
             PROVE  taxCrossed'
  OBVIOUS
<1>1. ASSUME NEW s \in TaxSession, NEW t \in TaxTenant,
             \/ \E id \in TaxonomyId : X!CreateRead(s, id, t) \/ X!DeleteLatestRead(s, id, t)
             \/ \E k \in X!TaxKey : X!DeleteRead(s, k, t)
             \/ \E asked \in LinkRequests : X!LinkRead(s, asked, t)
      PROVE  taxCrossed'
  BY <1>1 DEF X!CreateRead, X!DeleteLatestRead, X!DeleteRead, X!LinkRead, X!TaxReads
<1>2. ASSUME NEW s \in TaxSession, X!CreateCommit(s) \/ X!DeleteCommit(s) \/ X!LinkCommit(s)
      PROVE  taxCrossed'
  BY <1>2 DEF X!CreateCommit, X!DeleteCommit, X!LinkCommit, X!TaxFails, X!TaxEnds
<1>3. ASSUME NEW job \in {"j1", "j2"}, X!Unlink(job)
      PROVE  taxCrossed'
  BY <1>3 DEF X!Unlink
<1> QED
  BY <1>1, <1>2, <1>3 DEF X!Next

\* Each step keeps the invariant, or is one in which a delete is crossed.
LEMMA TaxonomiesNext ==
    ASSUME MaxTaxonomyVersion \in Nat, "none" \notin TaxTenant, TaxonomiesInv,
           [X!Next]_(X!taxonomiesVars)
    PROVE  TaxonomiesInv'
<1>1. CASE UNCHANGED <<taxonomies, taxRequest, taxCrossed>>
  <2>1. TaxInv => TaxInv'
    <3> SUFFICES ASSUME TaxInv
                 PROVE  TaxInv'
      OBVIOUS
    <3>1. TaxonomiesOK' /\ HighestIsMarked' /\ DOMAIN taxRequest' = TaxSession
      BY <1>1 DEF TaxInv, TaxonomiesOK, HighestIsMarked, Owned, X!TaxRows, X!OfTenant
    <3>2. \A r : TaxRequestOK(r) => TaxRequestOK(r)'
      BY <1>1 DEF TaxRequestOK, CreationOK, DeletionOK, IsHighest, Owned, X!TaxRows,
                  X!OfTenant, X!SecondLatest, X!Versions
    <3>3. ASSUME NEW o \in TaxSession
          PROVE  TaxRequestOK(taxRequest[o])'
      <4>1. PICK r : r = taxRequest[o] /\ r = taxRequest'[o] /\ TaxRequestOK(r)
        BY <1>1 DEF TaxInv
      <4> QED
        BY <3>2, <4>1
    <3> QED
      BY <3>1, <3>3 DEF TaxInv
  <2> QED
    BY <1>1, <2>1 DEF TaxonomiesInv
<1>2. CASE X!Next /\ (taxCrossed \/ taxCrossed')
  BY <1>2, CrossedTaxonomiesStay DEF TaxonomiesInv
<1>3. CASE X!Next /\ ~taxCrossed /\ ~taxCrossed'
  <2>1. TaxInv
    BY <1>3 DEF TaxonomiesInv
  <2>2. ASSUME NEW s \in TaxSession, NEW t \in TaxTenant,
               \/ \E id \in TaxonomyId : X!CreateRead(s, id, t) \/ X!DeleteLatestRead(s, id, t)
               \/ \E k \in X!TaxKey : X!DeleteRead(s, k, t)
               \/ \E asked \in LinkRequests : X!LinkRead(s, asked, t)
        PROVE  TaxInv'
    <3>1. ASSUME NEW id \in TaxonomyId, X!DeleteLatestRead(s, id, t)
          PROVE  \E k \in X!TaxKey : X!DeleteRead(s, k, t)
      BY <3>1 DEF X!DeleteLatestRead, X!LatestTaxonomies, X!TaxRows
    <3> QED
      BY <2>1, <2>2, <3>1, TaxReadStep
  <2>3. ASSUME NEW s \in TaxSession,
               X!CreateCommit(s) \/ X!DeleteCommit(s) \/ X!LinkCommit(s)
        PROVE  TaxInv'
    BY <1>3, <2>1, <2>3, TaxCreateStep, TaxDeleteStep, TaxFailsStep
  <2>4. ASSUME NEW job \in {"j1", "j2"}, X!Unlink(job)
        PROVE  TaxonomiesInv'
    BY <1>1, <2>4 DEF X!Unlink
  <2> QED
    BY <1>3, <2>2, <2>3, <2>4 DEF X!Next, TaxonomiesInv
<1> QED
  BY <1>1, <1>2, <1>3 DEF X!taxonomiesVars

\* For every number of requests and tenants: a tenant's latest taxonomy is
\* its highest version and no other, as long as no delete overlapped with
\* another change of the same id.  Creations may overlap as they like: the
\* one that is late finds its version taken (resources.py, services.py of
\* taxonomy).
THEOREM LatestTaxonomyStaysHighest ==
    ASSUME MaxTaxonomyVersion \in Nat, "none" \notin TaxTenant
    PROVE  X!Spec => []X!LatestIsHighest
<1>1. X!Init => TaxonomiesInv
  BY TaxonomiesInit DEF TaxonomiesInv
<1>2. TaxonomiesInv /\ [X!Next]_(X!taxonomiesVars) => TaxonomiesInv'
  BY TaxonomiesNext
<1>3. TaxonomiesInv => X!LatestIsHighest
  <2> SUFFICES ASSUME TaxInv, NEW id \in TaxonomyId, NEW t \in TaxTenant
               PROVE  {k[2] : k \in X!LatestTaxonomies(id, t)} =
                          (IF X!Versions(id, t) = {} THEN {} ELSE {X!Max(X!Versions(id, t))})
    BY DEF TaxonomiesInv, X!LatestIsHighest
  <2>1. X!LatestTaxonomies(id, t) = {k \in Owned(id, t) : taxonomies[k].latest}
    BY DEF X!LatestTaxonomies, Owned
  <2>2. PICK V : V = X!Versions(id, t)
    OBVIOUS
  <2>3. /\ V \in SUBSET (1 .. MaxTaxonomyVersion)
        /\ \A w : w \in V <=> <<id, w>> \in Owned(id, t)
        /\ \A k \in Owned(id, t) : k[2] \in V
    BY <2>2, OwnedVersions
  <2>4. CASE V = {}
    <3>1. Owned(id, t) = {}
      BY <2>3, <2>4
    <3> QED
      BY <2>1, <2>2, <2>4, <3>1
  <2>5. CASE V # {}
    <3>1. PICK m : m = X!Max(V)
      OBVIOUS
    <3>2. m \in V /\ \A y \in V : m >= y
      BY <2>3, <2>5, <3>1, MaxIsHighest, LibrariesOfTaxonomies
    <3>3. \A k \in Owned(id, t) : taxonomies[k].latest <=> k[2] = m
      <4> TAKE k \in Owned(id, t)
      <4>1. taxonomies[k].latest <=> \A y \in V : k[2] >= y
        <5>1. taxonomies[k].latest <=> \A y \in Owned(id, t) : k[2] >= y[2]
          BY DEF TaxInv, HighestIsMarked
        <5>2. \A y \in V : <<id, y>> \in Owned(id, t) /\ <<id, y>>[2] = y
          BY <2>3
        <5>3. \A y \in Owned(id, t) : y[2] \in V
          BY <2>3
        <5> QED
          BY <5>1, <5>2, <5>3
      <4>2. PICK w : w = k[2]
        OBVIOUS
      <4>3. w \in V /\ w \in Int /\ m \in Int
        <5>1. w \in V
          BY <2>3, <4>2
        <5>2. \A y \in V : y \in Int
          BY <2>3
        <5> QED
          BY <3>2, <5>1, <5>2
      <4>4. CASE w = m
        BY <3>2, <4>1, <4>2, <4>4
      <4>5. CASE w # m
        <5>1. m >= w
          BY <3>2, <4>3
        <5>2. ~(w >= m)
          BY <4>3, <4>5, <5>1
        <5> QED
          BY <3>2, <4>1, <4>2, <4>5, <5>2
      <4> QED
        BY <4>4, <4>5
    <3>4. {k[2] : k \in X!LatestTaxonomies(id, t)} = {m}
      <4>1. <<id, m>> \in X!LatestTaxonomies(id, t) /\ <<id, m>>[2] = m
        BY <2>1, <2>3, <3>2, <3>3
      <4> QED
        BY <2>1, <3>3, <4>1
    <3> QED
      BY <2>2, <2>5, <3>1, <3>4
  <2> QED
    BY <2>4, <2>5
<1> QED
  BY <1>1, <1>2, <1>3, PTL DEF X!Spec

-----------------------------------------------------------------------------
(* Trainings *)

IsColab(c) == \E a, b, d : c = [script |-> a, dataset |-> b, archive |-> d]

IsStart(q) ==
    \E id, n, b, d, a : q = [op |-> "start", id |-> id, next |-> n, basement |-> b,
                             dataset |-> d, archive |-> a]

\* What a start has copied by the step that is next.
CopiedSoFar(q) ==
    /\ q.next > 1 => colab.script = q.basement
    /\ q.next > 2 => colab.dataset = q.dataset /\ q.dataset \in exported
    /\ q.next > 3 => (q.archive => colab.archive = q.basement)

StartOK(q) ==
    q.op = "start" =>
        /\ IsStart(q) /\ q.next \in 1 .. 4
        /\ mixedStarts \/ CopiedSoFar(q)

\* Of starts that have not overlapped there is one at a time.
OneStart ==
    \A s, o \in TrainSession : N!In(s, "start") /\ N!In(o, "start") => s = o

TrainInv ==
    /\ DOMAIN trainRequest = TrainSession /\ IsColab(colab)
    /\ \A s \in TrainSession : StartOK(trainRequest[s])
    /\ mixedStarts \/ OneStart
    /\ N!TrainingRunsItsFiles

\* At first nothing is copied, and nothing runs.
LEMMA TrainInit == N!Init => TrainInv
<1> SUFFICES ASSUME N!Init
             PROVE  TrainInv
  OBVIOUS
<1>1. DOMAIN trainRequest = TrainSession /\ IsColab(colab)
  BY DEF N!Init, IsColab
<1>2. \A s \in TrainSession : trainRequest[s].op # "start"
  BY DEF N!Init, N!NoTrainRequest
<1>3. N!TrainingRunsItsFiles
  <2>1. running.row = FALSE
    BY DEF N!Init, N!NoRow
  <2> QED
    BY <2>1 DEF N!TrainingRunsItsFiles
<1> QED
  BY <1>1, <1>2, <1>3 DEF TrainInv, StartOK, OneStart, N!In

\* A step of anything but a start.
LEMMA OtherTrainStep ==
    ASSUME TrainInv, UNCHANGED <<colab, running, mixedStarts>>, exported \subseteq exported',
           \/ UNCHANGED trainRequest
           \/ \E s \in TrainSession : \E q :
                  q.op # "start" /\ trainRequest' = [trainRequest EXCEPT ![s] = q]
    PROVE  TrainInv'
<1>1. \A r : StartOK(r) => StartOK(r)'
  BY DEF StartOK, CopiedSoFar
<1>2. /\ DOMAIN trainRequest' = TrainSession
      /\ \A o \in TrainSession :
             trainRequest'[o] = trainRequest[o] \/ trainRequest'[o].op # "start"
  <2>1. CASE UNCHANGED trainRequest
    BY <2>1 DEF TrainInv
  <2>2. ASSUME NEW s \in TrainSession, NEW q, q.op # "start",
               trainRequest' = [trainRequest EXCEPT ![s] = q]
        PROVE  /\ DOMAIN trainRequest' = TrainSession
               /\ \A o \in TrainSession :
                      trainRequest'[o] = trainRequest[o] \/ trainRequest'[o].op # "start"
    BY <2>2 DEF TrainInv
  <2> QED
    BY <2>1, <2>2
<1>3. ASSUME NEW o \in TrainSession
      PROVE  StartOK(trainRequest[o])'
  <2>1. CASE trainRequest'[o].op # "start"
    BY <2>1 DEF StartOK
  <2>2. CASE trainRequest'[o] = trainRequest[o]
    <3>1. PICK r : r = trainRequest[o] /\ r = trainRequest'[o] /\ StartOK(r)
      BY <2>2 DEF TrainInv
    <3> QED
      BY <1>1, <3>1
  <2> QED
    BY <1>2, <2>1, <2>2
<1>4. mixedStarts' \/ OneStart'
  BY <1>2 DEF TrainInv, OneStart, N!In
<1>5. N!TrainingRunsItsFiles'
  BY DEF TrainInv, N!TrainingRunsItsFiles
<1> QED
  BY <1>2, <1>3, <1>4, <1>5 DEF TrainInv, IsColab

\* The keys of a training are read.
LEMMA StartTrainingStep ==
    ASSUME TrainInv, NEW s \in TrainSession, NEW t \in Training, N!StartTraining(s, t)
    PROVE  TrainInv'
<1>1. PICK b, d, a : b = trainings[t].basement /\ d = trainings[t].dataset
                     /\ a = basements[b].archive
  OBVIOUS
<1>2. PICK q : q = [op |-> "start", id |-> t, next |-> 1, basement |-> b,
                    dataset |-> d, archive |-> a]
  OBVIOUS
<1>3. /\ trainRequest' = [trainRequest EXCEPT ![s] = q]
      /\ UNCHANGED <<colab, running, exported>>
      /\ mixedStarts' = (mixedStarts \/ \E r \in TrainSession : N!In(r, "start"))
  BY <1>1, <1>2 DEF N!StartTraining, N!Asks, N!rows, N!remote
<1>4. /\ DOMAIN trainRequest' = TrainSession /\ trainRequest'[s] = q
      /\ \A o \in TrainSession \ {s} : trainRequest'[o] = trainRequest[o]
  BY <1>3 DEF TrainInv
<1>5. StartOK(q)'
  <2>1. IsStart(q)
    BY <1>2 DEF IsStart
  <2>2. q.next = 1
    BY <1>2
  <2> QED
    BY <2>1, <2>2 DEF StartOK, CopiedSoFar
<1>6. \A r : StartOK(r) => StartOK(r)'
  BY <1>3 DEF StartOK, CopiedSoFar
<1>7. ASSUME NEW o \in TrainSession
      PROVE  StartOK(trainRequest[o])'
  <2>1. CASE o = s
    BY <1>4, <1>5, <2>1
  <2>2. CASE o # s
    <3>1. PICK r : r = trainRequest[o] /\ r = trainRequest'[o] /\ StartOK(r)
      BY <1>4, <2>2 DEF TrainInv
    <3> QED
      BY <1>6, <3>1
  <2> QED
    BY <2>1, <2>2
<1>8. mixedStarts' \/ OneStart'
  <2>1. CASE \E r \in TrainSession : N!In(r, "start")
    BY <1>3, <2>1
  <2>2. CASE \A r \in TrainSession : ~N!In(r, "start")
    <3>1. \A o \in TrainSession \ {s} : ~N!In(o, "start")'
      BY <1>4, <2>2 DEF N!In
    <3> QED
      BY <3>1 DEF OneStart
  <2> QED
    BY <2>1, <2>2
<1>9. N!TrainingRunsItsFiles'
  BY <1>3 DEF TrainInv, N!TrainingRunsItsFiles
<1> QED
  BY <1>3, <1>4, <1>7, <1>8, <1>9 DEF TrainInv, IsColab

\* The steps of a start, in their order.
LEMMA StartSteps ==
    ASSUME NEW i \in 1 .. 4
    PROVE  /\ N!StartSteps[i] = "script" => i = 1
           /\ N!StartSteps[i] = "dataset" => i = 2
           /\ N!StartSteps[i] = "archive" => i = 3
           /\ N!StartSteps[i] = "execute" => i = 4
           /\ Len(N!StartSteps) = 4
<1>1. i = 1 \/ i = 2 \/ i = 3 \/ i = 4
  OBVIOUS
<1> QED
  BY <1>1 DEF N!StartSteps

\* A start goes one step on, with what this step has done for it.
LEMMA StartGoesOn ==
    ASSUME TrainInv, NEW s \in TrainSession, N!In(s, "start"), N!NextStep(s),
           IsColab(colab)', N!TrainingRunsItsFiles',
           \A q : IsStart(q) /\ q = trainRequest[s] /\ ~mixedStarts /\ CopiedSoFar(q)
                      /\ q.next < 4
                      => \A r : IsStart(r) /\ r.basement = q.basement /\ r.dataset = q.dataset
                                    /\ r.archive = q.archive /\ r.next = q.next + 1
                                    => CopiedSoFar(r)'
    PROVE  TrainInv'
<1>1. PICK q : q = trainRequest[s]
  OBVIOUS
<1>2. /\ q.op = "start" /\ IsStart(q) /\ q.next \in 1 .. 4
      /\ mixedStarts \/ CopiedSoFar(q)
  BY <1>1 DEF TrainInv, StartOK, N!In
<1>3. PICK id, n, b, d, a : q = [op |-> "start", id |-> id, next |-> n, basement |-> b,
                                 dataset |-> d, archive |-> a]
  BY <1>2 DEF IsStart
<1>4. PICK r : r = [op |-> "start", id |-> id, next |-> n + 1, basement |-> b,
                    dataset |-> d, archive |-> a]
  OBVIOUS
<1>5. [q EXCEPT !.next = @ + 1] = r
  BY <1>3, <1>4
<1>6. UNCHANGED <<exported, mixedStarts>>
  BY DEF N!NextStep, N!rows
<1>7. /\ DOMAIN trainRequest' = TrainSession
      /\ trainRequest'[s] = N!NoTrainRequest \/ (trainRequest'[s] = r /\ n < 4)
      /\ \A o \in TrainSession \ {s} : trainRequest'[o] = trainRequest[o]
  <2>1. CASE n = 4
    <3>1. trainRequest[s].next = Len(N!StartSteps)
      BY <1>1, <1>2, <1>3, <2>1, StartSteps
    <3>2. trainRequest' = [trainRequest EXCEPT ![s] = N!NoTrainRequest]
      BY <3>1 DEF N!NextStep, N!DoneTrain
    <3> QED
      BY <3>2 DEF TrainInv
  <2>2. CASE n # 4
    <3>1. trainRequest[s].next # Len(N!StartSteps) /\ n < 4
      BY <1>1, <1>2, <1>3, <2>2, StartSteps
    <3>2. trainRequest' = [trainRequest EXCEPT ![s].next = @ + 1]
      BY <3>1 DEF N!NextStep
    <3>3. trainRequest'[s] = [q EXCEPT !.next = @ + 1]
      BY <1>1, <3>2 DEF TrainInv
    <3> QED
      BY <1>5, <3>1, <3>2, <3>3 DEF TrainInv
  <2> QED
    BY <2>1, <2>2
<1>8. N!NoTrainRequest.op = "none"
  BY DEF N!NoTrainRequest
<1>9. n < 4 => StartOK(r)'
  <2> SUFFICES ASSUME n < 4
               PROVE  StartOK(r)'
    OBVIOUS
  <2>1. /\ r.next = n + 1 /\ r.basement = b /\ r.dataset = d /\ r.archive = a
        /\ q.next = n /\ q.basement = b /\ q.dataset = d /\ q.archive = a
    BY <1>3, <1>4
  <2>2. IsStart(r) /\ r.next \in 1 .. 4
    <3>1. IsStart(r)
      BY <1>4 DEF IsStart
    <3>2. n \in 1 .. 4
      BY <1>2, <2>1
    <3> QED
      BY <2>1, <3>1, <3>2
  <2>3. mixedStarts \/ CopiedSoFar(r)'
    BY <1>1, <1>2, <2>1, <2>2
  <2> QED
    BY <1>6, <2>2, <2>3 DEF StartOK
<1>10. ASSUME NEW o \in TrainSession
       PROVE  StartOK(trainRequest[o])'
  <2>1. CASE o = s
    BY <1>7, <1>8, <1>9, <2>1 DEF StartOK
  <2>2. CASE o # s
    <3>1. PICK p : p = trainRequest[o] /\ p = trainRequest'[o] /\ StartOK(p)
      BY <1>7, <2>2 DEF TrainInv
    <3>2. p.op = "start" => mixedStarts
      BY <2>2, <3>1 DEF TrainInv, OneStart, N!In
    <3> QED
      BY <1>6, <3>1, <3>2 DEF StartOK
  <2> QED
    BY <2>1, <2>2
<1>11. mixedStarts' \/ OneStart'
  BY <1>2, <1>1, <1>6, <1>7 DEF TrainInv, OneStart, N!In
<1> QED
  BY <1>7, <1>10, <1>11 DEF TrainInv

\* One of the files is copied, or the script is executed on those that were.
LEMMA StartStep ==
    ASSUME TrainInv, NEW s \in TrainSession,
           N!CopyScript(s) \/ N!CopyDataset(s) \/ N!CopyArchive(s) \/ N!Execute(s)
    PROVE  TrainInv'
<1>1. PICK q : q = trainRequest[s]
  OBVIOUS
<1>2. /\ N!In(s, "start") /\ N!NextStep(s)
      /\ UNCHANGED <<exported, mixedStarts>>
  BY DEF N!CopyScript, N!CopyDataset, N!CopyArchive, N!Execute, N!Step, N!NextStep, N!rows
<1>3. IsStart(q) /\ q.next \in 1 .. 4 /\ (mixedStarts \/ CopiedSoFar(q))
  BY <1>1, <1>2 DEF TrainInv, StartOK, N!In
<1>4. PICK c, a, b, d : c = colab /\ c = [script |-> a, dataset |-> b, archive |-> d]
  BY DEF TrainInv, IsColab
<1>5. ASSUME N!CopyScript(s)
      PROVE  TrainInv'
  <2>1. q.next = 1 /\ colab' = [c EXCEPT !.script = q.basement] /\ UNCHANGED running
    BY <1>1, <1>3, <1>4, <1>5, StartSteps DEF N!CopyScript, N!Step
  <2>2. colab' = [script |-> q.basement, dataset |-> b, archive |-> d]
    BY <1>4, <2>1
  <2>3. IsColab(colab')
    BY <2>2 DEF IsColab
  <2>4. ASSUME NEW r, r.basement = q.basement, r.next = q.next + 1
        PROVE  CopiedSoFar(r)'
    BY <2>1, <2>2, <2>4 DEF CopiedSoFar
  <2>5. N!TrainingRunsItsFiles'
    BY <1>2, <2>1 DEF TrainInv, N!TrainingRunsItsFiles
  <2> QED
    BY <1>1, <1>2, <2>3, <2>4, <2>5, StartGoesOn
<1>6. ASSUME N!CopyDataset(s)
      PROVE  TrainInv'
  <2>1. /\ q.next = 2 /\ colab' = [c EXCEPT !.dataset = q.dataset] /\ UNCHANGED running
        /\ q.dataset \in exported
    BY <1>1, <1>3, <1>4, <1>6, StartSteps DEF N!CopyDataset, N!Step
  <2>2. colab' = [script |-> a, dataset |-> q.dataset, archive |-> d]
    BY <1>4, <2>1
  <2>3. IsColab(colab')
    BY <2>2 DEF IsColab
  <2>4. ASSUME CopiedSoFar(q), NEW r, r.basement = q.basement, r.dataset = q.dataset,
               r.next = q.next + 1
        PROVE  CopiedSoFar(r)'
    BY <1>2, <1>4, <2>1, <2>2, <2>4 DEF CopiedSoFar
  <2>5. N!TrainingRunsItsFiles'
    BY <1>2, <2>1 DEF TrainInv, N!TrainingRunsItsFiles
  <2> QED
    BY <1>1, <1>2, <2>3, <2>4, <2>5, StartGoesOn
<1>7. ASSUME N!CopyArchive(s)
      PROVE  TrainInv'
  <2>1. /\ q.next = 3 /\ UNCHANGED running
        /\ colab' = IF q.archive THEN [c EXCEPT !.archive = q.basement] ELSE c
    BY <1>1, <1>3, <1>4, <1>7, StartSteps DEF N!CopyArchive, N!Step
  <2>2. PICK e : /\ colab' = [script |-> a, dataset |-> b, archive |-> e]
                 /\ q.archive => e = q.basement
    BY <1>4, <2>1
  <2>3. IsColab(colab')
    BY <2>2 DEF IsColab
  <2>4. ASSUME CopiedSoFar(q), NEW r, r.basement = q.basement, r.dataset = q.dataset,
               r.archive = q.archive, r.next = q.next + 1
        PROVE  CopiedSoFar(r)'
    BY <1>2, <1>4, <2>1, <2>2, <2>4 DEF CopiedSoFar
  <2>5. N!TrainingRunsItsFiles'
    BY <1>2, <2>1 DEF TrainInv, N!TrainingRunsItsFiles
  <2> QED
    BY <1>1, <1>2, <2>3, <2>4, <2>5, StartGoesOn
<1>8. ASSUME N!Execute(s)
      PROVE  TrainInv'
  <2>1. /\ q.next = 4 /\ UNCHANGED colab
        /\ running' = [row |-> TRUE, request |-> q, files |-> colab]
    BY <1>1, <1>3, <1>8, StartSteps DEF N!Execute, N!Step
  <2>2. running'.request = q /\ running'.files = colab
    BY <2>1
  <2>3. N!TrainingRunsItsFiles'
    BY <1>2, <1>3, <2>1, <2>2 DEF N!TrainingRunsItsFiles, CopiedSoFar
  <2>4. IsColab(colab)'
    BY <2>1 DEF TrainInv, IsColab
  <2> QED
    BY <1>1, <1>2, <2>1, <2>3, <2>4, StartGoesOn
<1> QED
  BY <1>5, <1>6, <1>7, <1>8

\* Every step keeps the invariant.
LEMMA TrainNext == TrainInv /\ [N!Next]_(N!trainingsVars) => TrainInv'
<1> SUFFICES ASSUME TrainInv, [N!Next]_(N!trainingsVars)
             PROVE  TrainInv'
  OBVIOUS
<1>1. ASSUME UNCHANGED <<colab, running, mixedStarts, exported, trainRequest>>
      PROVE  TrainInv'
  BY <1>1, OtherTrainStep
<1>2. ASSUME NEW s \in TrainSession, NEW b \in Basement,
             \/ N!CreateBasement(s, b) \/ N!AskTraining(s, b)
             \/ \E t \in Training : N!AskUpdate(s, t, b)
      PROVE  TrainInv'
  <2>1. ASSUME N!CreateBasement(s, b)
        PROVE  TrainInv'
    <3>1. PICK q : q = [op |-> "basement", basement |-> b]
      OBVIOUS
    <3>2. q.op # "start" /\ trainRequest' = [trainRequest EXCEPT ![s] = q]
          /\ UNCHANGED <<colab, running, mixedStarts, exported>>
      BY <2>1, <3>1 DEF N!CreateBasement, N!Asks, N!rows, N!remote
    <3> QED
      BY <3>2, OtherTrainStep
  <2>2. ASSUME N!AskTraining(s, b)
        PROVE  TrainInv'
    <3>1. PICK q : q = [op |-> "create", basement |-> b]
      OBVIOUS
    <3>2. q.op # "start" /\ trainRequest' = [trainRequest EXCEPT ![s] = q]
          /\ UNCHANGED <<colab, running, mixedStarts, exported>>
      BY <2>2, <3>1 DEF N!AskTraining, N!Asks, N!rows, N!remote
    <3> QED
      BY <3>2, OtherTrainStep
  <2>3. ASSUME NEW t \in Training, N!AskUpdate(s, t, b)
        PROVE  TrainInv'
    <3>1. PICK q : q = [op |-> "update", id |-> t, basement |-> b]
      OBVIOUS
    <3>2. q.op # "start" /\ trainRequest' = [trainRequest EXCEPT ![s] = q]
          /\ UNCHANGED <<colab, running, mixedStarts, exported>>
      BY <2>3, <3>1 DEF N!AskUpdate, N!Asks, N!rows, N!remote
    <3> QED
      BY <3>2, OtherTrainStep
  <2> QED
    BY <1>2, <2>1, <2>2, <2>3
<1>3. ASSUME NEW s \in TrainSession, NEW t \in Training, N!PrepareDataset(s, t)
      PROVE  TrainInv'
  <2>1. PICK q : q = [op |-> "prepare", id |-> t]
    OBVIOUS
  <2>2. q.op # "start" /\ trainRequest' = [trainRequest EXCEPT ![s] = q]
        /\ UNCHANGED <<colab, running, mixedStarts, exported>>
    BY <1>3, <2>1 DEF N!PrepareDataset, N!Asks, N!rows, N!remote
  <2> QED
    BY <2>2, OtherTrainStep
<1>4. ASSUME NEW s \in TrainSession,
             \/ N!InsertBasement(s) \/ N!CreateTraining(s) \/ N!ModifyTraining(s)
             \/ N!ConvertFails(s) \/ N!DatasetCommitted(s) \/ N!StartFails(s)
      PROVE  TrainInv'
  <2>1. N!NoTrainRequest.op # "start"
    BY DEF N!NoTrainRequest
  <2>2. /\ trainRequest' = [trainRequest EXCEPT ![s] = N!NoTrainRequest]
        /\ UNCHANGED <<colab, running, mixedStarts, exported>>
    BY <1>4 DEF N!InsertBasement, N!CreateTraining, N!ModifyTraining, N!ConvertFails,
                N!DatasetCommitted, N!StartFails, N!DoneTrain, N!rows, N!remote
  <2> QED
    BY <2>1, <2>2, OtherTrainStep
<1>5. ASSUME NEW s \in TrainSession, N!ConvertAnswers(s)
      PROVE  TrainInv'
  <2>1. PICK q : q = [op |-> "prepared", id |-> trainRequest[s].id,
                      dataset |-> lastExport + 1]
    OBVIOUS
  <2>2. /\ q.op # "start" /\ trainRequest' = [trainRequest EXCEPT ![s] = q]
        /\ UNCHANGED <<colab, running, mixedStarts, exported>>
    BY <1>5, <2>1 DEF N!ConvertAnswers, N!remote, TrainInv
  <2> QED
    BY <2>2, OtherTrainStep
<1>6. ASSUME NEW t \in Training,
             N!UploadTrainingFiles(t) \/ N!DeleteTraining(t) \/ N!DownloadResults(t)
      PROVE  TrainInv'
  BY <1>1, <1>6 DEF N!UploadTrainingFiles, N!DeleteTraining, N!DownloadResults, N!CallFails,
                    N!trainingsVars, N!rows, N!remote
<1>7. ASSUME NEW b \in Basement, N!UploadBasementFiles(b) \/ N!DeleteBasement(b)
      PROVE  TrainInv'
  BY <1>1, <1>7 DEF N!UploadBasementFiles, N!DeleteBasement, N!CallFails, N!trainingsVars
<1>8. ASSUME NEW n \in 1 .. MaxExports, N!ExportEnds(n)
      PROVE  TrainInv'
  BY <1>8, OtherTrainStep DEF N!ExportEnds, N!remote
<1>9. CASE N!Next
  BY <1>2, <1>3, <1>4, <1>5, <1>6, <1>7, <1>8, <1>9, StartTrainingStep, StartStep DEF N!Next
<1>10. CASE UNCHANGED N!trainingsVars
  BY <1>1, <1>10 DEF N!trainingsVars
<1> QED
  BY <1>9, <1>10

\* Of any number of requests: what start_training executes is the script of the
\* training's basement on the dataset that was exported for it, and with the
\* basement's archive when it has one, as long as no two starts have
\* overlapped; whatever else is created, changed, exported and fails meanwhile
\* (start_training, prepare_annotation_dataset).
THEOREM TrainingsRunTheirFiles == N!Spec => []N!TrainingRunsItsFiles
<1>1. TrainInv => N!TrainingRunsItsFiles
  BY DEF TrainInv
<1> QED
  BY <1>1, TrainInit, TrainNext, PTL DEF N!Spec

-----------------------------------------------------------------------------
(* Pipelines and their versions *)

\* Ids are numbers that the table gives one after the other; the names that
\* stand for no filter and for no row are no pipeline's.
CatalogueBounds ==
    /\ \E n \in Nat : PipelineId = 1 .. n
    /\ "any" \notin PipelineName /\ "none" \notin PipelineName
    /\ FirstVersion \subseteq Nat

IsPipeline(r) ==
    \E name \in PipelineName, version \in Nat, original \in Nat, latest \in BOOLEAN :
        \E tree, urls, categories :
            r = [name |-> name, version |-> version, original |-> original,
                 latest |-> latest, tree |-> tree, urls |-> urls,
                 categories |-> categories]

CatalogueOK ==
    /\ DOMAIN catalogue = PipelineId /\ assigned \in Nat
    /\ \A i \in PipelineId :
           \/ catalogue[i] = C!NoPipeline
           \/ /\ IsPipeline(catalogue[i])
              /\ i <= assigned /\ catalogue[i].original <= assigned

\* Of one name the ids, which are given in order, go with the versions, and
\* all are versions of one original, which is of no other name.
VersionsInOrder ==
    \A i, j \in C!Pipelines :
        /\ i < j /\ catalogue[i].name = catalogue[j].name =>
               /\ catalogue[i].original = catalogue[j].original
               /\ catalogue[i].original # 0
               /\ catalogue[i].version < catalogue[j].version
        /\ catalogue[i].original = catalogue[j].original /\ catalogue[i].original # 0 =>
               catalogue[i].name = catalogue[j].name

\* What is marked as the latest is so, and a name without a mark lost it.
MarkedIsLast ==
    \A i \in C!Pipelines :
        /\ catalogue[i].latest =>
               \A j \in C!Pipelines : catalogue[j].name = catalogue[i].name => j <= i
        /\ \/ catalogue[i].name \in demoted
           \/ \E j \in C!Pipelines :
                  catalogue[j].name = catalogue[i].name /\ catalogue[j].latest

CatalogueInv == CatalogueOK /\ VersionsInOrder /\ MarkedIsLast

\* At first there is no pipeline.
LEMMA CatalogueInit == C!Init => CatalogueInv
BY DEF C!Init, C!NoId, CatalogueInv, CatalogueOK, VersionsInOrder, MarkedIsLast, C!Pipelines

\* What a row is that is there.
LEMMA PipelineRows ==
    ASSUME CatalogueBounds, CatalogueOK, NEW i \in C!Pipelines
    PROVE  /\ i \in PipelineId /\ i \in Nat /\ i # 0 /\ i <= assigned
           /\ IsPipeline(catalogue[i]) /\ catalogue[i].name \in PipelineName
           /\ catalogue[i].version \in Nat /\ catalogue[i].original \in Nat
           /\ catalogue[i].original <= assigned
<1>1. i \in PipelineId /\ catalogue[i] # C!NoPipeline
  BY DEF C!Pipelines
<1>2. IsPipeline(catalogue[i]) /\ i <= assigned /\ catalogue[i].original <= assigned
  BY <1>1 DEF CatalogueOK
<1>3. i \in Nat /\ i # 0
  BY <1>1 DEF CatalogueBounds
<1>4. /\ catalogue[i].name \in PipelineName
      /\ catalogue[i].version \in Nat /\ catalogue[i].original \in Nat
  BY <1>2 DEF IsPipeline
<1> QED
  BY <1>1, <1>2, <1>3, <1>4

\* A row is not that of no pipeline.
LEMMA PipelineIsThere ==
    ASSUME CatalogueBounds, NEW r, IsPipeline(r)
    PROVE  r # C!NoPipeline
<1>1. r.name \in PipelineName
  BY DEF IsPipeline
<1>2. C!NoPipeline.name = "none"
  BY DEF C!NoPipeline
<1> QED
  BY <1>1, <1>2 DEF CatalogueBounds

\* The last version of a name is that of its highest id.
LEMMA LastIsHighestId ==
    ASSUME CatalogueBounds, CatalogueInv, NEW G \in SUBSET C!Pipelines, G # {},
           \A i, j \in G : catalogue[i].name = catalogue[j].name
    PROVE  C!LastVersion(G) \in G /\ \A j \in G : j <= C!LastVersion(G)
<1>1. PICK n \in Nat : PipelineId = 1 .. n
  BY DEF CatalogueBounds
<1>2. G \in SUBSET (1 .. n)
  BY <1>1 DEF C!Pipelines
<1>3. PICK m \in G : \A j \in G : m >= j
  BY <1>2, HighestExists
<1>4. \A i \in G : i \in Nat /\ catalogue[i].version \in Nat
  BY PipelineRows DEF CatalogueInv
<1>5. \A j \in G : j # m => catalogue[j].version < catalogue[m].version
  <2> SUFFICES ASSUME NEW j \in G, j # m
               PROVE  catalogue[j].version < catalogue[m].version
    OBVIOUS
  <2>1. j < m /\ catalogue[j].name = catalogue[m].name
    BY <1>3, <1>4
  <2> QED
    BY <2>1 DEF CatalogueInv, VersionsInOrder
<1>6. \A j \in G : C!Fields(j).version <= C!Fields(m).version
  BY <1>4, <1>5 DEF C!Fields
<1>7. PICK x : x = C!LastVersion(G)
  OBVIOUS
<1>8. x \in G /\ \A j \in G : C!Fields(j).version <= C!Fields(x).version
  BY <1>6, <1>7 DEF C!LastVersion
<1>9. x = m
  BY <1>4, <1>5, <1>8 DEF C!Fields
<1> QED
  BY <1>3, <1>4, <1>7, <1>9

\* A row more, which is the last version of its name, and the only one marked.
LEMMA NewPipeline ==
    ASSUME CatalogueBounds, CatalogueInv, NEW new, new = assigned + 1,
           new \in PipelineId, assigned' = new,
           NEW r, IsPipeline(r), r.latest, r.original <= new,
           DOMAIN catalogue' = PipelineId, catalogue'[new] = r,
           \A i \in PipelineId \ {new} :
               \/ catalogue'[i] = catalogue[i]
               \/ /\ catalogue[i] # C!NoPipeline /\ IsPipeline(catalogue'[i])
                  /\ catalogue'[i].name = r.name /\ catalogue[i].name = r.name
                  /\ catalogue'[i].original = catalogue[i].original
                  /\ catalogue'[i].version = catalogue[i].version
                  /\ ~catalogue'[i].latest,
           \A i \in C!Pipelines :
               /\ catalogue[i].name = r.name =>
                      /\ ~catalogue'[i].latest
                      /\ catalogue[i].original = r.original /\ r.original # 0
                      /\ catalogue[i].version < r.version
               /\ catalogue[i].original = r.original /\ r.original # 0 =>
                      catalogue[i].name = r.name,
           demoted' = demoted \ {r.name}
    PROVE  CatalogueInv'
<1>1. /\ new \in Nat /\ assigned \in Nat /\ new \notin C!Pipelines
      /\ \A i \in C!Pipelines : i \in Nat /\ i < new
  BY PipelineRows DEF CatalogueInv, CatalogueOK, CatalogueBounds
<1>2. CatalogueOK'
  <2> SUFFICES ASSUME NEW i \in PipelineId
               PROVE  \/ catalogue'[i] = C!NoPipeline
                      \/ /\ IsPipeline(catalogue'[i])
                         /\ i <= new /\ catalogue'[i].original <= new
    BY <1>1 DEF CatalogueOK, IsPipeline, C!NoPipeline
  <2>1. CASE i = new
    BY <1>1, <2>1
  <2>2. CASE i # new /\ catalogue[i] = C!NoPipeline
    BY <2>2
  <2>3. CASE i # new /\ catalogue[i] # C!NoPipeline
    <3>1. /\ i \in Nat /\ i <= assigned /\ IsPipeline(catalogue[i])
          /\ catalogue[i].original \in Nat /\ catalogue[i].original <= assigned
      BY <2>3, PipelineRows DEF CatalogueInv, C!Pipelines
    <3>2. IsPipeline(catalogue'[i]) /\ catalogue'[i].original = catalogue[i].original
      BY <2>3, <3>1
    <3> QED
      BY <1>1, <3>1, <3>2
  <2> QED
    BY <2>1, <2>2, <2>3
<1>3. C!Pipelines' = C!Pipelines \cup {new}
  <2> SUFFICES ASSUME NEW i \in PipelineId
               PROVE  catalogue'[i] # C!NoPipeline <=> (catalogue[i] # C!NoPipeline \/ i = new)
    BY DEF C!Pipelines
  <2>1. CASE i = new
    BY <2>1, PipelineIsThere
  <2>2. CASE i # new
    BY <2>2, PipelineIsThere
  <2> QED
    BY <2>1, <2>2
<1>4. \A i \in C!Pipelines :
          /\ catalogue'[i].name = catalogue[i].name
          /\ catalogue'[i].original = catalogue[i].original
          /\ catalogue'[i].version = catalogue[i].version
          /\ catalogue[i].name # r.name => catalogue'[i] = catalogue[i]
  BY <1>1 DEF C!Pipelines
<1>5. VersionsInOrder'
  <2> SUFFICES ASSUME NEW i \in C!Pipelines \cup {new}, NEW j \in C!Pipelines \cup {new}
               PROVE  /\ i < j /\ catalogue'[i].name = catalogue'[j].name =>
                             /\ catalogue'[i].original = catalogue'[j].original
                             /\ catalogue'[i].original # 0
                             /\ catalogue'[i].version < catalogue'[j].version
                      /\ catalogue'[i].original = catalogue'[j].original
                         /\ catalogue'[i].original # 0 =>
                             catalogue'[i].name = catalogue'[j].name
    BY <1>3 DEF VersionsInOrder
  <2>1. CASE i \in C!Pipelines /\ j \in C!Pipelines
    BY <1>4, <2>1 DEF CatalogueInv, VersionsInOrder
  <2>2. CASE i \in C!Pipelines /\ j = new
    BY <1>4, <2>2
  <2>3. CASE i = new /\ j \in C!Pipelines
    <3>1. ~(i < j)
      BY <1>1, <2>3
    <3> QED
      BY <1>4, <2>3, <3>1
  <2>4. CASE i = new /\ j = new
    BY <1>1, <2>4
  <2> QED
    BY <2>1, <2>2, <2>3, <2>4
<1>6. MarkedIsLast'
  <2> SUFFICES ASSUME NEW i \in C!Pipelines \cup {new}
               PROVE  /\ catalogue'[i].latest =>
                             \A j \in C!Pipelines \cup {new} :
                                 catalogue'[j].name = catalogue'[i].name => j <= i
                      /\ \/ catalogue'[i].name \in demoted'
                         \/ \E j \in C!Pipelines \cup {new} :
                                catalogue'[j].name = catalogue'[i].name /\ catalogue'[j].latest
    BY <1>3 DEF MarkedIsLast
  <2>1. CASE i = new
    <3>1. \A j \in C!Pipelines \cup {new} : j <= i
      BY <1>1, <2>1
    <3> QED
      BY <2>1, <3>1
  <2>2. CASE i \in C!Pipelines /\ catalogue[i].name = r.name
    <3>1. ~catalogue'[i].latest /\ catalogue'[i].name = catalogue'[new].name
      BY <1>4, <2>2
    <3>2. catalogue'[new].latest /\ new \in C!Pipelines \cup {new}
      OBVIOUS
    <3> QED
      BY <3>1, <3>2
  <2>3. CASE i \in C!Pipelines /\ catalogue[i].name # r.name
    <3>1. catalogue'[i] = catalogue[i]
      BY <1>4, <2>3
    <3>2. \A j \in C!Pipelines \cup {new} :
              catalogue'[j].name = catalogue'[i].name =>
                  j \in C!Pipelines /\ catalogue'[j] = catalogue[j]
      BY <1>4, <2>3, <3>1
    <3>3. catalogue[i].latest =>
              \A j \in C!Pipelines : catalogue[j].name = catalogue[i].name => j <= i
      BY <2>3 DEF CatalogueInv, MarkedIsLast
    <3>4. \/ catalogue[i].name \in demoted
          \/ \E j \in C!Pipelines :
                 catalogue[j].name = catalogue[i].name /\ catalogue[j].latest
      BY <2>3 DEF CatalogueInv, MarkedIsLast
    <3>5. \A j \in C!Pipelines :
              catalogue[j].name = catalogue[i].name => catalogue'[j] = catalogue[j]
      BY <1>4, <2>3
    <3>6. \/ catalogue'[i].name \in demoted'
          \/ \E j \in C!Pipelines \cup {new} :
                 catalogue'[j].name = catalogue'[i].name /\ catalogue'[j].latest
      BY <2>3, <3>1, <3>4, <3>5
    <3> QED
      BY <3>1, <3>2, <3>3, <3>6
  <2> QED
    BY <2>1, <2>2, <2>3
<1> QED
  BY <1>2, <1>5, <1>6 DEF CatalogueInv

\* A row of these fields is that of a pipeline.
LEMMA PipelineIs ==
    ASSUME NEW name \in PipelineName, NEW version \in Nat, NEW original \in Nat,
           NEW latest \in BOOLEAN, NEW tree, NEW urls, NEW categories, NEW r,
           r = [name |-> name, version |-> version, original |-> original,
                latest |-> latest, tree |-> tree, urls |-> urls, categories |-> categories]
    PROVE  IsPipeline(r)
BY DEF IsPipeline

\* The row of a new version.
LEMMA AdjustedIs ==
    ASSUME NEW tree, NEW name \in PipelineName, NEW version \in Nat, NEW original \in Nat,
           NEW later, NEW r, r = C!Adjusted(tree, name, version, original, later)
    PROVE  /\ IsPipeline(r) /\ r.name = name /\ r.latest /\ r.original = original
           /\ r.version = version
<1>1. PICK f, urls, categories :
          /\ f \in BOOLEAN /\ f = TRUE
          /\ r = [name |-> name, version |-> version, original |-> original,
                  latest |-> f, tree |-> tree, urls |-> urls, categories |-> categories]
  BY DEF C!Adjusted
<1>2. IsPipeline(r)
  BY <1>1 DEF IsPipeline
<1> QED
  BY <1>1, <1>2

\* A row without its mark is otherwise as it was.
LEMMA PlainIs ==
    ASSUME NEW old, IsPipeline(old), NEW f \in BOOLEAN, f = FALSE,
           NEW plain, plain = [old EXCEPT !.latest = f]
    PROVE  /\ IsPipeline(plain) /\ plain.name = old.name /\ plain.original = old.original
           /\ plain.version = old.version /\ ~plain.latest
<1>1. PICK name \in PipelineName, version \in Nat, original \in Nat, latest \in BOOLEAN :
          \E tree, urls, categories :
              old = [name |-> name, version |-> version, original |-> original,
                     latest |-> latest, tree |-> tree, urls |-> urls,
                     categories |-> categories]
  BY DEF IsPipeline
<1>2. PICK tree, urls, categories :
          old = [name |-> name, version |-> version, original |-> original,
                 latest |-> latest, tree |-> tree, urls |-> urls,
                 categories |-> categories]
  BY <1>1
<1>3. plain = [name |-> name, version |-> version, original |-> original,
               latest |-> f, tree |-> tree, urls |-> urls, categories |-> categories]
  BY <1>2
<1>4. IsPipeline(plain)
  BY <1>1, <1>3, PipelineIs
<1> QED
  BY <1>2, <1>3, <1>4

\* The first pipeline of its name.
LEMMA AddFirstStep ==
    ASSUME CatalogueBounds, CatalogueInv, NEW name \in PipelineName,
           NEW version \in FirstVersion, NEW tree \in Trees, C!AddFirst(name, version, tree),
           ~C!Refused
    PROVE  CatalogueInv'
<1>1. PICK new : new = C!NextId
  OBVIOUS
<1>2. /\ C!GetPipelines(name, C!NoId, C!NoId) = {} /\ new \in PipelineId
      /\ assigned' = new /\ demoted' = demoted \ {name}
      /\ \E later, original :
             /\ original \in {new, C!NoId}
             /\ catalogue' = [catalogue EXCEPT ![new] =
                                  C!Adjusted(tree, name, version, original, later)]
  BY <1>1 DEF C!AddFirst
<1>3. PICK later, original :
          /\ original \in {new, C!NoId}
          /\ catalogue' = [catalogue EXCEPT ![new] =
                               C!Adjusted(tree, name, version, original, later)]
  BY <1>2
<1>4. PICK r : r = C!Adjusted(tree, name, version, original, later)
  OBVIOUS
<1>5. new = assigned + 1 /\ new \in Nat /\ C!NoId = 0 /\ version \in Nat /\ assigned \in Nat
  BY <1>1 DEF C!NextId, C!NoId, CatalogueInv, CatalogueOK, CatalogueBounds
<1>6. /\ IsPipeline(r) /\ r.name = name /\ r.latest /\ r.original = original
  <2>1. original \in Nat /\ version \in Nat
    BY <1>3, <1>5
  <2> QED
    BY <1>4, <2>1, AdjustedIs
<1>7. r.original <= new /\ (r.original # 0 => r.original = new)
  BY <1>3, <1>5, <1>6
<1>8. /\ DOMAIN catalogue' = PipelineId /\ catalogue'[new] = r
      /\ \A i \in PipelineId \ {new} : catalogue'[i] = catalogue[i]
  BY <1>2, <1>3, <1>4 DEF CatalogueInv, CatalogueOK
<1>9. \A i \in C!Pipelines : catalogue[i].name # name
  BY <1>2 DEF C!GetPipelines, C!Fields
<1>10. \A i \in C!Pipelines : catalogue[i].original = r.original => r.original = 0
  <2> SUFFICES ASSUME NEW i \in C!Pipelines, catalogue[i].original = r.original,
                      r.original # 0
               PROVE  FALSE
    OBVIOUS
  <2>1. catalogue[i].original \in Nat /\ catalogue[i].original <= assigned
    BY PipelineRows DEF CatalogueInv
  <2> QED
    BY <1>5, <1>7, <2>1
<1>11. \A i \in C!Pipelines :
           /\ catalogue[i].name = r.name =>
                  /\ ~catalogue'[i].latest
                  /\ catalogue[i].original = r.original /\ r.original # 0
                  /\ catalogue[i].version < r.version
           /\ catalogue[i].original = r.original /\ r.original # 0 =>
                  catalogue[i].name = r.name
  BY <1>6, <1>9, <1>10
<1>12. demoted' = demoted \ {r.name} /\ assigned' = new /\ new = assigned + 1
  BY <1>2, <1>5, <1>6
<1> QED
  BY <1>2, <1>6, <1>7, <1>8, <1>11, <1>12, NewPipeline

\* The mark is taken from the last version; then the next one comes, or not.
LEMMA AddVersionStep ==
    ASSUME CatalogueBounds, CatalogueInv, NEW name \in PipelineName,
           NEW original \in PipelineId, NEW tree \in Trees,
           C!AddVersion(name, original, tree), ~C!Refused
    PROVE  CatalogueInv'
<1>1. PICK G, last, new : /\ G = C!GetPipelines("any", C!NoId, original)
                          /\ last = C!LastVersion(G) /\ new = C!NextId
  OBVIOUS
<1>2. G # {} /\ catalogue[last].name = name
  BY <1>1 DEF C!AddVersion, C!Fields
<1>3. original # 0 /\ original \in Nat /\ C!NoId = 0
  BY DEF CatalogueBounds, C!NoId
<1>4. G = {i \in C!Pipelines : catalogue[i].original = original}
  BY <1>1, <1>3 DEF C!GetPipelines, C!Fields
<1>5. \A i, j \in G : catalogue[i].name = catalogue[j].name
  BY <1>3, <1>4 DEF CatalogueInv, VersionsInOrder
<1>6. last \in G /\ \A j \in G : j <= last
  BY <1>1, <1>2, <1>4, <1>5, LastIsHighestId
<1>7. \A i \in C!Pipelines : i \in Nat /\ (catalogue[i].name = name <=> i \in G)
  <2> SUFFICES ASSUME NEW i \in C!Pipelines
               PROVE  i \in Nat /\ (catalogue[i].name = name <=> i \in G)
    OBVIOUS
  <2>1. i \in Nat /\ last \in Nat /\ last \in C!Pipelines
    BY <1>4, <1>6, PipelineRows DEF CatalogueInv
  <2>2. i \in G => catalogue[i].name = name
    BY <1>2, <1>5, <1>6
  <2>3. ASSUME catalogue[i].name = name
        PROVE  i \in G
    <3>1. i = last \/ i < last \/ last < i
      BY <2>1
    <3>2. catalogue[i].original = catalogue[last].original
      BY <1>2, <2>1, <2>3, <3>1 DEF CatalogueInv, VersionsInOrder
    <3> QED
      BY <1>4, <1>6, <3>2
  <2> QED
    BY <2>1, <2>2, <2>3
<1>8. \A i \in G : i # last => ~catalogue[i].latest
  <2> SUFFICES ASSUME NEW i \in G, i # last, catalogue[i].latest
               PROVE  FALSE
    OBVIOUS
  <2>1. last <= i
    BY <1>2, <1>4, <1>5, <1>6 DEF CatalogueInv, MarkedIsLast
  <2>2. i <= last /\ i \in Nat /\ last \in Nat
    BY <1>4, <1>6, <1>7
  <2> QED
    BY <2>1, <2>2
<1>9. PICK old : old = catalogue[last]
  OBVIOUS
<1>10. PICK f, plain : f \in BOOLEAN /\ f = FALSE /\ plain = [old EXCEPT !.latest = f]
  OBVIOUS
<1>11. /\ IsPipeline(plain) /\ plain.name = name /\ plain.original = original
       /\ plain.version = old.version /\ ~plain.latest
  <2>1. IsPipeline(old) /\ old.name = name /\ old.original = original
    BY <1>2, <1>4, <1>6, <1>9, PipelineRows DEF CatalogueInv
  <2> QED
    BY <1>10, <2>1, PlainIs
<1>12. C!Demoted(last) = [catalogue EXCEPT ![last] = plain]
  BY <1>9, <1>10 DEF C!Demoted
<1>13. last \in PipelineId /\ last \in Nat /\ old.version \in Nat
  BY <1>4, <1>6, <1>9, PipelineRows DEF CatalogueInv
<1>14. ASSUME new \in PipelineId, assigned' = new, demoted' = demoted \ {name},
              NEW later,
              catalogue' = [C!Demoted(last) EXCEPT ![new] =
                  C!Adjusted(tree, name, C!Fields(last).version + 1, original, later)]
       PROVE  CatalogueInv'
  <2>1. PICK r, v : v = old.version + 1 /\ r = C!Adjusted(tree, name, v, original, later)
    OBVIOUS
  <2>2. /\ v \in Nat /\ new = assigned + 1 /\ assigned \in Nat /\ new # last
        /\ original <= assigned
    <3>1. last <= assigned /\ catalogue[last].original <= assigned
      BY <1>4, <1>6, PipelineRows DEF CatalogueInv
    <3> QED
      BY <1>1, <1>4, <1>6, <1>13, <2>1, <3>1 DEF C!NextId, CatalogueInv, CatalogueOK
  <2>3. /\ IsPipeline(r) /\ r.name = name /\ r.latest /\ r.original = original
        /\ r.version = v
    <3>1. original \in Nat /\ v \in Nat
      BY <1>3, <2>2
    <3> QED
      BY <2>1, <3>1, AdjustedIs
  <2>4. catalogue' = [[catalogue EXCEPT ![last] = plain] EXCEPT ![new] = r]
    BY <1>9, <1>12, <1>14, <2>1 DEF C!Fields
  <2>5. /\ DOMAIN catalogue' = PipelineId /\ catalogue'[new] = r
        /\ catalogue'[last] = plain
        /\ \A i \in PipelineId \ {new, last} : catalogue'[i] = catalogue[i]
    BY <1>13, <1>14, <2>2, <2>4 DEF CatalogueInv, CatalogueOK
  <2>6. \A i \in PipelineId \ {new} :
            \/ catalogue'[i] = catalogue[i]
            \/ /\ catalogue[i] # C!NoPipeline /\ IsPipeline(catalogue'[i])
               /\ catalogue'[i].name = r.name /\ catalogue[i].name = r.name
               /\ catalogue'[i].original = catalogue[i].original
               /\ catalogue'[i].version = catalogue[i].version
               /\ ~catalogue'[i].latest
    <3>1. catalogue[last] # C!NoPipeline /\ catalogue[last].original = original
      BY <1>4, <1>6 DEF C!Pipelines
    <3> QED
      BY <1>2, <1>9, <1>11, <2>3, <2>5, <3>1
  <2>7. \A i \in C!Pipelines :
            /\ catalogue[i].name = r.name =>
                   /\ ~catalogue'[i].latest
                   /\ catalogue[i].original = r.original /\ r.original # 0
                   /\ catalogue[i].version < r.version
            /\ catalogue[i].original = r.original /\ r.original # 0 =>
                   catalogue[i].name = r.name
    <3> SUFFICES ASSUME NEW i \in C!Pipelines
                 PROVE  /\ catalogue[i].name = name =>
                               /\ ~catalogue'[i].latest
                               /\ catalogue[i].original = original
                               /\ catalogue[i].version < v
                        /\ catalogue[i].original = original => catalogue[i].name = name
      BY <1>3, <2>3
    <3>1. catalogue[i].name = name <=> catalogue[i].original = original
      BY <1>4, <1>7
    <3>2. ASSUME catalogue[i].name = name
          PROVE  ~catalogue'[i].latest /\ catalogue[i].version < v
      <4>1. i \in G /\ i \in Nat /\ i <= last /\ i \in PipelineId /\ i # new
            /\ catalogue[i].version \in Nat
        BY <1>6, <1>7, <2>2, <3>2, PipelineRows DEF CatalogueInv, CatalogueBounds
      <4>2. CASE i = last
        BY <1>9, <1>11, <1>13, <2>1, <2>5, <4>2
      <4>3. CASE i # last
        <5>1. i < last /\ last \in C!Pipelines
          BY <1>4, <1>6, <1>13, <4>1, <4>3
        <5>2. catalogue[i].version < old.version
          BY <1>2, <1>9, <3>2, <5>1 DEF CatalogueInv, VersionsInOrder
        <5>3. ~catalogue'[i].latest
          BY <1>8, <2>5, <4>1, <4>3
        <5> QED
          BY <1>13, <2>1, <4>1, <5>2, <5>3
      <4> QED
        BY <4>2, <4>3
    <3> QED
      BY <3>1, <3>2
  <2>8. r.original <= new
    BY <1>3, <2>2, <2>3
  <2> QED
    BY <1>14, <2>2, <2>3, <2>5, <2>6, <2>7, <2>8, NewPipeline
<1>15. ASSUME catalogue' = C!Demoted(last), demoted' = demoted \cup {name},
              UNCHANGED assigned
       PROVE  CatalogueInv'
  <2>1. /\ DOMAIN catalogue' = PipelineId /\ catalogue'[last] = plain
        /\ \A i \in PipelineId \ {last} : catalogue'[i] = catalogue[i]
    BY <1>12, <1>13, <1>15 DEF CatalogueInv, CatalogueOK
  <2>2. /\ catalogue[last] # C!NoPipeline /\ catalogue[last].original = original
        /\ plain # C!NoPipeline /\ last \in C!Pipelines
    BY <1>4, <1>6, <1>11, PipelineIsThere DEF C!Pipelines
  <2>3. C!Pipelines' = C!Pipelines
    BY <2>1, <2>2 DEF C!Pipelines
  <2>4. CatalogueOK'
    <3> SUFFICES ASSUME NEW i \in PipelineId
                 PROVE  \/ catalogue'[i] = C!NoPipeline
                        \/ /\ IsPipeline(catalogue'[i])
                           /\ i <= assigned /\ catalogue'[i].original <= assigned
      BY <1>15, <2>1 DEF CatalogueInv, CatalogueOK, IsPipeline, C!NoPipeline
    <3>1. CASE i = last
      <4>1. last <= assigned /\ original <= assigned
        BY <2>2, PipelineRows DEF CatalogueInv
      <4> QED
        BY <1>11, <2>1, <3>1, <4>1
    <3>2. CASE i # last
      BY <2>1, <3>2 DEF CatalogueInv, CatalogueOK
    <3> QED
      BY <3>1, <3>2
  <2>5. \A i \in C!Pipelines :
            /\ catalogue'[i].name = catalogue[i].name
            /\ catalogue'[i].original = catalogue[i].original
            /\ catalogue'[i].version = catalogue[i].version
            /\ catalogue[i].name # name => catalogue'[i] = catalogue[i]
            /\ catalogue'[i].latest => catalogue'[i] = catalogue[i]
    BY <1>2, <1>9, <1>11, <2>1, <2>2 DEF C!Pipelines
  <2>6. VersionsInOrder'
    <3> SUFFICES ASSUME NEW i \in C!Pipelines, NEW j \in C!Pipelines
                 PROVE  /\ i < j /\ catalogue'[i].name = catalogue'[j].name =>
                               /\ catalogue'[i].original = catalogue'[j].original
                               /\ catalogue'[i].original # 0
                               /\ catalogue'[i].version < catalogue'[j].version
                        /\ catalogue'[i].original = catalogue'[j].original
                           /\ catalogue'[i].original # 0 =>
                               catalogue'[i].name = catalogue'[j].name
      BY <2>3 DEF VersionsInOrder
    <3> QED
      BY <2>5 DEF CatalogueInv, VersionsInOrder
  <2>7. MarkedIsLast'
    <3> SUFFICES ASSUME NEW i \in C!Pipelines
                 PROVE  /\ catalogue'[i].latest =>
                               \A j \in C!Pipelines :
                                   catalogue'[j].name = catalogue'[i].name => j <= i
                        /\ \/ catalogue'[i].name \in demoted'
                           \/ \E j \in C!Pipelines :
                                  catalogue'[j].name = catalogue'[i].name
                                  /\ catalogue'[j].latest
      BY <2>3 DEF MarkedIsLast
    <3>1. catalogue'[i].latest =>
              \A j \in C!Pipelines : catalogue'[j].name = catalogue'[i].name => j <= i
      BY <2>5 DEF CatalogueInv, MarkedIsLast
    <3>2. CASE catalogue[i].name = name
      BY <1>15, <2>5, <3>1, <3>2
    <3>3. CASE catalogue[i].name # name
      <4>1. \/ catalogue[i].name \in demoted
            \/ \E j \in C!Pipelines :
                   catalogue[j].name = catalogue[i].name /\ catalogue[j].latest
        BY DEF CatalogueInv, MarkedIsLast
      <4>2. \A j \in C!Pipelines :
                catalogue[j].name = catalogue[i].name => catalogue'[j] = catalogue[j]
        BY <2>5, <3>3
      <4> QED
        BY <1>15, <2>5, <3>1, <4>1, <4>2
    <3> QED
      BY <3>2, <3>3
  <2> QED
    BY <2>4, <2>6, <2>7 DEF CatalogueInv
<1>16. \/ /\ new \in PipelineId /\ assigned' = new /\ demoted' = demoted \ {name}
          /\ \E later :
                 catalogue' = [C!Demoted(last) EXCEPT ![new] =
                     C!Adjusted(tree, name, C!Fields(last).version + 1, original, later)]
       \/ /\ catalogue' = C!Demoted(last) /\ demoted' = demoted \cup {name}
          /\ UNCHANGED assigned
  BY <1>1 DEF C!AddVersion
<1> QED
  BY <1>14, <1>15, <1>16

\* Whatever rows are deleted.
LEMMA DeleteInstancesStep ==
    ASSUME CatalogueBounds, CatalogueInv, NEW gone \in SUBSET C!Pipelines,
           C!DeleteInstances(gone)
    PROVE  CatalogueInv'
<1>1. /\ DOMAIN catalogue' = PipelineId /\ UNCHANGED assigned
      /\ \A i \in PipelineId \ gone : catalogue'[i] = catalogue[i]
      /\ \A i \in PipelineId \cap gone : catalogue'[i] = C!NoPipeline
      /\ demoted' = demoted \cup
             {catalogue[i].name : i \in {j \in gone : catalogue[j].latest}}
  BY DEF C!DeleteInstances, C!Fields
<1>2. C!Pipelines' = C!Pipelines \ gone
  BY <1>1 DEF C!Pipelines
<1>3. CatalogueOK'
  BY <1>1 DEF CatalogueInv, CatalogueOK, IsPipeline, C!NoPipeline
<1>4. \A i \in C!Pipelines \ gone : catalogue'[i] = catalogue[i]
  BY <1>1 DEF C!Pipelines
<1>5. VersionsInOrder'
  BY <1>2, <1>4 DEF CatalogueInv, VersionsInOrder
<1>6. MarkedIsLast'
  <2> SUFFICES ASSUME NEW i \in C!Pipelines \ gone
               PROVE  /\ catalogue'[i].latest =>
                             \A j \in C!Pipelines \ gone :
                                 catalogue'[j].name = catalogue'[i].name => j <= i
                      /\ \/ catalogue'[i].name \in demoted'
                         \/ \E j \in C!Pipelines \ gone :
                                catalogue'[j].name = catalogue'[i].name
                                /\ catalogue'[j].latest
    BY <1>2 DEF MarkedIsLast
  <2>1. catalogue'[i].latest =>
            \A j \in C!Pipelines \ gone : catalogue'[j].name = catalogue'[i].name => j <= i
    BY <1>4 DEF CatalogueInv, MarkedIsLast
  <2>2. CASE catalogue[i].name \in demoted
    BY <1>1, <1>4, <2>1, <2>2
  <2>3. ASSUME NEW j \in C!Pipelines, catalogue[j].name = catalogue[i].name,
               catalogue[j].latest
        PROVE  \/ catalogue'[i].name \in demoted'
               \/ \E o \in C!Pipelines \ gone :
                      catalogue'[o].name = catalogue'[i].name /\ catalogue'[o].latest
    <3>1. CASE j \in gone
      BY <1>1, <1>4, <2>3, <3>1
    <3>2. CASE j \notin gone
      BY <1>4, <2>3, <3>2
    <3> QED
      BY <3>1, <3>2
  <2> QED
    BY <2>1, <2>2, <2>3 DEF CatalogueInv, MarkedIsLast
<1> QED
  BY <1>3, <1>5, <1>6 DEF CatalogueInv

\* Every step keeps the invariant.
LEMMA CatalogueNext ==
    ASSUME CatalogueBounds, CatalogueInv, [C!Next]_(C!catalogueVars)
    PROVE  CatalogueInv'
<1>1. ASSUME UNCHANGED <<catalogue, assigned, demoted>>
      PROVE  CatalogueInv'
  <2>1. CatalogueOK'
    BY <1>1 DEF CatalogueInv, CatalogueOK
  <2>2. VersionsInOrder'
    BY <1>1 DEF CatalogueInv, VersionsInOrder, C!Pipelines
  <2>3. MarkedIsLast'
    BY <1>1 DEF CatalogueInv, MarkedIsLast, C!Pipelines
  <2> QED
    BY <2>1, <2>2, <2>3 DEF CatalogueInv
<1>2. CASE C!Refused
  BY <1>1, <1>2 DEF C!Refused, C!catalogueVars
<1>3. CASE C!Next /\ ~C!Refused
  <2>1. ASSUME NEW name \in PipelineName, NEW tree \in Trees,
               \/ \E version \in FirstVersion : C!AddFirst(name, version, tree)
               \/ \E original \in PipelineId : C!AddVersion(name, original, tree)
        PROVE  CatalogueInv'
    BY <1>3, <2>1, AddFirstStep, AddVersionStep
  <2>2. ASSUME NEW name \in PipelineName, NEW version \in FirstVersion \cup {C!NoId},
               C!DeletePipelines(name, version)
        PROVE  CatalogueInv'
    <3>1. PICK gone : gone = C!GetPipelines(name, version, C!NoId)
      OBVIOUS
    <3>2. gone \in SUBSET C!Pipelines
      BY <3>1 DEF C!GetPipelines
    <3>3. C!DeleteInstances(gone)
      BY <1>3, <2>2, <3>1 DEF C!DeletePipelines
    <3> QED
      BY <3>2, <3>3, DeleteInstancesStep
  <2>3. ASSUME NEW i \in PipelineId, C!DeletePipelineById(i)
        PROVE  CatalogueInv'
    <3>1. i \in C!Pipelines /\ C!DeleteInstances({i})
      BY <1>3, <2>3 DEF C!DeletePipelineById
    <3> QED
      BY <3>1, DeleteInstancesStep
  <2>4. ASSUME NEW i \in PipelineId, NEW t \in TaskId, C!ExecutePipeline(i, t)
        PROVE  CatalogueInv'
    BY <1>1, <1>3, <2>4 DEF C!ExecutePipeline
  <2> QED
    BY <1>3, <2>1, <2>2, <2>3, <2>4 DEF C!Next
<1> QED
  BY <1>2, <1>3 DEF C!Refused

\* For any number of pipelines and names: the flag is_latest is on the version
\* that GET /pipeline answers with and on no other; a name has none only after
\* its latest was deleted, or demoted for a version that was then refused
\* (update_version, add_pipeline, delete_pipelines).
THEOREM LatestPipelineIsMarked ==
    ASSUME CatalogueBounds
    PROVE  C!Spec => []C!LatestPipelineIsHighest
<1>1. CatalogueInv => C!LatestPipelineIsHighest
  <2> SUFFICES ASSUME CatalogueInv, NEW i \in C!Pipelines
               PROVE  /\ catalogue[i].latest => i = C!GetPipeline(catalogue[i].name)
                      /\ \/ catalogue[C!GetPipeline(catalogue[i].name)].latest
                         \/ catalogue[i].name \in demoted
    BY DEF C!LatestPipelineIsHighest, C!Fields
  <2>1. PICK name, G, last : /\ name = catalogue[i].name
                             /\ G = C!GetPipelines(name, C!NoId, C!NoId)
                             /\ last = C!LastVersion(G)
    OBVIOUS
  <2>2. last = C!GetPipeline(name)
    BY <2>1 DEF C!GetPipeline
  <2>3. name # "any"
    BY <2>1, PipelineRows DEF CatalogueInv, CatalogueBounds
  <2>4. G = {j \in C!Pipelines : catalogue[j].name = name}
    BY <2>1, <2>3 DEF C!GetPipelines, C!Fields
  <2>5. last \in G /\ \A j \in G : j <= last
    <3>1. G # {} /\ G \in SUBSET C!Pipelines
      BY <2>1, <2>4
    <3>2. \A j, o \in G : catalogue[j].name = catalogue[o].name
      BY <2>4
    <3> QED
      BY <2>1, <3>1, <3>2, LastIsHighestId
  <2>6. ASSUME NEW j \in G, catalogue[j].latest
        PROVE  j = last
    <3>1. last <= j
      BY <2>4, <2>5, <2>6 DEF CatalogueInv, MarkedIsLast
    <3>2. j <= last /\ j \in Nat /\ last \in Nat
      BY <2>4, <2>5, PipelineRows DEF CatalogueInv
    <3> QED
      BY <3>1, <3>2
  <2>7. \/ name \in demoted
        \/ \E j \in G : catalogue[j].latest
    BY <2>1, <2>4 DEF CatalogueInv, MarkedIsLast
  <2> QED
    BY <2>1, <2>2, <2>4, <2>6, <2>7
<1> QED
  BY <1>1, CatalogueInit, CatalogueNext, PTL DEF C!Spec

\* For any number of pipelines and names: a name is that of one pipeline and its
\* versions, whose numbers differ, also when the first one has lost its original
\* because its request ended half way (check_name, update_version).
THEOREM NamesAreOfOnePipeline ==
    ASSUME CatalogueBounds
    PROVE  C!Spec => []C!OneNamePerOriginal
<1>1. CatalogueInv => C!OneNamePerOriginal
  <2> SUFFICES ASSUME CatalogueInv, NEW i \in C!Pipelines, NEW j \in C!Pipelines, i # j
               PROVE  /\ catalogue[i].name = catalogue[j].name
                             <=> (catalogue[i].original = catalogue[j].original
                                  /\ catalogue[j].original # 0)
                      /\ catalogue[i].name = catalogue[j].name
                             => catalogue[i].version # catalogue[j].version
    BY DEF C!OneNamePerOriginal, C!Fields, C!NoId
  <2>1. /\ i \in Nat /\ j \in Nat
        /\ catalogue[i].version \in Nat /\ catalogue[j].version \in Nat
    BY PipelineRows DEF CatalogueInv
  <2>2. CASE i < j
    BY <2>1, <2>2 DEF CatalogueInv, VersionsInOrder
  <2>3. CASE j < i
    BY <2>1, <2>3 DEF CatalogueInv, VersionsInOrder
  <2> QED
    BY <2>1, <2>2, <2>3
<1> QED
  BY <1>1, CatalogueInit, CatalogueNext, PTL DEF C!Spec

-----------------------------------------------------------------------------
(* Taxons: sequences and numbers *)

\* A set of numbers below a bound that is not empty has a highest one.
LEMMA HighestOf ==
    ASSUME NEW top \in Nat, NEW S \in SUBSET (1 .. top), S # {}
    PROVE  \E x \in S : \A y \in S : x >= y
<1>1. PICK T : T = {top - x : x \in S}
  OBVIOUS
<1>2. T \subseteq Nat
  <2> SUFFICES ASSUME NEW x \in S
               PROVE  top - x \in Nat
    BY <1>1
  <2> QED
    OBVIOUS
<1>6. T # {}
  BY <1>1
<1>3. PICK m \in T : \A y \in T : ~ (<<y, m>> \in OpToRel(<, Nat))
  BY <1>2, <1>6, WFMin, NatLessThanWellFounded
<1>4. \A y \in T : ~ (y < m)
  BY <1>2, <1>3 DEF OpToRel
<1>5. PICK x \in S : m = top - x
  BY <1>1, <1>3
<1> QED
  BY <1>1, <1>4, <1>5

\* Two sequences with the same elements in the same places are one.
LEMMA SameSequence ==
    ASSUME NEW S, NEW s \in Seq(S), NEW t \in Seq(S), Len(s) = Len(t),
           \A m \in 1 .. Len(s) : s[m] = t[m]
    PROVE  s = t
BY SeqEqual

\* The part of a sequence up to a place.
LEMMA FirstNames ==
    ASSUME NEW S, NEW t, NEW k \in Nat, \A m \in 1 .. k : t[m] \in S,
           NEW front, front = SubSeq(t, 1, k)
    PROVE  /\ front \in Seq(S) /\ Len(front) = k
           /\ \A n \in 1 .. k : front[n] = t[n]
<1>1. /\ SubSeq(t, 1, k) \in Seq(S)
      /\ Len(SubSeq(t, 1, k)) = IF 1 <= k THEN k - 1 + 1 ELSE 0
      /\ \A n \in 1 .. k - 1 + 1 : SubSeq(t, 1, k)[n] = t[1 + n - 1]
  BY SubSeqProperties
<1>2. /\ front \in Seq(S)
      /\ Len(front) = IF 1 <= k THEN k - 1 + 1 ELSE 0
      /\ \A n \in 1 .. k - 1 + 1 : front[n] = t[1 + n - 1]
  BY <1>1
<1> QED
  BY <1>2

\* IsPrefix, place by place.
LEMMA PrefixIs ==
    ASSUME NEW S, NEW s \in Seq(S), NEW t \in Seq(S)
    PROVE  IsPrefix(s, t) <=>
               Len(s) <= Len(t) /\ \A m \in 1 .. Len(s) : s[m] = t[m]
<1> SUFFICES ASSUME Len(s) <= Len(t)
             PROVE  SubSeq(s, 1, Len(s)) = SubSeq(t, 1, Len(s)) <=>
                        \A m \in 1 .. Len(s) : s[m] = t[m]
  BY DEF IsPrefix
<1>1. Len(s) \in Nat /\ Len(t) \in Nat
  OBVIOUS
<1>2. \A m \in 1 .. Len(s) : s[m] \in S /\ t[m] \in S
  BY <1>1
<1>3. PICK a : a = SubSeq(s, 1, Len(s))
  OBVIOUS
<1>4. PICK b : b = SubSeq(t, 1, Len(s))
  OBVIOUS
<1>5. a \in Seq(S) /\ Len(a) = Len(s) /\ \A m \in 1 .. Len(s) : a[m] = s[m]
  BY <1>1, <1>2, <1>3, SubSeqProperties
<1>6. b \in Seq(S) /\ Len(b) = Len(s) /\ \A m \in 1 .. Len(s) : b[m] = t[m]
  BY <1>1, <1>2, <1>4, SubSeqProperties
<1>7. a = b <=> \A m \in 1 .. Len(s) : s[m] = t[m]
  <2>1. ASSUME \A m \in 1 .. Len(s) : s[m] = t[m]
        PROVE  a = b
    BY <1>5, <1>6, <2>1, SameSequence
  <2>2. ASSUME a = b
        PROVE  \A m \in 1 .. Len(s) : s[m] = t[m]
    BY <1>5, <1>6, <2>2
  <2> QED
    BY <2>1, <2>2
<1> QED
  BY <1>3, <1>4, <1>7

\* A prefix of a path and one more name is one of the path, or the whole.
LEMMA PrefixOfAppend ==
    ASSUME NEW S, NEW s \in Seq(S), NEW t \in Seq(S), NEW x \in S,
           NEW u, u = Append(t, x), s # u
    PROVE  IsPrefix(s, u) <=> IsPrefix(s, t)
<1>1. /\ u \in Seq(S) /\ Len(u) = Len(t) + 1 /\ u[Len(t) + 1] = x
      /\ \A m \in 1 .. Len(t) : u[m] = t[m]
  BY AppendProperties
<1>2. Len(s) \in Nat /\ Len(t) \in Nat
  OBVIOUS
<1>3. ASSUME IsPrefix(s, u)
      PROVE  IsPrefix(s, t)
  <2>1. Len(s) <= Len(u) /\ \A m \in 1 .. Len(s) : s[m] = u[m]
    <3>1. u \in Seq(S)
      BY <1>1
    <3>2. PICK v \in Seq(S) : v = u
      BY <3>1
    <3>3. IsPrefix(s, v)
      BY <1>3, <3>2
    <3>4. Len(s) <= Len(v) /\ \A m \in 1 .. Len(s) : s[m] = v[m]
      BY <3>3, PrefixIs
    <3> QED
      BY <3>2, <3>4
  <2>2. Len(s) # Len(u)
    BY <1>1, <2>1, SameSequence
  <2>3. Len(s) <= Len(t)
    BY <1>1, <1>2, <2>1, <2>2
  <2>4. \A m \in 1 .. Len(s) : s[m] = t[m]
    BY <1>1, <1>2, <2>1, <2>3
  <2> QED
    BY <2>3, <2>4, PrefixIs
<1>4. ASSUME IsPrefix(s, t)
      PROVE  IsPrefix(s, u)
  <2>1. Len(s) <= Len(t) /\ \A m \in 1 .. Len(s) : s[m] = t[m]
    BY <1>4, PrefixIs
  <2>2. Len(s) <= Len(u) /\ \A m \in 1 .. Len(s) : s[m] = u[m]
    BY <1>1, <1>2, <2>1
  <2> QED
    BY <1>1, <2>2, PrefixIs
<1> QED
  BY <1>3, <1>4

\* A sequence with one more element.
LEMMA OneMore ==
    ASSUME NEW S, NEW b \in Seq(S), NEW x \in S, NEW d, d = Append(b, x)
    PROVE  /\ d \in Seq(S) /\ Len(d) = Len(b) + 1 /\ d[Len(b) + 1] = x
           /\ \A n \in 1 .. Len(b) : d[n] = b[n]
<1>1. /\ Append(b, x) \in Seq(S) /\ Len(Append(b, x)) = Len(b) + 1
      /\ Append(b, x)[Len(b) + 1] = x
      /\ \A n \in 1 .. Len(b) : Append(b, x)[n] = b[n]
  BY AppendProperties
<1> QED
  BY <1>1

\* The end of a sequence from a place.
LEMMA EndFrom ==
    ASSUME NEW S, NEW t \in Seq(S), NEW L \in 1 .. Len(t),
           NEW b, b = SubSeq(t, L, Len(t))
    PROVE  /\ b \in Seq(S) /\ Len(b) = Len(t) - L + 1
           /\ \A n \in 1 .. Len(b) : b[n] = t[L + n - 1]
<1>1. PICK k \in Nat : k = Len(t)
  OBVIOUS
<1>2. L \in Int /\ L >= 1 /\ L <= k /\ \A n \in L .. k : t[n] \in S
  BY <1>1
<1>3. /\ SubSeq(t, L, k) \in Seq(S)
      /\ Len(SubSeq(t, L, k)) = IF L <= k THEN k - L + 1 ELSE 0
      /\ \A n \in 1 .. k - L + 1 : SubSeq(t, L, k)[n] = t[L + n - 1]
  BY <1>2, SubSeqProperties
<1>4. /\ b \in Seq(S)
      /\ Len(b) = IF L <= k THEN k - L + 1 ELSE 0
      /\ \A n \in 1 .. k - L + 1 : b[n] = t[L + n - 1]
  BY <1>1, <1>3
<1> QED
  BY <1>1, <1>2, <1>4

\* What is put before the end of a path and one more name ends with that name.
LEMMA EndOfAppend ==
    ASSUME NEW S, NEW a \in Seq(S), NEW t \in Seq(S), NEW x \in S,
           NEW L \in 1 .. Len(t)
    PROVE  a \o SubSeq(Append(t, x), L, Len(t) + 1)
               = Append(a \o SubSeq(t, L, Len(t)), x)
<1>1. PICK u : u = Append(t, x)
  OBVIOUS
<1>2. /\ u \in Seq(S) /\ Len(u) = Len(t) + 1 /\ u[Len(t) + 1] = x
      /\ \A m \in 1 .. Len(t) : u[m] = t[m]
  BY <1>1, OneMore
<1>3. PICK b : b = SubSeq(t, L, Len(t))
  OBVIOUS
<1>4. /\ b \in Seq(S) /\ Len(b) = Len(t) - L + 1
      /\ \A n \in 1 .. Len(b) : b[n] = t[L + n - 1]
  BY <1>3, EndFrom
<1>5. PICK c : c = SubSeq(u, L, Len(u))
  OBVIOUS
<1>6. /\ c \in Seq(S) /\ Len(c) = Len(t) - L + 2
      /\ \A n \in 1 .. Len(c) : c[n] = u[L + n - 1]
  <2>1. L \in 1 .. Len(u) /\ u \in Seq(S)
    BY <1>2
  <2>2. /\ c \in Seq(S) /\ Len(c) = Len(u) - L + 1
        /\ \A n \in 1 .. Len(c) : c[n] = u[L + n - 1]
    BY <1>5, <2>1, EndFrom
  <2> QED
    BY <1>2, <2>2
<1>7. PICK d : d = Append(b, x)
  OBVIOUS
<1>8. /\ d \in Seq(S) /\ Len(d) = Len(b) + 1 /\ d[Len(b) + 1] = x
      /\ \A n \in 1 .. Len(b) : d[n] = b[n]
  <2>1. b \in Seq(S)
    BY <1>4
  <2> QED
    BY <1>7, <2>1, OneMore
<1>9. c = d
  <2>1. Len(c) = Len(d)
    BY <1>4, <1>6, <1>8
  <2>2. ASSUME NEW n \in 1 .. Len(c)
        PROVE  c[n] = d[n]
    <3>1. CASE n = Len(c)
      <4>1. n = Len(b) + 1 /\ L + n - 1 = Len(t) + 1
        BY <1>4, <1>6, <3>1
      <4>2. c[n] = u[L + n - 1]
        BY <1>6, <2>2
      <4> QED
        BY <1>2, <1>8, <4>1, <4>2
    <3>2. CASE n # Len(c)
      <4>1. n \in 1 .. Len(b) /\ L + n - 1 \in 1 .. Len(t)
        <5>1. PICK k \in Nat : k = Len(t)
          OBVIOUS
        <5>2. Len(b) = k - L + 1 /\ Len(c) = k - L + 2 /\ L \in 1 .. k
          BY <1>4, <1>6, <5>1
        <5> QED
          BY <2>2, <3>2, <5>1, <5>2
      <4> QED
        BY <1>2, <1>4, <1>6, <1>8, <4>1
    <3> QED
      BY <3>1, <3>2
  <2> QED
    BY <1>6, <1>8, <2>1, <2>2, SameSequence
<1>10. a \o Append(b, x) = Append(a \o b, x)
  BY <1>4
<1> QED
  BY <1>1, <1>2, <1>3, <1>5, <1>7, <1>9, <1>10

\* The same of two paths from their names.
LEMMA EndOfPath ==
    ASSUME NEW S, NEW a \in Seq(S), NEW t \in Seq(S), NEW x \in S,
           NEW L \in 1 .. Len(t), NEW u, u = Append(t, x),
           NEW below, below = a \o SubSeq(t, L, Len(t)),
           NEW all, all = a \o SubSeq(u, L, Len(u))
    PROVE  all = Append(below, x)
<1>1. Len(u) = Len(t) + 1
  BY AppendProperties
<1>2. a \o SubSeq(Append(t, x), L, Len(t) + 1) = Append(a \o SubSeq(t, L, Len(t)), x)
  BY EndOfAppend, SMTT(60)
<1> QED
  BY <1>1, <1>2

-----------------------------------------------------------------------------
(* Rows whose paths follow their parents *)

TaxonRows == [TaxonId -> [parent : TaxonId \cup {Root}, tree : Seq(TaxonId)]]

\* The path of a row is that of its parent and its own name.
FollowsParent(rows, i) ==
    IF rows[i].parent = Root THEN rows[i].tree = <<i>>
    ELSE /\ rows[rows[i].parent] # NoTaxon
         /\ rows[i].tree = Append(rows[rows[i].parent].tree, i)

Rooted(rows) == \A i \in TaxonId : rows[i] # NoTaxon => FollowsParent(rows, i)

\* Each name on a path is a row whose own path is the part up to there and whose
\* parent is the name before.
OnPath(rows, up, n) ==
    /\ rows[up[n]] # NoTaxon
    /\ Len(rows[up[n]].tree) = n
    /\ \A m \in 1 .. n : rows[up[n]].tree[m] = up[m]
    /\ rows[up[n]].parent = IF n = 1 THEN Root ELSE up[n - 1]

\* A path has at least the name of its row, with which it ends.
LEMMA PathEnds ==
    ASSUME NEW rows \in TaxonRows, Rooted(rows), NEW x \in TaxonId, rows[x] # NoTaxon,
           NEW t, t = rows[x].tree
    PROVE  t \in Seq(TaxonId) /\ Len(t) \in Nat \ {0} /\ t[Len(t)] = x
<1>1. t \in Seq(TaxonId) /\ rows[x].parent \in TaxonId \cup {Root}
  BY DEF TaxonRows
<1>2. FollowsParent(rows, x)
  BY DEF Rooted
<1>3. CASE rows[x].parent = Root
  <2>1. t = <<x>>
    BY <1>2, <1>3 DEF FollowsParent
  <2> QED
    BY <1>1, <2>1
<1>4. CASE rows[x].parent # Root
  <2>1. PICK u \in TaxonId : u = rows[x].parent
    BY <1>1, <1>4
  <2>2. PICK v : v = rows[u].tree
    OBVIOUS
  <2>3. t = Append(v, x) /\ v \in Seq(TaxonId)
    BY <1>2, <1>4, <2>1, <2>2 DEF FollowsParent, TaxonRows
  <2> QED
    BY <1>1, <2>3, AppendProperties
<1> QED
  BY <1>3, <1>4

\* A row with a path is there.
LEMMA PathIsThere ==
    ASSUME NEW row, row.tree \in Seq(TaxonId), Len(row.tree) \in Nat \ {0}
    PROVE  row # NoTaxon
<1>1. Len(NoTaxon.tree) = 0
  BY DEF NoTaxon
<1> QED
  BY <1>1

\* A path with the name of a row after that of its parent.
LEMMA LongerPath ==
    ASSUME NEW rows \in TaxonRows, Rooted(rows), Root \notin TaxonId,
           NEW x \in TaxonId, rows[x] # NoTaxon,
           NEW u \in TaxonId, rows[x].parent = u,
           NEW t, t = rows[u].tree,
           \A n \in 1 .. Len(t) : OnPath(rows, t, n)
    PROVE  \A n \in 1 .. Len(rows[x].tree) : OnPath(rows, rows[x].tree, n)
<1>1. PICK up : up = rows[x].tree
  OBVIOUS
<1>2. rows[u] # NoTaxon /\ up = Append(t, x) /\ t \in Seq(TaxonId)
  BY <1>1 DEF Rooted, FollowsParent, TaxonRows
<1>3. Len(t) \in Nat \ {0} /\ t[Len(t)] = u
  BY <1>2, PathEnds
<1>4. /\ Len(up) = Len(t) + 1 /\ up[Len(t) + 1] = x
      /\ \A n \in 1 .. Len(t) : up[n] = t[n]
  BY <1>2, AppendProperties
<1>5. ASSUME NEW n \in 1 .. Len(t)
      PROVE  OnPath(rows, up, n)
  <2>1. PICK y : y = t[n]
    OBVIOUS
  <2>2. /\ rows[y] # NoTaxon /\ Len(rows[y].tree) = n
        /\ \A m \in 1 .. n : rows[y].tree[m] = t[m]
        /\ rows[y].parent = IF n = 1 THEN Root ELSE t[n - 1]
    BY <2>1 DEF OnPath
  <2>3. \A m \in 1 .. n : up[m] = t[m]
    BY <1>3, <1>4
  <2>4. n # 1 => up[n - 1] = t[n - 1]
    BY <1>3, <1>4
  <2>5. up[n] = y
    BY <1>4, <2>1
  <2> QED
    BY <2>2, <2>3, <2>4, <2>5 DEF OnPath
<1>6. PICK k : k = Len(t) + 1
  OBVIOUS
<1>7. k \in Nat \ {0, 1} /\ Len(up) = k /\ up[k] = x /\ up[k - 1] = u
  BY <1>3, <1>4, <1>6
<1>8. OnPath(rows, up, k)
  BY <1>1, <1>7 DEF OnPath
<1>9. \A n \in 1 .. k : n \in 1 .. Len(t) \/ n = k
  BY <1>3, <1>6
<1> QED
  BY <1>1, <1>5, <1>7, <1>8, <1>9

\* Every name on every path of an intact tree is as it should be: of the rows
\* of which it is not so, take one of the shortest path.
LEMMA PathsFollow ==
    ASSUME NEW rows \in TaxonRows, Rooted(rows), Root \notin TaxonId
    PROVE  \A i \in TaxonId : rows[i] # NoTaxon =>
               \A n \in 1 .. Len(rows[i].tree) : OnPath(rows, rows[i].tree, n)
<1>1. PICK Wrong : Wrong = {i \in TaxonId : rows[i] # NoTaxon /\
                          ~ \A n \in 1 .. Len(rows[i].tree) : OnPath(rows, rows[i].tree, n)}
  OBVIOUS
<1>2. PICK lengths : lengths = {Len(rows[i].tree) : i \in Wrong}
  OBVIOUS
<1>3. lengths \subseteq Nat
  <2> SUFFICES ASSUME NEW i \in Wrong
               PROVE  Len(rows[i].tree) \in Nat
    BY <1>2
  <2> QED
    BY <1>1 DEF TaxonRows
<1>4. Wrong = {}
  <2> SUFFICES ASSUME Wrong # {}
               PROVE  FALSE
    OBVIOUS
  <2>1. lengths # {}
    BY <1>2
  <2>2. PICK m \in lengths : \A y \in lengths : ~ (<<y, m>> \in OpToRel(<, Nat))
    BY <1>3, <2>1, WFMin, NatLessThanWellFounded
  <2>3. \A y \in lengths : ~ (y < m)
    BY <1>3, <2>2 DEF OpToRel
  <2>4. PICK x \in Wrong : m = Len(rows[x].tree)
    BY <1>2, <2>2
  <2>5. /\ x \in TaxonId /\ rows[x] # NoTaxon /\ FollowsParent(rows, x)
        /\ rows[x].parent \in TaxonId \cup {Root}
        /\ ~ \A n \in 1 .. Len(rows[x].tree) : OnPath(rows, rows[x].tree, n)
    BY <1>1 DEF Rooted, TaxonRows
  <2>6. CASE rows[x].parent = Root
    <3>1. PICK up : up = rows[x].tree
      OBVIOUS
    <3>4. up = <<x>>
      BY <2>5, <2>6, <3>1 DEF FollowsParent
    <3>2. Len(up) = 1 /\ up[1] = x
      BY <3>4
    <3>3. OnPath(rows, up, 1)
      BY <2>5, <2>6, <3>1, <3>2 DEF OnPath
    <3> QED
      BY <2>5, <3>1, <3>2, <3>3
  <2>7. CASE rows[x].parent # Root
    <3>1. PICK u \in TaxonId : u = rows[x].parent
      BY <2>5, <2>7
    <3>2. PICK t : t = rows[u].tree
      OBVIOUS
    <3>3. rows[u] # NoTaxon /\ rows[x].tree = Append(t, x) /\ t \in Seq(TaxonId)
      BY <2>5, <2>7, <3>1, <3>2 DEF FollowsParent, TaxonRows
    <3>4. m = Len(t) + 1 /\ Len(t) \in Nat
      BY <2>4, <2>5, <3>3, AppendProperties
    <3>5. u \notin Wrong
      BY <1>2, <2>3, <3>2, <3>4
    <3>6. \A n \in 1 .. Len(t) : OnPath(rows, t, n)
      BY <1>1, <3>2, <3>3, <3>5
    <3> QED
      BY <2>5, <3>1, <3>2, <3>6, LongerPath
  <2> QED
    BY <2>6, <2>7
<1> QED
  BY <1>1, <1>4

\* A row is on the paths that its own is a prefix of.
LEMMA PathsArePrefixes ==
    ASSUME NEW rows \in TaxonRows, Rooted(rows), Root \notin TaxonId,
           NEW i \in TaxonId, rows[i] # NoTaxon, NEW up, up = rows[i].tree,
           NEW x \in TaxonId, rows[x] # NoTaxon, NEW t, t = rows[x].tree
    PROVE  IsPrefix(t, up) <=> \E n \in 1 .. Len(up) : up[n] = x
<1>1. up \in Seq(TaxonId) /\ t \in Seq(TaxonId)
  BY DEF TaxonRows
<1>2. \A n \in 1 .. Len(up) : OnPath(rows, up, n)
  BY PathsFollow
<1>3. Len(t) \in Nat \ {0} /\ t[Len(t)] = x
  BY PathEnds
<1>4. ASSUME IsPrefix(t, up)
      PROVE  \E n \in 1 .. Len(up) : up[n] = x
  <2>1. Len(t) <= Len(up) /\ \A m \in 1 .. Len(t) : t[m] = up[m]
    BY <1>1, <1>4, PrefixIs
  <2> QED
    BY <1>1, <1>3, <2>1
<1>5. ASSUME NEW n \in 1 .. Len(up), up[n] = x
      PROVE  IsPrefix(t, up)
  <2>1. Len(t) = n /\ \A m \in 1 .. n : t[m] = up[m]
    BY <1>2, <1>5 DEF OnPath
  <2> QED
    BY <1>1, <2>1, PrefixIs
<1> QED
  BY <1>4, <1>5

-----------------------------------------------------------------------------
(* What the commits make of the rows *)

\* A row with the path of its parent and its own name keeps the tree intact.
LEMMA AddedFollows ==
    ASSUME NEW rows \in TaxonRows, Rooted(rows),
           NEW i \in TaxonId, rows[i] = NoTaxon, Root \notin TaxonId,
           NEW p \in TaxonId \cup {Root}, p # Root => rows[p] # NoTaxon,
           NEW up, up = IF p # Root THEN Append(rows[p].tree, i) ELSE <<i>>,
           NEW new, new = [rows EXCEPT ![i] = [parent |-> p, tree |-> up]]
    PROVE  Rooted(new)
<1>1. new[i] = [parent |-> p, tree |-> up] /\ \A x \in TaxonId \ {i} : new[x] = rows[x]
  BY DEF TaxonRows
<1>2. ASSUME NEW x \in TaxonId, new[x] # NoTaxon, x # i
      PROVE  FollowsParent(new, x)
  <2>1. new[x] = rows[x] /\ FollowsParent(rows, x) /\ rows[x].parent \in TaxonId \cup {Root}
    BY <1>1, <1>2 DEF Rooted, TaxonRows
  <2>2. CASE rows[x].parent = Root
    BY <2>1, <2>2 DEF FollowsParent
  <2>3. CASE rows[x].parent # Root
    <3>1. rows[rows[x].parent] # NoTaxon
      BY <2>1, <2>3 DEF FollowsParent
    <3>2. new[rows[x].parent] = rows[rows[x].parent]
      BY <1>1, <2>1, <2>3, <3>1
    <3> QED
      BY <2>1, <2>3, <3>1, <3>2 DEF FollowsParent
  <2> QED
    BY <2>2, <2>3
<1>3. FollowsParent(new, i)
  <2>1. new[i].parent = p /\ new[i].tree = up
    <3>1. PICK row : row = [parent |-> p, tree |-> up]
      OBVIOUS
    <3>2. row.parent = p /\ row.tree = up
      BY <3>1
    <3> QED
      BY <1>1, <3>1, <3>2
  <2>2. CASE p = Root
    BY <2>1, <2>2 DEF FollowsParent
  <2>3. CASE p # Root
    <3>1. new[p] = rows[p] /\ rows[p] # NoTaxon
      BY <1>1, <2>3
    <3> QED
      BY <2>1, <2>3, <3>1 DEF FollowsParent
  <2> QED
    BY <2>2, <2>3
<1> QED
  BY <1>2, <1>3 DEF Rooted

\* What is left without a row and all below it is intact.
LEMMA DeletedFollows ==
    ASSUME NEW rows \in TaxonRows, Rooted(rows), NEW gone \in SUBSET TaxonId,
           \A x \in TaxonId : rows[x] # NoTaxon /\ rows[x].parent \in gone => x \in gone,
           NEW new, new = [x \in TaxonId |-> IF x \in gone THEN NoTaxon ELSE rows[x]]
    PROVE  Rooted(new)
<1> SUFFICES ASSUME NEW x \in TaxonId, new[x] # NoTaxon
             PROVE  FollowsParent(new, x)
  BY DEF Rooted
<1>1. x \notin gone /\ rows[x] # NoTaxon /\ new[x] = rows[x]
  OBVIOUS
<1>2. FollowsParent(rows, x) /\ rows[x].parent \in TaxonId \cup {Root}
  BY <1>1 DEF Rooted, TaxonRows
<1>3. CASE rows[x].parent = Root
  BY <1>1, <1>2, <1>3 DEF FollowsParent
<1>4. CASE rows[x].parent # Root
  <2>1. PICK u \in TaxonId : u = rows[x].parent
    BY <1>2, <1>4
  <2>2. new[u] = rows[u]
    BY <1>1, <2>1
  <2> QED
    BY <1>1, <1>2, <1>4, <2>1, <2>2 DEF FollowsParent
<1> QED
  BY <1>3, <1>4

\* Of two rows one below the other both or none are below a third, if it is not
\* the lower of the two.
LEMMA BelowTogether ==
    ASSUME NEW rows \in TaxonRows, Rooted(rows), Root \notin TaxonId,
           NEW i \in TaxonId, rows[i] # NoTaxon,
           NEW x \in TaxonId, rows[x] # NoTaxon, x # i
    PROVE  /\ rows[x].parent = Root => ~IsPrefix(rows[i].tree, rows[x].tree)
           /\ rows[x].parent # Root =>
                  (IsPrefix(rows[i].tree, rows[x].tree) <=>
                   IsPrefix(rows[i].tree, rows[rows[x].parent].tree))
<1>1. PICK ti : ti = rows[i].tree
  OBVIOUS
<1>2. PICK tx : tx = rows[x].tree
  OBVIOUS
<1>3. ti \in Seq(TaxonId) /\ Len(ti) \in Nat \ {0} /\ ti[Len(ti)] = i
  BY <1>1, PathEnds
<1>4. tx \in Seq(TaxonId) /\ Len(tx) \in Nat \ {0} /\ tx[Len(tx)] = x
  BY <1>2, PathEnds
<1>5. FollowsParent(rows, x) /\ rows[x].parent \in TaxonId \cup {Root}
  BY DEF Rooted, TaxonRows
<1>6. ASSUME rows[x].parent = Root
      PROVE  ~IsPrefix(ti, tx)
  <2>1. tx = <<x>>
    BY <1>2, <1>5, <1>6 DEF FollowsParent
  <2>2. Len(tx) = 1 /\ tx[1] = x
    BY <2>1
  <2> SUFFICES ASSUME IsPrefix(ti, tx)
               PROVE  FALSE
    OBVIOUS
  <2>3. Len(ti) <= Len(tx) /\ \A m \in 1 .. Len(ti) : ti[m] = tx[m]
    BY <1>3, <1>4, PrefixIs
  <2>4. Len(ti) = 1
    BY <1>3, <2>2, <2>3
  <2>5. ti[1] = i /\ ti[1] = tx[1]
    BY <1>3, <2>3, <2>4
  <2> QED
    BY <2>2, <2>5
<1>7. ASSUME rows[x].parent # Root
      PROVE  IsPrefix(ti, tx) <=> IsPrefix(ti, rows[rows[x].parent].tree)
  <2>1. PICK u \in TaxonId : u = rows[x].parent
    BY <1>5, <1>7
  <2>2. PICK t : t = rows[u].tree
    OBVIOUS
  <2>3. tx = Append(t, x) /\ t \in Seq(TaxonId)
    BY <1>2, <1>5, <1>7, <2>1, <2>2 DEF FollowsParent, TaxonRows
  <2>4. ti # tx
    BY <1>3, <1>4
  <2>5. IsPrefix(ti, tx) <=> IsPrefix(ti, t)
    BY <1>3, <2>3, <2>4, PrefixOfAppend
  <2> QED
    BY <2>1, <2>2, <2>5
<1> QED
  BY <1>1, <1>2, <1>6, <1>7

\* The last name of a path alone.
LEMMA OnlyTheLast ==
    ASSUME NEW S, NEW s \in Seq(S), Len(s) \in Nat \ {0}
    PROVE  SubSeq(s, Len(s), Len(s)) = <<s[Len(s)]>>
<1>1. PICK a : a = SubSeq(s, Len(s), Len(s))
  OBVIOUS
<1>2. a \in Seq(S) /\ Len(a) = 1 /\ a[1] = s[Len(s)]
  BY <1>1, SubSeqProperties
<1>3. PICK b : b = <<s[Len(s)]>>
  OBVIOUS
<1>4. b \in Seq(S) /\ Len(b) = 1 /\ b[1] = s[Len(s)]
  BY <1>3
<1>5. a = b
  <2>1. \A m \in 1 .. Len(a) : a[m] = b[m]
    BY <1>2, <1>4
  <2> QED
    BY <1>2, <1>4, <2>1, SameSequence
<1> QED
  BY <1>1, <1>3, <1>5

\* What a move makes of a row: below i, whose path it had, it is below p, whose
\* path is to.
MovedRow(rows, new, x, i, p, to) ==
    /\ new[x].parent = IF x = i THEN p ELSE rows[x].parent
    /\ new[x].tree = to \o SubSeq(rows[x].tree, Len(rows[i].tree), Len(rows[x].tree))

BelowRow(rows, i) ==
    {x \in TaxonId : rows[x] # NoTaxon /\ IsPrefix(rows[i].tree, rows[x].tree)}

MovedRows(rows, new, i, p, to) ==
    \A x \in TaxonId : IF x \in BelowRow(rows, i) THEN MovedRow(rows, new, x, i, p, to)
                      ELSE new[x] = rows[x]

NewParent(rows, i, p, to) ==
    IF p = Root THEN to = <<>>
    ELSE rows[p] # NoTaxon /\ to = rows[p].tree /\ i \notin ToSet(to)

\* The part of a tree below a row that is moved below one outside of it follows
\* the new parent, and what is outside stays as it is.
LEMMA MovedFollows ==
    ASSUME NEW rows \in TaxonRows, Rooted(rows), Root \notin TaxonId,
           NEW i \in TaxonId, rows[i] # NoTaxon,
           NEW p \in TaxonId \cup {Root}, NEW to \in Seq(TaxonId),
           NewParent(rows, i, p, to),
           NEW new \in TaxonRows, MovedRows(rows, new, i, p, to)
    PROVE  Rooted(new)
<1>0. PICK B \in SUBSET TaxonId : B = BelowRow(rows, i)
  BY DEF BelowRow
<1>1. PICK ti : ti = rows[i].tree
  OBVIOUS
<1>2. ti \in Seq(TaxonId) /\ Len(ti) \in Nat \ {0} /\ ti[Len(ti)] = i
  BY <1>1, PathEnds
<1>3. i \in B
  <2>1. IsPrefix(ti, ti)
    BY <1>2, PrefixIs
  <2> QED
    BY <1>0, <1>1, <2>1 DEF BelowRow
<1>4. p # Root => p \notin B
  <2> SUFFICES ASSUME p # Root, p \in B
               PROVE  FALSE
    OBVIOUS
  <2>1. IsPrefix(ti, to) /\ i \notin ToSet(to)
    BY <1>0, <1>1 DEF BelowRow, NewParent
  <2>2. Len(ti) <= Len(to) /\ \A m \in 1 .. Len(ti) : ti[m] = to[m]
    BY <1>2, <2>1, PrefixIs
  <2>3. Len(ti) \in 1 .. Len(to) /\ to[Len(ti)] = i
    BY <1>2, <2>2
  <2> QED
    BY <2>1, <2>3 DEF ToSet
<1>5. ASSUME NEW x \in B
      PROVE  new[x] # NoTaxon
  <2>1. PICK t : t = rows[x].tree
    OBVIOUS
  <2>2. IsPrefix(ti, t) /\ t \in Seq(TaxonId)
    BY <1>0, <1>1, <1>5, <2>1 DEF TaxonRows, BelowRow
  <2>3. Len(ti) <= Len(t)
    BY <1>2, <2>2, PrefixIs
  <2>4. PICK a : a = SubSeq(t, Len(ti), Len(t))
    OBVIOUS
  <2>5. a \in Seq(TaxonId) /\ Len(a) = Len(t) - Len(ti) + 1
    <3>1. \A m \in Len(ti) .. Len(t) : t[m] \in TaxonId
      BY <1>2, <2>2
    <3> QED
      BY <1>2, <2>2, <2>3, <2>4, <3>1, SubSeqProperties
  <2>6. new[x].tree = to \o a
    BY <1>0, <1>1, <1>5, <2>1, <2>4 DEF MovedRow, MovedRows
  <2>7. PICK b : b = to \o a
    OBVIOUS
  <2>8. b \in Seq(TaxonId) /\ Len(b) = Len(to) + Len(a)
    <3>1. a \in Seq(TaxonId)
      BY <2>5
    <3> QED
      BY <2>7, <3>1, ConcatProperties
  <2>9. Len(b) \in Nat \ {0}
    BY <1>2, <2>2, <2>3, <2>5, <2>8
  <2> QED
    BY <2>6, <2>7, <2>8, <2>9, PathIsThere
<1>6. FollowsParent(new, i)
  <2>1. new[i].parent = p /\ new[i].tree = to \o SubSeq(ti, Len(ti), Len(ti))
    BY <1>0, <1>1, <1>3 DEF MovedRow, MovedRows
  <2>2. SubSeq(ti, Len(ti), Len(ti)) = <<i>>
    BY <1>2, OnlyTheLast
  <2>3. CASE p = Root
    <3>1. new[i].tree = <<i>>
      BY <2>1, <2>2, <2>3 DEF NewParent
    <3> QED
      BY <2>1, <2>3, <3>1 DEF FollowsParent
  <2>4. CASE p # Root
    <3>1. new[p] = rows[p] /\ rows[p] # NoTaxon /\ rows[p].tree = to
      BY <1>0, <1>4, <2>4 DEF MovedRows, NewParent
    <3>2. to \o <<i>> = Append(to, i)
      BY AppendIsConcat
    <3> QED
      BY <2>1, <2>2, <2>4, <3>1, <3>2 DEF FollowsParent
  <2> QED
    BY <2>3, <2>4
<1>7. ASSUME NEW x \in TaxonId, x # i, rows[x] # NoTaxon
      PROVE  FollowsParent(new, x)
  <2>1. FollowsParent(rows, x) /\ rows[x].parent \in TaxonId \cup {Root}
    BY <1>7 DEF Rooted, TaxonRows
  <2>2. CASE rows[x].parent = Root
    <3>1. x \notin B
      BY <1>0, <1>7, <2>2, BelowTogether DEF BelowRow
    <3> QED
      BY <1>0, <2>1, <2>2, <3>1 DEF FollowsParent, MovedRows
  <2>3. CASE rows[x].parent # Root
    <3>1. PICK u \in TaxonId : u = rows[x].parent
      BY <2>1, <2>3
    <3>2. PICK t : t = rows[u].tree
      OBVIOUS
    <3>3. /\ rows[u] # NoTaxon /\ rows[x].tree = Append(t, x)
          /\ t \in Seq(TaxonId)
      BY <2>1, <2>3, <3>1, <3>2 DEF FollowsParent, TaxonRows
    <3>4. x \in B <=> u \in B
      BY <1>0, <1>7, <2>3, <3>1, <3>3, BelowTogether DEF BelowRow
    <3>5. CASE x \notin B
      <4>1. new[x] = rows[x] /\ new[u] = rows[u]
        BY <1>0, <3>4, <3>5 DEF MovedRows
      <4> QED
        BY <2>1, <2>3, <3>1, <4>1 DEF FollowsParent
    <3>6. CASE x \in B
      <4>1. new[x].parent = u /\ new[u] # NoTaxon
        BY <1>0, <1>5, <1>7, <3>1, <3>4, <3>6 DEF MovedRow, MovedRows
      <4>2. new[u].tree = to \o SubSeq(t, Len(ti), Len(t))
        BY <1>0, <1>1, <3>2, <3>4, <3>6 DEF MovedRow, MovedRows
      <4>3. new[x].tree = to \o SubSeq(rows[x].tree, Len(ti), Len(rows[x].tree))
        BY <1>0, <1>1, <3>6 DEF MovedRow, MovedRows
      <4>4. Len(ti) \in 1 .. Len(t)
        <5>1. IsPrefix(ti, t)
          BY <1>0, <1>1, <3>2, <3>4, <3>6 DEF BelowRow
        <5>2. Len(ti) <= Len(t)
          BY <1>2, <3>3, <5>1, PrefixIs
        <5> QED
          BY <1>2, <3>3, <5>2
      <4>5. PICK w : w = rows[x].tree
        OBVIOUS
      <4>6. PICK below : below = new[u].tree
        OBVIOUS
      <4>7. PICK all : all = new[x].tree
        OBVIOUS
      <4>8. PICK r \in Seq(TaxonId) : r = t
        BY <3>3
      <4>9. PICK l \in 1 .. Len(r) : l = Len(ti)
        BY <4>4, <4>8
      <4>11. w = Append(r, x)
        BY <3>3, <4>5, <4>8
      <4>12. all = to \o SubSeq(w, l, Len(w))
        BY <4>3, <4>5, <4>7, <4>9
      <4>13. below = to \o SubSeq(r, l, Len(r))
        BY <4>2, <4>6, <4>8, <4>9
      <4>10. all = Append(below, x)
        BY <4>11, <4>12, <4>13, EndOfPath, SMTT(60)
      <4> QED
        BY <2>3, <3>1, <4>1, <4>6, <4>7, <4>10 DEF FollowsParent
    <3> QED
      BY <3>5, <3>6
  <2> QED
    BY <2>2, <2>3
<1>8. \A x \in TaxonId : new[x] # NoTaxon => rows[x] # NoTaxon
  <2> SUFFICES ASSUME NEW x \in TaxonId, rows[x] = NoTaxon
               PROVE  new[x] = NoTaxon
    OBVIOUS
  <2>1. x \notin BelowRow(rows, i)
    BY DEF BelowRow
  <2> QED
    BY <2>1 DEF MovedRows
<1> QED
  BY <1>6, <1>7, <1>8 DEF Rooted

\* The parent that a path names: its last name but one.
LastButOne(t) == IF Len(t) = 1 THEN Root ELSE t[Len(t) - 1]

\* The parent of a row is the last name of its path but one.
LEMMA ParentOnPath ==
    ASSUME NEW rows \in TaxonRows, Rooted(rows), NEW x \in TaxonId, rows[x] # NoTaxon
    PROVE  rows[x].parent = LastButOne(rows[x].tree)
<1>1. FollowsParent(rows, x) /\ rows[x].parent \in TaxonId \cup {Root}
  BY DEF Rooted, TaxonRows
<1>2. PICK up : up = rows[x].tree
  OBVIOUS
<1>3. CASE rows[x].parent = Root
  <2>1. up = <<x>>
    BY <1>1, <1>2, <1>3 DEF FollowsParent
  <2>2. Len(up) = 1
    BY <2>1
  <2> QED
    BY <1>2, <1>3, <2>2 DEF LastButOne
<1>4. CASE rows[x].parent # Root
  <2>1. PICK u \in TaxonId : u = rows[x].parent
    BY <1>1, <1>4
  <2>2. PICK t : t = rows[u].tree
    OBVIOUS
  <2>3. rows[u] # NoTaxon /\ up = Append(t, x) /\ t \in Seq(TaxonId)
    BY <1>1, <1>2, <1>4, <2>1, <2>2 DEF FollowsParent, TaxonRows
  <2>4. Len(t) \in Nat \ {0} /\ t[Len(t)] = u
    BY <2>2, <2>3, PathEnds
  <2>5. Len(up) = Len(t) + 1 /\ \A n \in 1 .. Len(t) : up[n] = t[n]
    BY <2>3, AppendProperties
  <2>6. Len(up) # 1 /\ up[Len(up) - 1] = u
    BY <2>4, <2>5
  <2> QED
    BY <1>2, <2>1, <2>6 DEF LastButOne
<1> QED
  BY <1>3, <1>4

-----------------------------------------------------------------------------
(* The inductive invariant *)

\* What a request has read of the rows.
AddRequests ==
    [op : {"add"}, id : TaxonId, parent : TaxonId \cup {Root}, tree : Seq(TaxonId)]
MoveRequests ==
    [op : {"move"}, id : TaxonId, parent : TaxonId \cup {Root},
     from : TaxonId \cup {Root}, tree : Seq(TaxonId), to : Seq(TaxonId)]
MoveAsRead(r) ==
    /\ Len(r.tree) \in Nat \ {0} /\ r.from = LastButOne(r.tree)
    /\ r.parent = Root => r.to = <<>>
TaxonRequests ==
    {NoTaxonRequest} \cup AddRequests \cup {r \in MoveRequests : MoveAsRead(r)}

\* Paths follow parents unless a request has twisted them.
TaxonInv ==
    /\ taxons \in TaxonRows
    /\ taxonRequest \in [TaxonSession -> TaxonRequests]
    /\ twisted = {} => Rooted(taxons)

\* The end of a request.
LEMMA TaxonEnd ==
    ASSUME TaxonInv, NEW s \in TaxonSession, TaxonEnds(s)
    PROVE  taxonRequest' \in [TaxonSession -> TaxonRequests]
<1>1. NoTaxonRequest \in TaxonRequests
  BY DEF TaxonRequests
<1> QED
  BY <1>1 DEF TaxonInv, TaxonEnds

\* A path below a parent is one.
LEMMA PathBelowType ==
    ASSUME taxons \in TaxonRows, NEW i \in TaxonId, NEW p \in TaxonId \cup {Root}
    PROVE  PathBelow(p, i) \in Seq(TaxonId)
<1>1. CASE p # Root /\ Exists(p)
  <2>1. PICK t \in Seq(TaxonId) : t = taxons[p].tree
    BY <1>1 DEF TaxonRows
  <2> QED
    BY <1>1, <2>1, AppendProperties DEF PathBelow
<1>2. CASE ~(p # Root /\ Exists(p))
  BY <1>2 DEF PathBelow
<1> QED
  BY <1>1, <1>2

\* At the start there are the rows of no tenant, without parents.
LEMMA TaxonInit == InitTaxons => TaxonInv
<1> SUFFICES ASSUME InitTaxons
             PROVE  TaxonInv
  OBVIOUS
<1>1. taxonRequest \in [TaxonSession -> TaxonRequests]
  BY DEF InitTaxons, TaxonRequests
<1>2. ASSUME NEW i \in TaxonId
      PROVE  /\ taxons[i].parent = Root
             /\ taxons[i].tree = <<i>> \/ taxons[i] = NoTaxon
             /\ taxons[i] \in [parent : TaxonId \cup {Root}, tree : Seq(TaxonId)]
  BY <1>2 DEF InitTaxons, NoTaxon
<1>3. taxons \in TaxonRows
  BY <1>2 DEF InitTaxons, TaxonRows
<1>4. Rooted(taxons)
  BY <1>2 DEF Rooted, FollowsParent
<1> QED
  BY <1>1, <1>3, <1>4 DEF TaxonInv

\* What POST and PUT have read fits the rows.
LEMMA ReadsKeepTaxons ==
    ASSUME TaxonInv, NEW s \in TaxonSession, NEW i \in TaxonId,
           NEW p \in TaxonId \cup {Root}, AddRead(s, i, p) \/ MoveRead(s, i, p)
    PROVE  TaxonInv'
<1>1. taxons \in TaxonRows /\ taxonRequest \in [TaxonSession -> TaxonRequests]
  BY DEF TaxonInv
<1>2. ASSUME NEW r \in TaxonRequests, TaxonReads(s, r)
      PROVE  TaxonInv'
  BY <1>1, <1>2 DEF TaxonInv, TaxonReads
<1>3. CASE AddRead(s, i, p)
  <2>1. PICK t \in Seq(TaxonId) : t = PathBelow(p, i)
    BY <1>1, PathBelowType
  <2>2. PICK r : r = [op |-> "add", id |-> i, parent |-> p, tree |-> t]
    OBVIOUS
  <2>3. r \in TaxonRequests
    BY <2>2 DEF TaxonRequests, AddRequests
  <2>4. TaxonReads(s, r)
    BY <1>3, <2>1, <2>2 DEF AddRead
  <2> QED
    BY <1>2, <2>3, <2>4
<1>4. CASE MoveRead(s, i, p)
  <2>1. Exists(i) /\ Rooted(taxons)
    BY <1>4 DEF MoveRead, TaxonReads, TaxonInv
  <2>2. PICK t : t = taxons[i].tree
    OBVIOUS
  <2>3. PICK to : to = IF p # Root /\ Exists(p) THEN taxons[p].tree ELSE <<>>
    OBVIOUS
  <2>4. PICK f : f = taxons[i].parent
    OBVIOUS
  <2>5. t \in Seq(TaxonId) /\ to \in Seq(TaxonId) /\ f \in TaxonId \cup {Root}
    BY <1>1, <2>2, <2>3, <2>4 DEF TaxonRows
  <2>6. Len(t) \in Nat \ {0} /\ f = LastButOne(t) /\ (p = Root => to = <<>>)
    BY <1>1, <2>1, <2>2, <2>3, <2>4, PathEnds, ParentOnPath DEF Exists
  <2>7. PICK r : r = [op |-> "move", id |-> i, parent |-> p, from |-> f, tree |-> t,
                      to |-> to]
    OBVIOUS
  <2>8. r \in MoveRequests
    BY <2>5, <2>7 DEF MoveRequests
  <2>9. MoveAsRead(r)
    BY <2>6, <2>7 DEF MoveAsRead
  <2>10. TaxonReads(s, r)
    BY <1>4, <2>2, <2>3, <2>4, <2>7 DEF MoveRead
  <2> QED
    BY <1>2, <2>8, <2>9, <2>10 DEF TaxonRequests
<1> QED
  BY <1>3, <1>4

\* A taxon is added with the path it gets now, or the tree is twisted.
LEMMA AddKeepsTaxons ==
    ASSUME TaxonInv, Root \notin TaxonId, NEW s \in TaxonSession, AddCommit(s)
    PROVE  TaxonInv'
<1>1. taxons \in TaxonRows /\ taxonRequest \in [TaxonSession -> TaxonRequests]
  BY DEF TaxonInv
<1>2. PICK r \in TaxonRequests : r = taxonRequest[s]
  BY <1>1
<1>3. r.op = "add"
  BY <1>2 DEF AddCommit
<1>4. r \in AddRequests
  BY <1>3 DEF TaxonRequests, MoveRequests, NoTaxonRequest
<1>5. PICK i \in TaxonId : i = r.id
  BY <1>4 DEF AddRequests
<1>6. PICK p \in TaxonId \cup {Root} : p = r.parent
  BY <1>4 DEF AddRequests
<1>7. PICK up \in Seq(TaxonId) : up = r.tree
  BY <1>4 DEF AddRequests
<1>8. taxonRequest' \in [TaxonSession -> TaxonRequests]
  <2>1. TaxonEnds(s)
    BY DEF AddCommit, TaxonFails
  <2> QED
    BY <2>1, TaxonEnd
<1>9. CASE Exists(i) \/ (p # Root /\ ~Exists(p))
  <2>1. UNCHANGED <<taxons, twisted>>
    BY <1>2, <1>5, <1>6, <1>9 DEF AddCommit, TaxonFails
  <2> QED
    BY <1>8, <2>1 DEF TaxonInv
<1>10. CASE ~(Exists(i) \/ (p # Root /\ ~Exists(p)))
  <2>1. /\ taxons' = [taxons EXCEPT ![i] = [parent |-> p, tree |-> up]]
        /\ twisted' = twisted \cup Staleness(r)
    BY <1>2, <1>5, <1>6, <1>7, <1>10 DEF AddCommit
  <2>2. taxons' \in TaxonRows
    <3>1. [parent |-> p, tree |-> up] \in [parent : TaxonId \cup {Root}, tree : Seq(TaxonId)]
      OBVIOUS
    <3> QED
      BY <1>1, <2>1, <3>1 DEF TaxonRows
  <2>3. ASSUME twisted' = {}
        PROVE  Rooted(taxons')
    <3>1. twisted = {} /\ Staleness(r) = {}
      BY <2>1, <2>3
    <3>2. up = PathBelow(p, i)
      BY <1>3, <1>5, <1>6, <1>7, <3>1 DEF Staleness
    <3>3. up = IF p # Root THEN Append(taxons[p].tree, i) ELSE <<i>>
      BY <1>10, <3>2 DEF PathBelow
    <3>4. Rooted(taxons) /\ taxons[i] = NoTaxon /\ (p # Root => taxons[p] # NoTaxon)
      BY <1>10, <3>1 DEF TaxonInv, Exists
    <3> QED
      BY <1>1, <2>1, <3>3, <3>4, AddedFollows
  <2> QED
    BY <1>8, <2>2, <2>3 DEF TaxonInv
<1> QED
  BY <1>9, <1>10

\* A row and all below it is moved, or the tree is twisted.
LEMMA MoveKeepsTaxons ==
    ASSUME TaxonInv, Root \notin TaxonId, NEW s \in TaxonSession, MoveCommit(s)
    PROVE  TaxonInv'
<1>1. taxons \in TaxonRows /\ taxonRequest \in [TaxonSession -> TaxonRequests]
  BY DEF TaxonInv
<1>2. PICK r \in TaxonRequests : r = taxonRequest[s]
  BY <1>1
<1>3. r.op = "move"
  BY <1>2 DEF MoveCommit
<1>4. r \in MoveRequests /\ MoveAsRead(r)
  BY <1>3 DEF TaxonRequests, AddRequests, NoTaxonRequest
<1>5. PICK i \in TaxonId : i = r.id
  BY <1>4 DEF MoveRequests
<1>6. PICK p \in TaxonId \cup {Root} : p = r.parent
  BY <1>4 DEF MoveRequests
<1>7. PICK t \in Seq(TaxonId) : t = r.tree
  BY <1>4 DEF MoveRequests
<1>8. PICK to \in Seq(TaxonId) : to = r.to
  BY <1>4 DEF MoveRequests
<1>9. Len(t) \in Nat \ {0} /\ r.from = LastButOne(t) /\ (p = Root => to = <<>>)
  BY <1>4, <1>6, <1>7, <1>8 DEF MoveAsRead
<1>10. taxonRequest' \in [TaxonSession -> TaxonRequests]
  <2>1. TaxonEnds(s)
    BY DEF MoveCommit, TaxonFails
  <2> QED
    BY <2>1, TaxonEnd
<1>11. CASE ~Exists(i) \/ (p # Root /\ ~Exists(p))
  <2>1. UNCHANGED <<taxons, twisted>>
    BY <1>2, <1>5, <1>6, <1>11 DEF MoveCommit, TaxonFails
  <2> QED
    BY <1>10, <2>1 DEF TaxonInv
<1>12. CASE ~(~Exists(i) \/ (p # Root /\ ~Exists(p)))
  <2>1. PICK mid : mid = IF r.from # p THEN Moved(r) ELSE taxons
    OBVIOUS
  <2>2. /\ taxons' = [mid EXCEPT ![i].parent = p]
        /\ twisted' = twisted \cup (IF i \in ToSet(to) THEN {"below"} ELSE {})
                              \cup Staleness(r)
    BY <1>2, <1>5, <1>6, <1>8, <1>12, <2>1 DEF MoveCommit
  <2>3. ASSUME NEW x \in TaxonId, IsPrefix(t, taxons[x].tree)
        PROVE  to \o SubSeq(taxons[x].tree, Len(t), Len(taxons[x].tree)) \in Seq(TaxonId)
    <3>1. PICK u \in Seq(TaxonId) : u = taxons[x].tree
      BY <1>1 DEF TaxonRows
    <3>2. Len(t) <= Len(u)
      BY <2>3, <3>1, PrefixIs
    <3>3. PICK a : a = SubSeq(u, Len(t), Len(u))
      OBVIOUS
    <3>4. a \in Seq(TaxonId)
      <4>1. \A m \in Len(t) .. Len(u) : u[m] \in TaxonId
        BY <1>9
      <4> QED
        BY <1>9, <3>3, <4>1, SubSeqProperties
    <3> QED
      BY <3>1, <3>3, <3>4, ConcatProperties
  <2>4. ASSUME NEW x \in TaxonId
        PROVE  /\ mid[x].parent = taxons[x].parent
               /\ mid[x].tree = IF r.from # p /\ x \in Under(t)
                                THEN to \o SubSeq(taxons[x].tree, Len(t), Len(taxons[x].tree))
                                ELSE taxons[x].tree
               /\ ~(r.from # p /\ x \in Under(t)) => mid[x] = taxons[x]
               /\ mid[x] \in [parent : TaxonId \cup {Root}, tree : Seq(TaxonId)]
    <3>1. taxons[x] \in [parent : TaxonId \cup {Root}, tree : Seq(TaxonId)]
      BY <1>1 DEF TaxonRows
    <3>2. CASE r.from # p /\ x \in Under(t)
      <4>1. PICK w : w = to \o SubSeq(taxons[x].tree, Len(t), Len(taxons[x].tree))
        OBVIOUS
      <4>2. w \in Seq(TaxonId)
        BY <2>3, <3>2, <4>1 DEF Under
      <4>3. mid[x] = [taxons[x] EXCEPT !.tree = w]
        BY <1>7, <1>8, <2>1, <3>2, <4>1 DEF Moved
      <4> QED
        BY <3>1, <3>2, <4>1, <4>2, <4>3
    <3>3. CASE ~(r.from # p /\ x \in Under(t))
      <4>1. mid[x] = taxons[x]
        BY <1>7, <2>1, <3>3 DEF Moved
      <4> QED
        BY <3>1, <3>3, <4>1
    <3> QED
      BY <3>2, <3>3
  <2>5. /\ mid = [x \in TaxonId |-> mid[x]]
        /\ \A x \in TaxonId : mid[x] \in [parent : TaxonId \cup {Root}, tree : Seq(TaxonId)]
    <3>1. mid = [x \in TaxonId |-> mid[x]]
      BY <1>1, <2>1 DEF Moved, TaxonRows
    <3> QED
      BY <2>4, <3>1
  <2>6. mid \in TaxonRows
    BY <2>5 DEF TaxonRows
  <2>7. /\ taxons' \in TaxonRows
        /\ \A x \in TaxonId \ {i} : taxons'[x] = mid[x]
        /\ taxons'[i].parent = p /\ taxons'[i].tree = mid[i].tree
    BY <2>2, <2>6 DEF TaxonRows
  <2>8. ASSUME twisted' = {}
        PROVE  Rooted(taxons')
    <3>1. twisted = {} /\ Staleness(r) = {} /\ i \notin ToSet(to)
      BY <2>2, <2>8
    <3>2. Rooted(taxons) /\ taxons[i] # NoTaxon /\ (p # Root => taxons[p] # NoTaxon)
      BY <1>12, <3>1 DEF TaxonInv, Exists
    <3>3. t = taxons[i].tree /\ (p # Root => to = taxons[p].tree)
      BY <1>3, <1>5, <1>6, <1>7, <1>8, <3>1 DEF Staleness
    <3>4. NewParent(taxons, i, p, to)
      BY <1>9, <3>1, <3>2, <3>3 DEF NewParent
    <3>5. \A x \in TaxonId : x \in Under(t) <=> x \in BelowRow(taxons, i)
      BY <3>3 DEF Under, BelowRow, Exists
    <3>6. CASE r.from # p
      <4>1. i \in BelowRow(taxons, i)
        <5>1. IsPrefix(t, t)
          BY PrefixIs
        <5> QED
          BY <3>2, <3>3, <5>1 DEF BelowRow
      <4>2. ASSUME NEW x \in BelowRow(taxons, i)
            PROVE  MovedRow(taxons, taxons', x, i, p, to)
        <5>1. x \in TaxonId /\ x \in Under(t)
          BY <3>5, <4>2 DEF BelowRow
        <5>2. /\ mid[x].parent = taxons[x].parent
              /\ mid[x].tree = to \o SubSeq(taxons[x].tree, Len(t), Len(taxons[x].tree))
          BY <2>4, <3>6, <5>1
        <5> QED
          BY <2>7, <3>3, <5>1, <5>2 DEF MovedRow
      <4>3. ASSUME NEW x \in TaxonId, x \notin BelowRow(taxons, i)
            PROVE  taxons'[x] = taxons[x]
        BY <2>4, <2>7, <3>5, <4>1, <4>3
      <4>4. MovedRows(taxons, taxons', i, p, to)
        BY <4>2, <4>3 DEF MovedRows
      <4> QED
        BY <1>1, <2>7, <3>2, <3>4, <4>4, MovedFollows
    <3>7. CASE r.from = p
      <4>1. taxons[i].parent = p
        BY <1>1, <1>9, <3>2, <3>3, <3>7, ParentOnPath
      <4>2. mid = taxons
        BY <2>1, <3>7
      <4>3. taxons' = taxons
        BY <1>1, <2>2, <4>1, <4>2 DEF TaxonRows
      <4> QED
        BY <3>2, <4>3
    <3> QED
      BY <3>6, <3>7
  <2> QED
    BY <1>10, <2>7, <2>8 DEF TaxonInv
<1> QED
  BY <1>11, <1>12

\* A taxon is deleted with all below it.
LEMMA DeleteKeepsTaxons ==
    ASSUME TaxonInv, NEW i \in TaxonId, DeleteTaxon(i)
    PROVE  TaxonInv'
<1>1. taxons \in TaxonRows
  BY DEF TaxonInv
<1>2. PICK cascade \in SUBSET TaxonId : cascade = Cascade(i)
  BY DEF Cascade
<1>3. /\ taxons' = [x \in TaxonId |-> IF x \in cascade THEN NoTaxon ELSE taxons[x]]
      /\ UNCHANGED <<taxonRequest, twisted>>
  BY <1>2 DEF DeleteTaxon
<1>4. ASSUME NEW x \in TaxonId, taxons[x] # NoTaxon, taxons[x].parent \in cascade
      PROVE  x \in cascade
  <2>1. \A gone \in SUBSET TaxonId : i \in gone /\ WithChildren(gone) => x \in gone
    BY <1>2, <1>4 DEF Cascade, WithChildren, Exists
  <2> QED
    BY <1>2, <2>1 DEF Cascade
<1>5. taxons' \in TaxonRows
  <2>1. NoTaxon \in [parent : TaxonId \cup {Root}, tree : Seq(TaxonId)]
    BY DEF NoTaxon
  <2> QED
    BY <1>1, <1>3, <2>1 DEF TaxonRows
<1>6. Rooted(taxons) => Rooted(taxons')
  BY <1>1, <1>3, <1>4, DeletedFollows
<1> QED
  BY <1>3, <1>5, <1>6 DEF TaxonInv

\* Every step keeps the paths with the parents.
LEMMA TaxonNext ==
    ASSUME Root \notin TaxonId
    PROVE  TaxonInv /\ [NextTaxons]_taxonsVars => TaxonInv'
<1> SUFFICES ASSUME TaxonInv, [NextTaxons]_taxonsVars
             PROVE  TaxonInv'
  OBVIOUS
<1>1. CASE UNCHANGED taxonsVars
  BY <1>1 DEF taxonsVars, TaxonInv
<1>2. CASE \E s \in TaxonSession, i \in TaxonId, p \in TaxonId \cup {Root} :
               AddRead(s, i, p) \/ MoveRead(s, i, p)
  BY <1>2, ReadsKeepTaxons
<1>3. CASE \E s \in TaxonSession : AddCommit(s) \/ MoveCommit(s)
  BY <1>3, AddKeepsTaxons, MoveKeepsTaxons
<1>4. CASE \E i \in TaxonId : DeleteTaxon(i)
  BY <1>4, DeleteKeepsTaxons
<1> QED
  BY <1>1, <1>2, <1>3, <1>4 DEF NextTaxons

-----------------------------------------------------------------------------
(* What a search says *)

\* What is read of the paths of an intact tree are the parents.
LEMMA FollowedParentsAgree ==
    ASSUME TaxonInv, Root \notin TaxonId
    PROVE  ParentsAgree
<1> SUFFICES ASSUME twisted = {}, NEW i \in TaxonId, Exists(i), NEW up,
                    up = taxons[i].tree
             PROVE  /\ ParentsFound({i})
                    /\ ToSet(ParentsOf(i)) = FetchParents(i)
                    /\ \A n \in 1 .. Len(up) :
                           taxons[up[n]].parent = (IF n = 1 THEN Root ELSE up[n - 1])
                    /\ i \notin Leafs({i}) =>
                           \E x \in TaxonId : Exists(x) /\ i \in ToSet(ParentsOf(x))
  BY DEF ParentsAgree
<1>1. taxons \in TaxonRows /\ Rooted(taxons) /\ taxons[i] # NoTaxon
  BY DEF TaxonInv, Exists
<1>2. \A n \in 1 .. Len(up) : OnPath(taxons, up, n)
  BY <1>1, PathsFollow
<1>3. up \in Seq(TaxonId) /\ Len(up) \in Nat \ {0} /\ up[Len(up)] = i
  BY <1>1, PathEnds
<1>4. ParentsFound({i})
  <2>1. Named({i}) = {up[n] : n \in 1 .. Len(up)}
    BY <1>3 DEF Named, ToSet
  <2>2. \A n \in 1 .. Len(up) : up[n] \in TaxonId /\ Exists(up[n])
    BY <1>2, <1>3 DEF OnPath, Exists
  <2> QED
    BY <2>1, <2>2 DEF ParentsFound
<1>5. ASSUME NEW x \in TaxonId, Exists(x), NEW t, t = taxons[x].tree
      PROVE  /\ t \in Seq(TaxonId)
             /\ ToSet(ParentsOf(x)) = {t[n] : n \in 1 .. Len(t) - 1}
  <2>1. t \in Seq(TaxonId) /\ Len(t) \in Nat \ {0}
    BY <1>1, <1>5, PathEnds DEF Exists
  <2>2. PICK front : front = SubSeq(t, 1, Len(t) - 1)
    OBVIOUS
  <2>3. /\ front \in Seq(TaxonId) /\ Len(front) = Len(t) - 1
        /\ \A n \in 1 .. Len(t) - 1 : front[n] = t[n]
    <3>1. PICK k \in Nat : k = Len(t) - 1
      BY <2>1
    <3>2. front = SubSeq(t, 1, k) /\ \A m \in 1 .. k : t[m] \in TaxonId
      BY <2>1, <2>2, <3>1
    <3>3. /\ front \in Seq(TaxonId) /\ Len(front) = k
          /\ \A n \in 1 .. k : front[n] = t[n]
      BY <3>2, FirstNames
    <3> QED
      BY <3>1, <3>3
  <2>4. ToSet(front) = {t[n] : n \in 1 .. Len(t) - 1}
    BY <2>3 DEF ToSet
  <2>5. ParentsOf(x) = front
    BY <1>5, <2>2 DEF ParentsOf, Front
  <2> QED
    BY <2>1, <2>4, <2>5
<1>6. ToSet(ParentsOf(i)) = FetchParents(i)
  <2>1. ASSUME NEW n \in 1 .. Len(up) - 1
        PROVE  up[n] \in FetchParents(i)
    <3>1. n \in 1 .. Len(up) /\ n < Len(up)
      BY <1>3, <2>1
    <3>2. PICK x \in TaxonId : x = up[n]
      BY <1>3, <3>1
    <3>3. PICK t : t = taxons[x].tree
      OBVIOUS
    <3>4. taxons[x] # NoTaxon /\ Len(t) = n
      BY <1>2, <3>1, <3>2, <3>3 DEF OnPath
    <3>5. IsPrefix(t, up)
      BY <1>1, <3>1, <3>2, <3>3, <3>4, PathsArePrefixes
    <3>6. t # up
      BY <1>3, <3>1, <3>4
    <3> QED
      BY <3>2, <3>3, <3>4, <3>5, <3>6 DEF FetchParents, IsStrictPrefix, Exists
  <2>2. ASSUME NEW x \in FetchParents(i)
        PROVE  \E n \in 1 .. Len(up) - 1 : up[n] = x
    <3>1. PICK t : t = taxons[x].tree
      OBVIOUS
    <3>2. x \in TaxonId /\ taxons[x] # NoTaxon /\ IsPrefix(t, up) /\ t # up
      BY <2>2, <3>1 DEF FetchParents, IsStrictPrefix, Exists
    <3>3. PICK n \in 1 .. Len(up) : up[n] = x
      BY <1>1, <3>1, <3>2, PathsArePrefixes
    <3>4. n # Len(up)
      BY <1>3, <3>1, <3>2, <3>3
    <3> QED
      BY <1>3, <3>3, <3>4
  <2>3. ToSet(ParentsOf(i)) = {up[n] : n \in 1 .. Len(up) - 1}
    BY <1>5
  <2> QED
    BY <2>1, <2>2, <2>3
<1>7. \A n \in 1 .. Len(up) : taxons[up[n]].parent = (IF n = 1 THEN Root ELSE up[n - 1])
  BY <1>2 DEF OnPath
<1>8. ASSUME i \notin Leafs({i})
      PROVE  \E x \in TaxonId : Exists(x) /\ i \in ToSet(ParentsOf(x))
  <2>1. PICK x \in TaxonId : Exists(x) /\ taxons[x].parent = i
    BY <1>8 DEF Leafs
  <2>2. PICK t : t = taxons[x].tree
    OBVIOUS
  <2>3. t = Append(up, x)
    BY <1>1, <2>1, <2>2 DEF Rooted, FollowsParent, Exists
  <2>4. Len(t) = Len(up) + 1 /\ \A n \in 1 .. Len(up) : t[n] = up[n]
    BY <1>3, <2>3, AppendProperties
  <2>5. Len(up) \in 1 .. Len(t) - 1 /\ t[Len(up)] = i
    BY <1>3, <2>4
  <2>6. ToSet(ParentsOf(x)) = {t[n] : n \in 1 .. Len(t) - 1}
    BY <1>5, <2>1, <2>2
  <2> QED
    BY <2>1, <2>5, <2>6
<1> QED
  BY <1>4, <1>6, <1>7, <1>8

\* For any ids and any requests that overlap: the paths from which a search takes
\* the parents of a taxon agree with the parent_id of the rows, unless a taxon
\* was moved below itself or a path changed after its request had read it
\* (add_taxon_db, update_taxon_tree, delete_taxon_db, fetch_taxon_parents).
THEOREM ParentsStayAgreed ==
    ASSUME Root \notin TaxonId
    PROVE  TaxonsSpec => []ParentsAgree
<1>1. TaxonInv => ParentsAgree
  BY FollowedParentsAgree
<1> QED
  BY <1>1, TaxonInit, TaxonNext, PTL DEF TaxonsSpec

=============================================================================
