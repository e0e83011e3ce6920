------------------------------- MODULE Tenants -------------------------------
(***************************************************************************)
(* Tenants and their users (users/users/main.py, keycloak/, s3.py,         *)
(* lib/tenants): both are kept by Keycloak, a tenant as a group and the    *)
(* tenants of a user as an attribute, and a tenant has a bucket.  Every    *)
(* call of Keycloak is an await: a handler reads a user, changes the copy  *)
(* and writes the whole of it.                                             *)
(***************************************************************************)
EXTENDS FiniteSets

CONSTANTS
    Tenant,        \* names of tenants
    Person,        \* e-mail addresses of users
    Caller,        \* who may ask: [client, tenants, roles, current] records of
                   \* what his token and the header X-Current-Tenant say
    UserSession,   \* concurrent requests
    Home           \* the tenant there is at first

VARIABLES
    buckets, groups,   \* of the storage, and of Keycloak
    persons,           \* a user's representation in Keycloak, or Unknown
    invited,           \* users who were sent the mail to set a password
    userRequest,       \* the request of each session, or NoUserRequest
    granted,           \* history: the <<user, tenant>> pairs answered with success
    registered,        \* history: users whose registration was answered with success
    overwritten        \* history: users written over a change not seen

tenantsVars == <<buckets, groups, persons, invited, userRequest,
                 granted, registered, overwritten>>

Unknown == [known |-> FALSE]
NoUserRequest == [op |-> "none"]

\* The attribute "tenants", which Keycloak drops when it is empty, and others.
Representation(tenants, others) ==
    [known |-> TRUE, tenants |-> tenants, others |-> others]

Free(s) == userRequest[s] = NoUserRequest

\* TenantDependency: the current tenant is one of the token's, whose roles and
\* tenants are not empty, unless the client is pipelines.
TenantAllowed(c) ==
    \/ c.client = "pipelines"
    \/ c.roles # {} /\ c.current \in c.tenants

\* check_authorization
Authorized == \E c \in Caller : TenantAllowed(c) /\ "admin" \in c.roles

Begins(s, op, u, t, at) ==
    /\ Free(s) /\ Authorized
    /\ userRequest' = [userRequest EXCEPT ![s] =
           [op |-> op, user |-> u, tenant |-> t, at |-> at, seen |-> Unknown]]
    /\ UNCHANGED <<buckets, groups, persons, invited,
                   granted, registered, overwritten>>

AtCall(s, op, at) == userRequest[s].op = op /\ userRequest[s].at = at

GoesTo(s, at) == userRequest' = [userRequest EXCEPT ![s].at = at]
Done(s) == userRequest' = [userRequest EXCEPT ![s] = NoUserRequest]

\* raise_for_status: the error of Keycloak is the answer, and what is done stays.
KeycloakFails(s) ==
    /\ ~Free(s) /\ Done(s)
    /\ UNCHANGED <<buckets, groups, persons, invited,
                   granted, registered, overwritten>>

-----------------------------------------------------------------------------
(* POST /users/registration *)

Register(s, u) == Begins(s, "register", u, Home, "create")

\* Keycloak refuses an address it knows.
CreateUser(s) ==
    LET u == userRequest[s].user
    IN  /\ AtCall(s, "register", "create") /\ ~persons[u].known
        /\ persons' = [persons EXCEPT ![u] = Representation({}, FALSE)]
        /\ GoesTo(s, "find")
        /\ UNCHANGED <<buckets, groups, invited, granted,
                       registered, overwritten>>

FindUser(s) ==
    /\ AtCall(s, "register", "find") /\ persons[userRequest[s].user].known
    /\ GoesTo(s, "mail")
    /\ UNCHANGED <<buckets, groups, persons, invited,
                   granted, registered, overwritten>>

ActionEmail(s) ==
    /\ AtCall(s, "register", "mail") /\ Done(s)
    /\ invited' = invited \cup {userRequest[s].user}
    /\ registered' = registered \cup {userRequest[s].user}
    /\ UNCHANGED <<buckets, groups, persons, granted,
                   overwritten>>

-----------------------------------------------------------------------------
(* POST /tenants: the bucket, unless there is one, then the group *)

TenantSteps_GroupFirst == <<"group", "bucket">>

TenantSteps == <<"bucket", "group">>

CreateTenant(s, t) == Begins(s, "tenant", "none", t, TenantSteps[1])

After(s) ==
    IF userRequest[s].at = TenantSteps[1] THEN GoesTo(s, TenantSteps[2]) ELSE Done(s)

CreateBucket(s) ==
    /\ AtCall(s, "tenant", "bucket") /\ After(s)
    /\ buckets' = buckets \cup {userRequest[s].tenant}
    /\ UNCHANGED <<groups, persons, invited, granted,
                   registered, overwritten>>

\* A group of that name may exist: Keycloak refuses a second one.
CreateGroup(s) ==
    /\ AtCall(s, "tenant", "group") /\ After(s)
    /\ userRequest[s].tenant \notin groups
    /\ groups' = groups \cup {userRequest[s].tenant}
    /\ UNCHANGED <<buckets, persons, invited, granted,
                   registered, overwritten>>

-----------------------------------------------------------------------------
(* PUT and DELETE /tenants/{tenant}/users/{user_id} *)

AddToTenant(s, u, t) == Begins(s, "add", u, t, "groups")

RemoveFromTenant(s, u, t) == Begins(s, "remove", u, t, "read")

\* The search is for names that contain this one; only the name itself counts.
GetGroups(s) ==
    /\ AtCall(s, "add", "groups") /\ userRequest[s].tenant \in groups
    /\ GoesTo(s, "read")
    /\ UNCHANGED <<buckets, groups, persons, invited,
                   granted, registered, overwritten>>

GetUser(s) ==
    LET q == userRequest[s]
    IN  /\ q.op \in {"add", "remove"} /\ q.at = "read" /\ persons[q.user].known
        /\ userRequest' = [userRequest EXCEPT
               ![s] = [q EXCEPT !.at = "write", !.seen = persons[q.user]]]
        /\ UNCHANGED <<buckets, groups, persons, invited,
                       granted, registered, overwritten>>

AddTenant_Alone(r, t) == Representation({t}, FALSE)

\* A user without the attribute "tenants" loses the others with it.
AddTenant(r, t) ==
    IF r.tenants = {} THEN Representation({t}, FALSE)
    ELSE [r EXCEPT !.tenants = @ \cup {t}]

RemoveTenant(r, t) == [r EXCEPT !.tenants = @ \ {t}]

\* Without attributes nothing is written (exclude_none).
Written(q, now) ==
    IF q.op = "add" THEN AddTenant(q.seen, q.tenant)
    ELSE IF q.seen.tenants = {} /\ ~q.seen.others THEN now
    ELSE RemoveTenant(q.seen, q.tenant)

UpdateUser(s) ==
    LET q == userRequest[s]
        pair == {<<q.user, q.tenant>>}
    IN  /\ q.op \in {"add", "remove"} /\ q.at = "write" /\ Done(s)
        /\ persons' = [persons EXCEPT ![q.user] = Written(q, @)]
        /\ granted' = IF q.op = "add" THEN granted \cup pair ELSE granted \ pair
        /\ overwritten' = overwritten
               \cup (IF persons[q.user] # q.seen THEN {q.user} ELSE {})
        /\ UNCHANGED <<buckets, groups, invited, registered>>

-----------------------------------------------------------------------------
Init ==
    /\ buckets = {Home} /\ groups = {Home}
    /\ persons \in [Person -> {Unknown, Representation({}, TRUE)}]
    /\ invited = {}
    /\ userRequest = [s \in UserSession |-> NoUserRequest]
    /\ granted = {} /\ registered = {} /\ overwritten = {}

Next ==
    \E s \in UserSession :
        \/ \E u \in Person : Register(s, u)
        \/ \E t \in Tenant : CreateTenant(s, t)
        \/ \E u \in Person, t \in Tenant :
               AddToTenant(s, u, t) \/ RemoveFromTenant(s, u, t)
        \/ CreateUser(s) \/ FindUser(s) \/ ActionEmail(s)
        \/ CreateBucket(s) \/ CreateGroup(s)
        \/ GetGroups(s) \/ GetUser(s) \/ UpdateUser(s) \/ KeycloakFails(s)

Spec == Init /\ [][Next]_tenantsVars

-----------------------------------------------------------------------------
(* Properties *)

\* Whatever fails on the way, a tenant has its bucket, and users are in tenants
\* that exist.
TenantsExist ==
    /\ groups \subseteq buckets
    /\ \A u \in Person : persons[u].known => persons[u].tenants \subseteq groups

\* A user is in the tenants that were granted to him and not taken away, unless
\* two requests for him have overlapped: the second overwrites the first, since
\* both write all of what they have read.
MembersAsGranted ==
    \A u \in Person \ overwritten :
        persons[u].known =>
            persons[u].tenants = {t \in Tenant : <<u, t>> \in granted}

\* A registration that is answered with success has sent its mail.  One that
\* fails after the first call leaves a user who cannot be registered again.
RegisteredIsInvited == registered \subseteq invited

\* A change of his tenants leaves the other attributes of a user alone.
\* Refuted: the first tenant replaces them.
OthersStay ==
    \A u \in Person : [][persons[u].known => persons'[u].others = persons[u].others]_persons

=============================================================================
