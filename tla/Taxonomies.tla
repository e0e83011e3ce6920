------------------------------ MODULE Taxonomies ------------------------------
(***************************************************************************)
(* Versions of taxonomies and their links to the categories of jobs        *)
(* (taxonomy/taxonomy/resources.py, services.py).  A request reads, and    *)
(* then commits all it writes at once; other requests commit in between.   *)
(* A write of a row that is gone, a second row with the same key and a     *)
(* link without its taxonomy are refused by the database or its mapper,    *)
(* and with them all of the request's writes.                              *)
(***************************************************************************)
EXTENDS Naturals, FiniteSets, FiniteSetsExt

CONSTANTS
    TaxonomyId,     \* ids of taxonomies
    TaxTenant,      \* tenants
    TaxSession,     \* concurrent requests
    LinkRequests,   \* bodies of POST /link_category: sets of links asked for;
                    \* version 0 is that of the latest taxonomy
    MaxTaxonomyVersion \* bound on versions

VARIABLES
    taxonomies, \* rows: key <<id, version>> to [tenant, latest], or Gone
    taxLinks,   \* rows of association_taxonomy_category
    taxRequest, \* the request of each session, or NoRequest
    taxCrossed  \* history: a delete was under way while another change committed

taxonomiesVars == <<taxonomies, taxLinks, taxRequest, taxCrossed>>

Gone == [tenant |-> "none", latest |-> FALSE]
NoRequest == [op |-> "none"]

TaxVersion == 1 .. MaxTaxonomyVersion
TaxKey == TaxonomyId \X TaxVersion
TaxRows == {k \in TaxKey : taxonomies[k] # Gone}

OfTenant(k, t) == taxonomies[k].tenant = t

-----------------------------------------------------------------------------
(* Reads *)

LatestTaxonomies(id, t) ==
    {k \in TaxRows : k[1] = id /\ taxonomies[k].latest /\ OfTenant(k, t)}

Versions(id, t) == {k[2] : k \in {x \in TaxRows : x[1] = id /\ OfTenant(x, t)}}

\* The second of the versions from the highest down, 0 when there is none.
SecondLatest_First(id, t) ==
    LET v == Versions(id, t) IN IF v = {} THEN 0 ELSE Max(v)

SecondLatest(id, t) ==
    LET v == Versions(id, t)
    IN  IF Cardinality(v) < 2 THEN 0 ELSE Max(v \ {Max(v)})

\* Versions a query of several links may give one of its ids.  A query for no
\* links has an empty or_() for its condition, which is none at all: it gives
\* every taxonomy of every tenant.
BatchVersioned(asked, t) ==
    IF asked = {} THEN TaxRows
    ELSE {k \in TaxRows : OfTenant(k, t)
              /\ \E a \in asked : k = <<a.id, a.version>>}

BatchLatest(asked, t) ==
    IF asked = {} THEN TaxRows
    ELSE {k \in TaxRows : OfTenant(k, t) /\ taxonomies[k].latest
              /\ \E a \in asked : k[1] = a.id}

\* The dict of versions by id: of several rows the last one counts, and the
\* latest replace the versioned.
VersionsByIds(asked, t) ==
    LET versioned == BatchVersioned({a \in asked : a.version > 0}, t)
        latest == BatchLatest({a \in asked : a.version = 0}, t)
        rows(id) == LET l == {k \in latest : k[1] = id}
                    IN  IF l # {} THEN l ELSE {k \in versioned : k[1] = id}
    IN  {f \in [{a.id : a \in asked} -> 0 .. MaxTaxonomyVersion] :
             \A id \in DOMAIN f :
                 IF rows(id) = {} THEN f[id] = 0 ELSE <<id, f[id]>> \in rows(id)}

-----------------------------------------------------------------------------
(* Requests *)

TaxIdle(s) == taxRequest[s] = NoRequest
TaxReads(s, r) ==
    /\ TaxIdle(s)
    /\ taxRequest' = [taxRequest EXCEPT ![s] = r]
    /\ UNCHANGED <<taxonomies, taxLinks, taxCrossed>>

\* A request ends; it crosses another one when either of them deletes.
TaxEnds(s, crosses) ==
    /\ taxRequest' = [taxRequest EXCEPT ![s] = NoRequest]
    /\ taxCrossed' = (taxCrossed \/ crosses)

Crosses(s) ==
    \E o \in TaxSession \ {s} :
        /\ taxRequest[o] # NoRequest
        /\ taxRequest[o].id = taxRequest[s].id
        /\ taxRequest[o].tenant = taxRequest[s].tenant
        /\ "delete" \in {taxRequest[s].op, taxRequest[o].op}

TaxFails(s) == TaxEnds(s, FALSE) /\ UNCHANGED <<taxonomies, taxLinks>>

\* POST /taxonomy: read the latest one.
CreateRead(s, id, t) ==
    \E v \in {k[2] : k \in LatestTaxonomies(id, t)} \cup
             (IF LatestTaxonomies(id, t) = {} THEN {0} ELSE {}) :
        /\ v < MaxTaxonomyVersion
        /\ TaxReads(s, [op |-> "create", id |-> id, tenant |-> t, seen |-> v])

Unmarked(rows, k) ==
    IF k \in TaxKey THEN [rows EXCEPT ![k].latest = FALSE] ELSE rows

\* The previous latest loses its mark and the next version gets it.
CreateCommit(s) ==
    LET r == taxRequest[s]
        previous == <<r.id, r.seen>>
        new == <<r.id, r.seen + 1>>
    IN  /\ r.op = "create"
        /\ IF new \in TaxRows \/ (r.seen > 0 /\ previous \notin TaxRows)
           THEN TaxFails(s)
           ELSE /\ taxonomies' = [Unmarked(taxonomies, previous) EXCEPT
                                     ![new] = [tenant |-> r.tenant,
                                               latest |-> TRUE]]
                /\ TaxEnds(s, Crosses(s))
                /\ UNCHANGED taxLinks

\* DELETE /taxonomy/{id} and /taxonomy/{id}/{version}: read the row and, when
\* it is the latest, the one that is to be.
DeleteRead(s, k, t) ==
    /\ k \in TaxRows /\ OfTenant(k, t)
    /\ TaxReads(s, [op |-> "delete", id |-> k[1], tenant |-> t, seen |-> k[2],
                    next |-> IF taxonomies[k].latest
                             THEN SecondLatest(k[1], t) ELSE 0])

DeleteLatestRead(s, id, t) ==
    \E k \in LatestTaxonomies(id, t) : DeleteRead(s, k, t)

\* A linked taxonomy cannot be deleted: its links have it in their key.
DeleteCommit(s) ==
    LET r == taxRequest[s]
        k == <<r.id, r.seen>>
        next == <<r.id, r.next>>
        linked == \E l \in taxLinks : <<l.id, l.version>> = k
    IN  /\ r.op = "delete"
        /\ IF linked \/ (r.next > 0 /\ next \notin TaxRows)
           THEN TaxFails(s)
           ELSE /\ taxonomies' =
                       [x \in TaxKey |->
                            IF x = k THEN Gone
                            ELSE IF r.next > 0 /\ x = next
                            THEN [taxonomies[x] EXCEPT !.latest = TRUE]
                            ELSE taxonomies[x]]
                /\ TaxEnds(s, Crosses(s))
                /\ UNCHANGED taxLinks

\* POST /link_category: the versions to link to, or nothing at all when one
\* of the ids has none.
LinkRead(s, asked, t) ==
    \E f \in VersionsByIds(asked, t) :
        /\ \A a \in asked : f[a.id] > 0
        /\ TaxReads(s, [op |-> "link", id |-> "any", tenant |-> t,
                        asked |-> asked, versions |-> f])

LinkRow(a, v) == [id |-> a.id, version |-> v, job |-> a.job,
                  category |-> a.category, asked |-> a.version]

SameLink(l, m) == /\ l.id = m.id /\ l.version = m.version
                  /\ l.job = m.job /\ l.category = m.category

LinkCommit(s) ==
    LET r == taxRequest[s]
        new == {LinkRow(a, r.versions[a.id]) : a \in r.asked}
    IN  /\ r.op = "link"
        /\ IF \/ \E l \in new : <<l.id, l.version>> \notin TaxRows
              \/ \E l \in new, m \in taxLinks : SameLink(l, m)
           THEN TaxFails(s)
           ELSE /\ taxLinks' = taxLinks \cup new
                /\ TaxEnds(s, FALSE)
                /\ UNCHANGED taxonomies

\* DELETE /link_category/{job} and /link_category/{job}/{category}: the
\* category and the tenant are in queries whose result is not used.
Unlink(job) ==
    /\ taxLinks' = {l \in taxLinks : l.job # job}
    /\ taxLinks' # taxLinks
    /\ UNCHANGED <<taxonomies, taxRequest, taxCrossed>>

-----------------------------------------------------------------------------
Init ==
    /\ taxonomies = [k \in TaxKey |-> Gone]
    /\ taxLinks = {}
    /\ taxRequest = [s \in TaxSession |-> NoRequest]
    /\ taxCrossed = FALSE

Next ==
    \/ \E s \in TaxSession, t \in TaxTenant :
           \/ \E id \in TaxonomyId : CreateRead(s, id, t) \/ DeleteLatestRead(s, id, t)
           \/ \E k \in TaxKey : DeleteRead(s, k, t)
           \/ \E asked \in LinkRequests : LinkRead(s, asked, t)
    \/ \E s \in TaxSession : CreateCommit(s) \/ DeleteCommit(s) \/ LinkCommit(s)
    \/ \E job \in {"j1", "j2"} : Unlink(job)

Spec == Init /\ [][Next]_taxonomiesVars

-----------------------------------------------------------------------------
(* Properties *)

\* A tenant's latest taxonomy is its highest version and no other, whatever
\* creations overlap: the next version and the fall back of a delete are
\* computed from it.  A delete that overlaps with another change may leave
\* two latest versions or none.
LatestIsHighest ==
    ~taxCrossed =>
        \A id \in TaxonomyId, t \in TaxTenant :
            {k[2] : k \in LatestTaxonomies(id, t)} =
                (IF Versions(id, t) = {} THEN {} ELSE {Max(Versions(id, t))})

\* A link that was asked for with a version is to that version
\* (CategoryLinkSchema, associate_taxonomy_to_category).
LinksAreAsAsked ==
    \A l \in taxLinks : l.asked > 0 => l.version = l.asked

=============================================================================
