-------------------------------- MODULE Taxons --------------------------------
(***************************************************************************)
(* The tree of taxons (taxonomy/taxon/services.py): a row has the id of    *)
(* its parent and, as an ltree, its path from the root.  A request reads   *)
(* the rows it needs and then commits; other requests commit in between.   *)
(* Taxons of no tenant (Default) are there from the start: they may be     *)
(* parents and are neither changed nor deleted.                            *)
(***************************************************************************)
EXTENDS Naturals, SequencesExt

CONSTANTS
    TaxonId,      \* ids of taxons
    Default,      \* those that belong to no tenant
    TaxonSession  \* concurrent requests

Root == "root"  \* the parent_id of a taxon without parent: None

VARIABLES
    taxons,       \* rows: id to [parent, tree], or NoTaxon
    taxonRequest, \* the request of each session, or NoTaxonRequest
    twisted       \* history: "below" when a taxon was moved below itself,
                  \* "stale" when a path had changed since its request read it

taxonsVars == <<taxons, taxonRequest, twisted>>

NoTaxon == [parent |-> Root, tree |-> <<>>]
NoTaxonRequest == [op |-> "none"]

Exists(i) == taxons[i] # NoTaxon
TaxonOpen(s) == taxonRequest[s] # NoTaxonRequest

\* The path a taxon gets below parent p; a parent that is not found is as none.
PathBelow(p, i) ==
    IF p # Root /\ Exists(p) THEN Append(taxons[p].tree, i) ELSE <<i>>

\* The rows <@ tree: the taxon of that path and all below it.
Under(tree) == {i \in TaxonId : Exists(i) /\ IsPrefix(tree, taxons[i].tree)}

\* The rows a delete takes with it: parent_id is declared on delete cascade.
WithChildren(gone) ==
    \A x \in TaxonId : Exists(x) /\ taxons[x].parent \in gone => x \in gone

Cascade(i) ==
    {x \in TaxonId : \A gone \in SUBSET TaxonId :
                         i \in gone /\ WithChildren(gone) => x \in gone}

-----------------------------------------------------------------------------
(* Requests *)

\* The bound of the model: no request starts once the tree is twisted, of
\* which nothing is claimed and whose paths have no bound.
TaxonReads(s, r) ==
    /\ ~TaxonOpen(s) /\ twisted = {}
    /\ taxonRequest' = [taxonRequest EXCEPT ![s] = r]
    /\ UNCHANGED <<taxons, twisted>>

TaxonEnds(s) == taxonRequest' = [taxonRequest EXCEPT ![s] = NoTaxonRequest]
TaxonFails(s) == TaxonEnds(s) /\ UNCHANGED <<taxons, twisted>>

\* A path that a request has read and that another one has changed since.
Staleness(r) ==
    IF \/ r.op = "add" /\ r.tree # PathBelow(r.parent, r.id)
       \/ r.op = "move" /\ r.tree # taxons[r.id].tree
       \/ r.op = "move" /\ r.parent # Root /\ r.to # taxons[r.parent].tree
    THEN {"stale"} ELSE {}

\* POST /taxons: the taxonomy is found, the id is new, the path is that of the
\* parent as it is now.
AddRead(s, i, p) ==
    /\ i # p /\ ~Exists(i)
    /\ TaxonReads(s, [op |-> "add", id |-> i, parent |-> p,
                      tree |-> PathBelow(p, i)])

AddCommit(s) ==
    LET r == taxonRequest[s]
    IN  /\ r.op = "add"
        /\ IF Exists(r.id) \/ (r.parent # Root /\ ~Exists(r.parent))
           THEN TaxonFails(s)
           ELSE /\ taxons' = [taxons EXCEPT
                                  ![r.id] = [parent |-> r.parent, tree |-> r.tree]]
                /\ TaxonEnds(s)
                /\ twisted' = twisted \cup Staleness(r)

\* PUT /taxons/{id}: a taxon of the tenant, with its path and that of the new
\* parent as they are now.
MoveRead(s, i, p) ==
    /\ Exists(i) /\ i \notin Default /\ i # p
    /\ TaxonReads(s, [op |-> "move", id |-> i, parent |-> p,
                      from |-> taxons[i].parent, tree |-> taxons[i].tree,
                      to |-> IF p # Root /\ Exists(p) THEN taxons[p].tree
                             ELSE <<>>])

\* update_taxon_tree: below the old path, all but its last name is replaced
\* by the path of the new parent.
Moved_Alone(r) ==
    [i \in TaxonId |->
        IF i = r.id THEN [taxons[i] EXCEPT !.tree = Append(r.to, i)] ELSE taxons[i]]

Moved(r) ==
    [i \in TaxonId |->
        IF i \in Under(r.tree)
        THEN [taxons[i] EXCEPT
                 !.tree = r.to \o SubSeq(@, Len(r.tree), Len(@))]
        ELSE taxons[i]]

\* A taxon or a parent that is gone makes the whole transaction fail.
MoveCommit(s) ==
    LET r == taxonRequest[s]
    IN  /\ r.op = "move"
        /\ IF ~Exists(r.id) \/ (r.parent # Root /\ ~Exists(r.parent))
           THEN TaxonFails(s)
           ELSE /\ taxons' =
                       [(IF r.from # r.parent THEN Moved(r) ELSE taxons)
                            EXCEPT ![r.id].parent = r.parent]
                /\ TaxonEnds(s)
                /\ twisted' = twisted
                       \cup (IF r.id \in ToSet(r.to) THEN {"below"} ELSE {})
                       \cup Staleness(r)

\* DELETE /taxons/{id}
DeleteTaxon(i) ==
    /\ Exists(i) /\ i \notin Default
    /\ taxons' = [x \in TaxonId |-> IF x \in Cascade(i) THEN NoTaxon ELSE taxons[x]]
    /\ UNCHANGED <<taxonRequest, twisted>>

-----------------------------------------------------------------------------
(* Reads *)

\* _get_leafs: those that are no row's parent.
Leafs(asked) == {i \in asked : ~\E x \in TaxonId : Exists(x) /\ taxons[x].parent = i}

\* _get_parents: the names of all paths, all of which must be found.
Named(asked) == UNION {ToSet(taxons[i].tree) : i \in asked}
ParentsFound(asked) == \A i \in Named(asked) : i \in TaxonId /\ Exists(i)
ParentsOf(i) == Front(taxons[i].tree)

\* fetch_taxon_parents: the rows whose path is a prefix, the taxon itself left out.
FetchParents(i) ==
    {x \in TaxonId : Exists(x) /\ IsStrictPrefix(taxons[x].tree, taxons[i].tree)}

-----------------------------------------------------------------------------
InitTaxons ==
    /\ taxons = [i \in TaxonId |-> IF i \in Default
                                   THEN [parent |-> Root, tree |-> <<i>>]
                                   ELSE NoTaxon]
    /\ taxonRequest = [s \in TaxonSession |-> NoTaxonRequest]
    /\ twisted = {}

NextTaxons ==
    \/ \E s \in TaxonSession, i \in TaxonId, p \in TaxonId \cup {Root} :
           AddRead(s, i, p) \/ MoveRead(s, i, p)
    \/ \E s \in TaxonSession : AddCommit(s) \/ MoveCommit(s)
    \/ \E i \in TaxonId : DeleteTaxon(i)

TaxonsSpec == InitTaxons /\ [][NextTaxons]_taxonsVars

-----------------------------------------------------------------------------
(* Properties *)

\* What a search says of parents, which it takes from paths, agrees with the
\* parent_id of the rows: no name is missing, and each parent is the parent_id
\* of the next.  Moves take everything below with them, and requests that
\* overlap do no harm unless one changes a path the other has read.
ParentsAgree ==
    twisted = {} =>
        \A i \in TaxonId : Exists(i) =>
            LET up == taxons[i].tree
            IN  /\ ParentsFound({i})
                /\ ToSet(ParentsOf(i)) = FetchParents(i)
                /\ \A n \in 1 .. Len(up) :
                       taxons[up[n]].parent = (IF n = 1 THEN Root ELSE up[n - 1])
                /\ i \notin Leafs({i}) =>
                       \E x \in TaxonId : Exists(x) /\ i \in ToSet(ParentsOf(x))

=============================================================================
