------------------------------ MODULE Categories ------------------------------
(***************************************************************************)
(* The categories of the annotation service (their tree is kept as that of *)
(* Taxons, and only the parents are modelled here) and the cache of        *)
(* subcategories (annotation/categories/services.py).  A search walks the  *)
(* tree with one query per category; it and the searches it calls for the  *)
(* children fill one set, and the cache keeps that very set, not a copy,   *)
(* for each of them.  A change clears the cache when it is flushed and is  *)
(* seen by others when it is committed, after that.                        *)
(***************************************************************************)
EXTENDS Naturals, Sequences

CONSTANTS
    CategoryId,      \* ids of categories
    CategorySession, \* concurrent requests
    SearchedRoots,   \* categories whose children are asked for
    MaxCategoryOps   \* bound on the number of requests

ASSUME CategoryAssumption ==
    SearchedRoots \subseteq CategoryId /\ {"none", "nobody"} \cap CategorySession = {}

Top == "top"  \* the parent of a category without parent: None

VARIABLES
    categories, \* rows: id to [parent], or NoCategory
    catCache,   \* <<category, root>> to a cached set, or Uncached
    catRequest, \* the request of each session, or NoCatRequest
    answered,   \* [root, found, right] of the last answer of each session
    overlapped, \* history: "change" when a request overlapped with a change,
                \* "search" when two searches of the same root did
    catOps      \* number of requests so far

categoriesVars == <<categories, catCache, catRequest, answered, overlapped, catOps>>

NoCategory == [parent |-> "none"]
Uncached == [by |-> "none", found |-> {}]
NoCatRequest == [op |-> "none"]
NoAnswer == [root |-> "none", found |-> {}, right |-> {}]

Known(i) == categories[i] # NoCategory
ChildrenOf(i) == {x \in CategoryId : Known(x) /\ categories[x].parent = i}

\* All that is below a category, itself left out: what a search is to find.
WithTheirChildren(found) == \A y \in found : ChildrenOf(y) \subseteq found

Descendants(i) ==
    {x \in CategoryId : \A found \in SUBSET CategoryId :
        ChildrenOf(i) \subseteq found /\ WithTheirChildren(found) => x \in found} \ {i}

Changing(r) == r.op \in {"add", "update", "delete"}
Overlaps(s, r) ==
    {IF Changing(catRequest[o]) \/ Changing(r) THEN "change" ELSE "search" :
        o \in {x \in CategorySession \ {s} :
                 /\ catRequest[x] # NoCatRequest
                 /\ \/ Changing(catRequest[x]) \/ Changing(r)
                    \/ catRequest[x].root = r.root}}

CategoryBegins(s, r) ==
    /\ catRequest[s] = NoCatRequest /\ catOps < MaxCategoryOps
    /\ catOps' = catOps + 1
    /\ catRequest' = [catRequest EXCEPT ![s] = r]
    /\ overlapped' = overlapped \cup Overlaps(s, r)

Finishes(s) ==
    /\ catRequest' = [catRequest EXCEPT ![s] = NoCatRequest]
    /\ UNCHANGED <<overlapped, catOps>>

-----------------------------------------------------------------------------
(* GET /categories/{category_id}/child *)

CacheFound(s, found) ==
    [k \in DOMAIN catCache |->
        IF catCache[k].by = s THEN [catCache[k] EXCEPT !.found = found]
        ELSE catCache[k]]

\* The key is that of the strings among the arguments.
CacheKey(category, root) == <<category, root>>

\* A call of the search; the innermost comes first on the stack.
Frame(category) == [category |-> category, todo |-> {}, asked |-> FALSE]

\* fetch_category_db, then the lookup of the cache for the root itself.
Search(s, root) ==
    /\ Known(root)
    /\ LET hit == catCache[CacheKey(root, root)]
           r == [op |-> "search", root |-> root, found |-> hit.found,
                 stack |-> IF hit = Uncached THEN <<Frame(root)>> ELSE <<>>]
       IN  CategoryBegins(s, r)
    /\ UNCHANGED <<categories, catCache, answered>>

\* One query: the children, those skipped that are there already.
Query(s) ==
    LET r == catRequest[s]
    IN  /\ r.op = "search" /\ r.stack # <<>> /\ ~Head(r.stack).asked
        /\ LET top == Head(r.stack).category
               children == ChildrenOf(top) \ (r.found \cup {top, r.root})
           IN  /\ catRequest' = [catRequest EXCEPT ![s] =
                      [r EXCEPT !.found = @ \cup children,
                                !.stack = <<[category |-> top, todo |-> children,
                                               asked |-> TRUE]>> \o Tail(@)]]
               /\ catCache' = CacheFound(s, r.found \cup children)
        /\ UNCHANGED <<categories, answered, overlapped, catOps>>

\* The call for one child: a cached set is returned, and not used.
Descend(s) ==
    LET r == catRequest[s]
    IN  /\ r.op = "search" /\ r.stack # <<>> /\ Head(r.stack).asked
        /\ \E child \in Head(r.stack).todo :
               LET rest == <<[Head(r.stack) EXCEPT !.todo = @ \ {child}]>> \o Tail(r.stack)
               IN  catRequest' = [catRequest EXCEPT ![s].stack =
                       IF catCache[CacheKey(child, r.root)] = Uncached
                       THEN <<Frame(child)>> \o rest ELSE rest]
        /\ UNCHANGED <<categories, catCache, answered, overlapped, catOps>>

\* The call for a category returns and its result goes to the cache.
Return(s) ==
    LET r == catRequest[s]
    IN  /\ r.op = "search" /\ r.stack # <<>>
        /\ Head(r.stack).asked /\ Head(r.stack).todo = {}
        /\ catCache' = [catCache EXCEPT
               ![CacheKey(Head(r.stack).category, r.root)] = [by |-> s, found |-> r.found]]
        /\ catRequest' = [catRequest EXCEPT ![s].stack = Tail(@)]
        /\ UNCHANGED <<categories, answered, overlapped, catOps>>

Answer(s) ==
    LET r == catRequest[s]
    IN  /\ r.op = "search" /\ r.stack = <<>>
        /\ answered' = [answered EXCEPT ![s] =
               [root |-> r.root, found |-> r.found, right |-> Descendants(r.root)]]
        /\ catCache' = [k \in DOMAIN catCache |->
               IF catCache[k].by = s THEN [catCache[k] EXCEPT !.by = "nobody"]
               ELSE catCache[k]]
        /\ Finishes(s)
        /\ UNCHANGED categories

\* Entries live for five minutes; those of the children are the older ones.
Expire ==
    /\ \E k \in DOMAIN catCache : catCache[k] # Uncached
    /\ catCache' = [k \in DOMAIN catCache |-> Uncached]
    /\ UNCHANGED <<categories, catRequest, answered, overlapped, catOps>>

-----------------------------------------------------------------------------
(* POST, PUT and DELETE /categories *)

AddCategory(s, i, p) ==
    /\ ~Known(i) /\ i # p
    /\ CategoryBegins(s, [op |-> "add", id |-> i, parent |-> p, at |-> "flush"])
    /\ UNCHANGED <<categories, catCache, answered>>

UpdateCategory(s, i, p) ==
    /\ Known(i) /\ i # p /\ categories[i].parent # p
    /\ p # Top => Known(p)
    /\ CategoryBegins(s, [op |-> "update", id |-> i, parent |-> p, at |-> "flush"])
    /\ UNCHANGED <<categories, catCache, answered>>

DeleteCategory(s, i) ==
    /\ Known(i)
    /\ CategoryBegins(s, [op |-> "delete", id |-> i, parent |-> Top, at |-> "flush"])
    /\ UNCHANGED <<categories, catCache, answered>>

\* clear_child_categories_cache: the flush of a commit, before its end.
Flush_NoClear(s) ==
    LET r == catRequest[s]
    IN  /\ Changing(r) /\ r.at = "flush"
        /\ catCache' = IF r.op = "update" THEN catCache
                       ELSE [k \in DOMAIN catCache |-> Uncached]
        /\ catRequest' = [catRequest EXCEPT ![s].at = "commit"]
        /\ UNCHANGED <<categories, answered, overlapped, catOps>>

Flush(s) ==
    LET r == catRequest[s]
    IN  /\ Changing(r) /\ r.at = "flush"
        /\ catCache' = [k \in DOMAIN catCache |-> Uncached]
        /\ catRequest' = [catRequest EXCEPT ![s].at = "commit"]
        /\ UNCHANGED <<categories, answered, overlapped, catOps>>

\* The database takes the change, or refuses what has lost its row, its parent
\* or its key to another one.
Commit(s) ==
    LET r == catRequest[s]
        refused == \/ r.op = "add" /\ Known(r.id)
                   \/ r.op = "update" /\ ~Known(r.id)
                   \/ r.parent # Top /\ ~Known(r.parent)
    IN  /\ Changing(r) /\ r.at = "commit"
        /\ categories' =
               CASE refused -> categories
                 [] r.op \in {"add", "update"} ->
                        [categories EXCEPT ![r.id] = [parent |-> r.parent]]
                 [] r.op = "delete" ->
                        [i \in CategoryId |->
                            IF i \in Descendants(r.id) \cup {r.id}
                            THEN NoCategory ELSE categories[i]]
        /\ Finishes(s)
        /\ UNCHANGED <<catCache, answered>>

-----------------------------------------------------------------------------
InitCategories ==
    /\ categories = [i \in CategoryId |-> NoCategory]
    /\ catCache = [k \in CategoryId \X CategoryId |-> Uncached]
    /\ catRequest = [s \in CategorySession |-> NoCatRequest]
    /\ answered = [s \in CategorySession |-> NoAnswer]
    /\ overlapped = {} /\ catOps = 0

NextCategories ==
    \/ \E s \in CategorySession :
           \/ \E root \in SearchedRoots : Search(s, root)
           \/ Query(s) \/ Descend(s) \/ Return(s) \/ Answer(s)
           \/ \E i \in CategoryId, p \in CategoryId \cup {Top} :
                  AddCategory(s, i, p) \/ UpdateCategory(s, i, p)
           \/ \E i \in CategoryId : DeleteCategory(s, i)
           \/ Flush(s) \/ Commit(s)
    \/ Expire

CategoriesSpec == InitCategories /\ [][NextCategories]_categoriesVars

-----------------------------------------------------------------------------
(* Properties *)

\* With requests that do not overlap the answer is the whole of the subtree as
\* it is now, from the cache or not, also when categories have been moved into
\* cycles (recursive_subcategory_search, clear_child_categories_cache).
CacheIsCurrent ==
    overlapped = {} => \A s \in CategorySession : answered[s].found = answered[s].right

\* What the comment of recursive_subcategory_search says: all subcategories
\* are found, whatever other searches go on at the same time.
SearchFindsAll ==
    "change" \notin overlapped =>
        \A s \in CategorySession : answered[s].right \subseteq answered[s].found

=============================================================================
