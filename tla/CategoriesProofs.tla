--------------------------- MODULE CategoriesProofs ---------------------------
(***************************************************************************)
(* Theorem about Categories, for any ids, trees of any depth, cycles among *)
(* them, and any number of requests: as long as no request overlaps with a *)
(* change, nor two searches of one root, what a search answers is the      *)
(* subtree as it is.                                                       *)
(***************************************************************************)
EXTENDS Categories, SequenceTheorems, TLAPS

-----------------------------------------------------------------------------
(* What is below a category *)

Trees == [CategoryId -> SUBSET CategoryId]
Closed(kids, found) == \A y \in found : kids[y] \subseteq found

\* Descendants, of a function from categories to their children.
Below(kids, i) ==
    {x \in CategoryId : \A found \in SUBSET CategoryId :
        kids[i] \subseteq found /\ Closed(kids, found) => x \in found} \ {i}

\* The children of what is below a category are below it, or are that category.
LEMMA BelowIsClosed ==
    ASSUME NEW kids \in Trees, NEW i \in CategoryId, NEW x \in Below(kids, i) \cup {i}
    PROVE  kids[x] \subseteq Below(kids, i) \cup {i}
<1> SUFFICES ASSUME NEW y \in kids[x], y # i
             PROVE  y \in Below(kids, i)
  OBVIOUS
<1>1. x \in CategoryId
  BY DEF Below
<1>2. y \in CategoryId
  BY <1>1 DEF Trees
<1>3. ASSUME NEW found \in SUBSET CategoryId, kids[i] \subseteq found, Closed(kids, found)
      PROVE  y \in found
  <2>1. CASE x = i
    BY <1>3, <2>1
  <2>2. CASE x # i
    <3>1. x \in found
      BY <1>3, <2>2 DEF Below
    <3> QED
      BY <1>3, <3>1 DEF Closed
  <2> QED
    BY <2>1, <2>2
<1> QED
  BY <1>2, <1>3 DEF Below

\* A set that misses no child of its own has all that is below.
LEMMA BelowIsLeast ==
    ASSUME NEW kids \in Trees, NEW i \in CategoryId, NEW found \in SUBSET CategoryId,
           \A x \in found \cup {i} : kids[x] \subseteq found \cup {i}
    PROVE  Below(kids, i) \subseteq found
<1> SUFFICES ASSUME NEW x \in Below(kids, i)
             PROVE  x \in found
  OBVIOUS
<1>1. found \cup {i} \in SUBSET CategoryId
  OBVIOUS
<1>2. kids[i] \subseteq found \cup {i} /\ Closed(kids, found \cup {i})
  BY DEF Closed
<1>3. x \in found \cup {i} /\ x # i
  BY <1>1, <1>2 DEF Below
<1> QED
  BY <1>3

-----------------------------------------------------------------------------
(* A search on its way *)

Frames == [category : CategoryId, todo : SUBSET CategoryId, asked : BOOLEAN]
Searches == [op : {"search"}, root : CategoryId, found : SUBSET CategoryId,
             stack : Seq(Frames)]

\* Whose children are still to be asked for, or whose call is still to be made.
Waits(stack, x) ==
    \E n \in 1 .. Len(stack) :
        x \in stack[n].todo \/ (stack[n].category = x /\ ~stack[n].asked)

\* What is found is below the root, and what is not found yet is below something
\* that waits.
Complete(kids, r) ==
    \A x \in r.found \cup {r.root} :
        kids[x] \subseteq r.found \cup {r.root} \/ Waits(r.stack, x)

Calls(kids, r) ==
    \A n \in 1 .. Len(r.stack) :
        /\ r.stack[n].category \in r.found \cup {r.root}
        /\ r.stack[n].todo \subseteq r.found
        /\ IF r.stack[n].asked
           THEN kids[r.stack[n].category] \subseteq r.found \cup {r.root}
           ELSE r.stack[n].todo = {}

FromRoot(r) == r.stack # <<>> => r.stack[Len(r.stack)].category = r.root

Walks(kids, r) ==
    r.found \subseteq Below(kids, r.root) /\ Complete(kids, r) /\ Calls(kids, r) /\ FromRoot(r)

\* A walk, by its parts.
LEMMA WalksBy ==
    ASSUME NEW kids, NEW r, NEW root, NEW found, NEW stack,
           r.root = root, r.found = found, r.stack = stack,
           found \subseteq Below(kids, root),
           \A x \in found \cup {root} :
               kids[x] \subseteq found \cup {root} \/ Waits(stack, x),
           \A n \in 1 .. Len(stack) :
               /\ stack[n].category \in found \cup {root}
               /\ stack[n].todo \subseteq found
               /\ IF stack[n].asked THEN kids[stack[n].category] \subseteq found \cup {root}
                  ELSE stack[n].todo = {},
           stack # <<>> => stack[Len(stack)].category = root
    PROVE  Walks(kids, r)
BY DEF Walks, Complete, Calls, FromRoot

\* A stack with one more call.
LEMMA Pushed ==
    ASSUME NEW f \in Frames, NEW w \in Seq(Frames), NEW u, u = <<f>> \o w
    PROVE  /\ u \in Seq(Frames) /\ Len(u) = Len(w) + 1 /\ u[1] = f /\ u # <<>>
           /\ \A n \in 1 .. Len(w) : u[n + 1] = w[n]
           /\ \A n \in 1 .. Len(u) : n # 1 => n - 1 \in 1 .. Len(w) /\ u[n] = w[n - 1]
<1>1. /\ u \in Seq(Frames) /\ Len(u) = Len(w) + 1 /\ u[1] = f
      /\ \A n \in 1 .. Len(w) : u[n + 1] = w[n]
  OBVIOUS
<1>2. ASSUME NEW n \in 1 .. Len(u), n # 1
      PROVE  n - 1 \in 1 .. Len(w) /\ u[n] = w[n - 1]
  <2>1. PICK m \in 1 .. Len(w) : m = n - 1
    BY <1>1, <1>2
  <2> QED
    BY <1>1, <2>1
<1>3. u # <<>>
  BY <1>1
<1> QED
  BY <1>1, <1>2, <1>3

\* The stack when the innermost call has returned.
LEMMA Popped ==
    ASSUME NEW w \in Seq(Frames), w # <<>>, NEW u, u = Tail(w)
    PROVE  /\ u \in Seq(Frames) /\ Len(w) = Len(u) + 1 /\ Head(w) = w[1] /\ w[1] \in Frames
           /\ \A n \in 1 .. Len(u) : n + 1 \in 1 .. Len(w) /\ u[n] = w[n + 1]
           /\ \A n \in 1 .. Len(w) : n # 1 => n - 1 \in 1 .. Len(u) /\ w[n] = u[n - 1]
<1>1. /\ u \in Seq(Frames) /\ Len(w) = Len(u) + 1 /\ Head(w) = w[1] /\ w[1] \in Frames
      /\ \A n \in 1 .. Len(u) : u[n] = w[n + 1]
  OBVIOUS
<1>2. \A n \in 1 .. Len(u) : n + 1 \in 1 .. Len(w)
  BY <1>1
<1>3. ASSUME NEW n \in 1 .. Len(w), n # 1
      PROVE  n - 1 \in 1 .. Len(u) /\ w[n] = u[n - 1]
  <2>1. PICK m \in 1 .. Len(u) : m = n - 1
    BY <1>1, <1>3
  <2> QED
    BY <1>1, <2>1
<1> QED
  BY <1>1, <1>2, <1>3

\* A search with nothing left to do has found all that is below its root.
LEMMA WalkEnds ==
    ASSUME NEW kids \in Trees, NEW r \in Searches, Walks(kids, r), r.stack = <<>>
    PROVE  r.found = Below(kids, r.root)
<1>1. r.root \in CategoryId /\ r.found \in SUBSET CategoryId
  BY DEF Searches
<1>2. \A x : ~Waits(r.stack, x)
  BY DEF Waits
<1>3. \A x \in r.found \cup {r.root} : kids[x] \subseteq r.found \cup {r.root}
  BY <1>2 DEF Walks, Complete
<1> QED
  BY <1>1, <1>3, BelowIsLeast DEF Walks

\* A search that begins, with the root to ask for or with what the cache has.
LEMMA SearchBegins ==
    ASSUME NEW kids \in Trees, NEW i \in CategoryId, NEW found \in SUBSET CategoryId,
           NEW stack, NEW r,
           r = [op |-> "search", root |-> i, found |-> found, stack |-> stack],
           \/ found = {} /\ stack = <<Frame(i)>>
           \/ found = Below(kids, i) /\ stack = <<>>
    PROVE  r \in Searches /\ Walks(kids, r)
<1>1. r.root = i /\ r.found = found /\ r.stack = stack
  OBVIOUS
<1>2. Frame(i) \in Frames /\ Frame(i).category = i /\ Frame(i).todo = {} /\ ~Frame(i).asked
  BY DEF Frame, Frames
<1>3. CASE found = {} /\ stack = <<Frame(i)>>
  <2>1. stack \in Seq(Frames) /\ Len(stack) = 1 /\ stack[1] = Frame(i)
    BY <1>2, <1>3
  <2>2. Waits(stack, i)
    BY <1>2, <2>1 DEF Waits
  <2>3. r \in Searches
    BY <1>3, <2>1 DEF Searches
  <2> QED
    BY <1>1, <1>2, <1>3, <2>1, <2>2, <2>3 DEF Walks, Complete, Calls, FromRoot
<1>4. CASE found = Below(kids, i) /\ stack = <<>>
  <2>1. stack \in Seq(Frames) /\ Len(stack) = 0
    BY <1>4
  <2>2. Complete(kids, r)
    BY <1>1, <1>4, BelowIsClosed DEF Complete
  <2>3. r \in Searches
    BY <2>1 DEF Searches
  <2> QED
    BY <1>1, <1>4, <2>1, <2>2, <2>3 DEF Walks, Calls, FromRoot
<1> QED
  BY <1>3, <1>4

\* A search that has asked for the children of its innermost call.
Unfound(kids, r) == kids[Head(r.stack).category] \ (r.found \cup {Head(r.stack).category, r.root})
Asked(kids, r) ==
    [r EXCEPT !.found = @ \cup Unfound(kids, r),
              !.stack = <<[category |-> Head(r.stack).category, todo |-> Unfound(kids, r),
                           asked |-> TRUE]>> \o Tail(@)]

\* The query for a category: its children are found, and it has been asked.
LEMMA QueryWalks ==
    ASSUME NEW kids \in Trees, NEW r \in Searches, Walks(kids, r), r.stack # <<>>,
           ~Head(r.stack).asked, NEW new, new = Asked(kids, r)
    PROVE  /\ new \in Searches /\ Walks(kids, new) /\ new.root = r.root
           /\ new.stack # <<>> /\ new.found = r.found \cup Unfound(kids, r)
<1>1. PICK c : c = Head(r.stack).category
  OBVIOUS
<1>2. PICK children : children = Unfound(kids, r)
  OBVIOUS
<1>3. children = kids[c] \ (r.found \cup {c, r.root})
  BY <1>1, <1>2, Zenon DEF Unfound
<1>4. new = [r EXCEPT !.found = @ \cup children,
                     !.stack = <<[category |-> c, todo |-> children, asked |-> TRUE]>> \o Tail(@)]
  BY <1>1, <1>2, Zenon DEF Asked
<1>5. PICK w \in Seq(Frames) : w = r.stack
  BY DEF Searches
<1>6. PICK u : u = Tail(w)
  OBVIOUS
<1>7. /\ u \in Seq(Frames) /\ Len(w) = Len(u) + 1 /\ Head(w) = w[1] /\ w[1] \in Frames
      /\ \A n \in 1 .. Len(u) : n + 1 \in 1 .. Len(w) /\ u[n] = w[n + 1]
      /\ \A n \in 1 .. Len(w) : n # 1 => n - 1 \in 1 .. Len(u) /\ w[n] = u[n - 1]
  BY <1>5, <1>6, Popped
<1>8. c = w[1].category /\ ~w[1].asked /\ 1 \in 1 .. Len(w)
  BY <1>5, <1>7, <1>1
<1>9. r.root \in CategoryId /\ r.found \in SUBSET CategoryId /\ c \in r.found \cup {r.root}
  BY <1>5, <1>8 DEF Searches, Walks, Calls
<1>10. kids[c] \in SUBSET CategoryId
  BY <1>9 DEF Trees
<1>11. children \in SUBSET CategoryId
  BY <1>10, <1>3
<1>12. PICK f : f = [category |-> c, todo |-> children, asked |-> TRUE]
  OBVIOUS
<1>13. f \in Frames /\ f.category = c /\ f.todo = children /\ f.asked
  BY <1>9, <1>11, <1>12 DEF Frames
<1>14. PICK v : v = <<f>> \o u
  OBVIOUS
<1>15. /\ v \in Seq(Frames) /\ Len(v) = Len(u) + 1 /\ v[1] = f /\ v # <<>>
       /\ \A n \in 1 .. Len(u) : v[n + 1] = u[n]
       /\ \A n \in 1 .. Len(v) : n # 1 => n - 1 \in 1 .. Len(u) /\ v[n] = u[n - 1]
  <2>1. f \in Frames /\ u \in Seq(Frames)
    BY <1>7, <1>13
  <2> QED
    BY <1>14, <2>1, Pushed
<1>16. PICK root : root = r.root
  OBVIOUS
<1>17. PICK F : F = r.found \cup children
  OBVIOUS
<1>18. new.root = root /\ new.found = F /\ new.stack = v /\ new \in Searches
  <2>1. new = [r EXCEPT !.found = F, !.stack = v]
    BY <1>5, <1>6, <1>12, <1>14, <1>17, <1>4
  <2>2. F \in SUBSET CategoryId /\ v \in Seq(Frames)
    BY <1>9, <1>11, <1>15, <1>17
  <2> QED
    BY <1>16, <2>1, <2>2 DEF Searches
<1>19. \A n \in 1 .. Len(v) : n # 1 => n \in 1 .. Len(w) /\ v[n] = w[n]
  BY <1>7, <1>15
<1>20. \A n \in 1 .. Len(w) : n # 1 => n \in 1 .. Len(v) /\ v[n] = w[n]
  BY <1>7, <1>15
<1>21. kids[c] \subseteq F \cup {root}
  BY <1>9, <1>16, <1>17, <1>3
<1>22. F \subseteq Below(kids, root)
  <2>1. kids[c] \subseteq Below(kids, r.root) \cup {r.root}
    BY <1>9, BelowIsClosed DEF Walks
  <2> QED
    BY <1>16, <1>17, <1>3, <2>1 DEF Walks
<1>23. ASSUME NEW x \in F \cup {root}
       PROVE  kids[x] \subseteq F \cup {root} \/ Waits(v, x)
  <2>1. CASE x = c
    BY <1>21, <2>1
  <2>2. CASE x \in children
    <3>1. 1 \in 1 .. Len(v) /\ x \in v[1].todo
      BY <1>7, <1>13, <1>15, <2>2
    <3> QED
      BY <3>1 DEF Waits
  <2>3. CASE x # c /\ x \in r.found \cup {r.root}
    <3>1. kids[x] \subseteq r.found \cup {r.root} \/ Waits(w, x)
      BY <1>5, <2>3 DEF Walks, Complete
    <3>2. CASE kids[x] \subseteq r.found \cup {r.root}
      BY <1>16, <1>17, <3>2
    <3>3. CASE Waits(w, x)
      <4>1. PICK n \in 1 .. Len(w) :
                x \in w[n].todo \/ (w[n].category = x /\ ~w[n].asked)
        BY <3>3 DEF Waits
      <4>2. CASE n # 1
        BY <1>20, <4>1, <4>2 DEF Waits
      <4>3. CASE n = 1 /\ x \in w[1].todo
        <5>1. w[1].todo = {}
          BY <1>5, <1>8 DEF Walks, Calls
        <5> QED
          BY <4>3, <5>1
      <4> QED
        BY <1>8, <2>3, <4>1, <4>2, <4>3
    <3> QED
      BY <3>1, <3>2, <3>3
  <2> QED
    BY <1>16, <1>17, <2>1, <2>2, <2>3
<1>24. ASSUME NEW n \in 1 .. Len(v)
       PROVE  /\ v[n].category \in F \cup {root}
              /\ v[n].todo \subseteq F
              /\ IF v[n].asked THEN kids[v[n].category] \subseteq F \cup {root}
                 ELSE v[n].todo = {}
  <2>1. CASE n = 1
    BY <1>9, <1>13, <1>15, <1>16, <1>17, <1>21, <2>1
  <2>2. CASE n # 1
    <3>1. n \in 1 .. Len(w) /\ v[n] = w[n]
      BY <1>19, <2>2
    <3>2. /\ w[n].category \in r.found \cup {r.root}
          /\ w[n].todo \subseteq r.found
          /\ IF w[n].asked
             THEN kids[w[n].category] \subseteq r.found \cup {r.root}
             ELSE w[n].todo = {}
      BY <1>5, <3>1 DEF Walks, Calls
    <3> QED
      BY <1>16, <1>17, <3>1, <3>2
  <2> QED
    BY <2>1, <2>2
<1>25. v[Len(v)].category = root
  <2>1. w[Len(w)].category = r.root /\ Len(v) = Len(w)
    BY <1>5, <1>7, <1>15 DEF Walks, FromRoot
  <2>2. CASE Len(w) = 1
    BY <1>8, <1>13, <1>15, <1>16, <2>1, <2>2
  <2>3. CASE Len(w) # 1
    <3>1. PICK k \in 1 .. Len(w) : k = Len(w)
      BY <1>8
    <3>2. v[k] = w[k]
      BY <1>20, <2>3, <3>1
    <3> QED
      BY <1>16, <2>1, <3>1, <3>2
  <2> QED
    BY <2>2, <2>3
<1>26. Walks(kids, new)
  BY <1>18, <1>22, <1>23, <1>24, <1>25, WalksBy
<1> QED
  BY <1>15, <1>16, <1>17, <1>18, <1>26, <1>2

\* The stack without a child that is to do, and the search that goes on with it,
\* with a call for the child or not.
ChildDone(r, child) == <<[Head(r.stack) EXCEPT !.todo = @ \ {child}]>> \o Tail(r.stack)
GoesOn(r, child, cached) ==
    [r EXCEPT !.stack = IF ~cached THEN <<Frame(child)>> \o ChildDone(r, child)
                        ELSE ChildDone(r, child)]

\* The call for a child begins, or the cache has it and its children are found.
LEMMA DescendWalks ==
    ASSUME NEW kids \in Trees, NEW r \in Searches, Walks(kids, r), r.stack # <<>>,
           Head(r.stack).asked, NEW child \in Head(r.stack).todo, NEW cached \in BOOLEAN,
           cached => kids[child] \subseteq r.found \cup {r.root},
           NEW new, new = GoesOn(r, child, cached)
    PROVE  /\ new \in Searches /\ Walks(kids, new) /\ new.root = r.root
           /\ new.stack # <<>> /\ new.found = r.found
<1>1. PICK w \in Seq(Frames) : w = r.stack
  BY DEF Searches
<1>2. PICK u : u = Tail(w)
  OBVIOUS
<1>3. /\ u \in Seq(Frames) /\ Len(w) = Len(u) + 1 /\ Head(w) = w[1] /\ w[1] \in Frames
      /\ \A n \in 1 .. Len(u) : n + 1 \in 1 .. Len(w) /\ u[n] = w[n + 1]
      /\ \A n \in 1 .. Len(w) : n # 1 => n - 1 \in 1 .. Len(u) /\ w[n] = u[n - 1]
  BY <1>1, <1>2, Popped
<1>4. w[1].asked /\ child \in w[1].todo /\ 1 \in 1 .. Len(w)
  BY <1>1, <1>3
<1>5. \A n \in 1 .. Len(w) :
          /\ w[n].category \in r.found \cup {r.root}
          /\ w[n].todo \subseteq r.found
          /\ IF w[n].asked THEN kids[w[n].category] \subseteq r.found \cup {r.root}
             ELSE w[n].todo = {}
  BY <1>1 DEF Walks, Calls
<1>6. PICK f : f = [w[1] EXCEPT !.todo = @ \ {child}]
  OBVIOUS
<1>7. /\ f \in Frames /\ f.category = w[1].category /\ f.asked
      /\ f.todo = w[1].todo \ {child}
  BY <1>3, <1>4, <1>6 DEF Frames
<1>8. PICK rest : rest = ChildDone(r, child)
  OBVIOUS
<1>9. rest = <<f>> \o u
  BY <1>1, <1>2, <1>3, <1>6, <1>8 DEF ChildDone
<1>10. /\ rest \in Seq(Frames) /\ Len(rest) = Len(u) + 1 /\ rest[1] = f /\ rest # <<>>
       /\ \A n \in 1 .. Len(u) : rest[n + 1] = u[n]
       /\ \A n \in 1 .. Len(rest) : n # 1 => n - 1 \in 1 .. Len(u) /\ rest[n] = u[n - 1]
  <2>1. f \in Frames /\ u \in Seq(Frames)
    BY <1>3, <1>7
  <2> QED
    BY <1>9, <2>1, Pushed
<1>11. Len(rest) = Len(w) /\ \A n \in 1 .. Len(w) : n # 1 => rest[n] = w[n]
  BY <1>3, <1>10
<1>12. child \in CategoryId /\ child \in r.found
  BY <1>3, <1>4, <1>5 DEF Frames
<1>13. PICK g : g = Frame(child)
  OBVIOUS
<1>14. g \in Frames /\ g.category = child /\ g.todo = {} /\ ~g.asked
  BY <1>12, <1>13 DEF Frame, Frames
<1>15. PICK v : v = new.stack
  OBVIOUS
<1>16. new.root = r.root /\ new.found = r.found
       /\ v = (IF ~cached THEN <<g>> \o rest ELSE rest)
  BY <1>13, <1>15, <1>8 DEF Searches, GoesOn
<1>17. ~cached => /\ v \in Seq(Frames) /\ Len(v) = Len(rest) + 1 /\ v[1] = g /\ v # <<>>
                  /\ \A n \in 1 .. Len(rest) : v[n + 1] = rest[n]
                  /\ \A n \in 1 .. Len(v) :
                         n # 1 => n - 1 \in 1 .. Len(rest) /\ v[n] = rest[n - 1]
  <2> SUFFICES ASSUME ~cached
               PROVE  /\ v \in Seq(Frames) /\ Len(v) = Len(rest) + 1 /\ v[1] = g
                      /\ v # <<>>
                      /\ \A n \in 1 .. Len(rest) : v[n + 1] = rest[n]
                      /\ \A n \in 1 .. Len(v) :
                             n # 1 => n - 1 \in 1 .. Len(rest) /\ v[n] = rest[n - 1]
    OBVIOUS
  <2>1. g \in Frames /\ rest \in Seq(Frames) /\ v = <<g>> \o rest
    BY <1>10, <1>14, <1>16
  <2> QED
    BY <2>1, Pushed
<1>18. v \in Seq(Frames) /\ v # <<>> /\ new \in Searches
  <2>1. v \in Seq(Frames) /\ v # <<>>
    BY <1>10, <1>16, <1>17
  <2> QED
    BY <1>15, <2>1 DEF Searches, GoesOn
\* Where each of the calls is found.
<1>19. \A n \in 1 .. Len(rest) : \E m \in 1 .. Len(v) : v[m] = rest[n]
  <2> SUFFICES ASSUME NEW n \in 1 .. Len(rest)
               PROVE  \E m \in 1 .. Len(v) : v[m] = rest[n]
    OBVIOUS
  <2>1. CASE cached
    BY <1>16, <2>1
  <2>2. CASE ~cached
    <3>1. n + 1 \in 1 .. Len(v)
      BY <1>10, <1>17, <2>2
    <3>2. v[n + 1] = rest[n]
      BY <1>17, <2>2
    <3> QED
      BY <3>1, <3>2
  <2> QED
    BY <2>1, <2>2
<1>20. \A m \in 1 .. Len(v) :
           (~cached /\ v[m] = g) \/ \E n \in 1 .. Len(rest) : v[m] = rest[n]
  BY <1>16, <1>17
<1>21. kids[child] \subseteq r.found \cup {r.root} \/ Waits(v, child)
  <2>1. CASE ~cached
    <3>1. 1 \in 1 .. Len(v) /\ v[1].category = child /\ ~v[1].asked
      BY <1>10, <1>14, <1>17, <2>1
    <3> QED
      BY <3>1 DEF Waits
  <2> QED
    BY <2>1
<1>22. Complete(kids, new)
  <2> SUFFICES ASSUME NEW x \in r.found \cup {r.root}
               PROVE  kids[x] \subseteq r.found \cup {r.root} \/ Waits(v, x)
    BY <1>15, <1>16 DEF Complete
  <2>1. CASE Waits(w, x) /\ x # child
    <3>1. PICK n \in 1 .. Len(w) : x \in w[n].todo \/ (w[n].category = x /\ ~w[n].asked)
      BY <2>1 DEF Waits
    <3>2. x \in rest[n].todo \/ (rest[n].category = x /\ ~rest[n].asked)
      BY <1>4, <1>7, <1>10, <1>11, <2>1, <3>1
    <3>3. PICK m \in 1 .. Len(v) : v[m] = rest[n]
      BY <1>11, <1>19
    <3> QED
      BY <3>2, <3>3 DEF Waits
  <2>2. kids[x] \subseteq r.found \cup {r.root} \/ Waits(w, x)
    BY <1>1 DEF Walks, Complete
  <2> QED
    BY <1>21, <2>1, <2>2
<1>23. \A n \in 1 .. Len(rest) :
          /\ rest[n].category \in r.found \cup {r.root}
          /\ rest[n].todo \subseteq r.found
          /\ IF rest[n].asked THEN kids[rest[n].category] \subseteq r.found \cup {r.root}
             ELSE rest[n].todo = {}
  <2> SUFFICES ASSUME NEW n \in 1 .. Len(rest)
               PROVE  /\ rest[n].category \in r.found \cup {r.root}
                      /\ rest[n].todo \subseteq r.found
                      /\ IF rest[n].asked
                         THEN kids[rest[n].category] \subseteq r.found \cup {r.root}
                         ELSE rest[n].todo = {}
    OBVIOUS
  <2>1. CASE n = 1
    BY <1>4, <1>5, <1>7, <1>10, <2>1
  <2>2. CASE n # 1
    BY <1>5, <1>11, <2>2
  <2> QED
    BY <2>1, <2>2
<1>24. Calls(kids, new)
  <2> SUFFICES ASSUME NEW m \in 1 .. Len(v)
               PROVE  /\ v[m].category \in r.found \cup {r.root}
                      /\ v[m].todo \subseteq r.found
                      /\ IF v[m].asked
                         THEN kids[v[m].category] \subseteq r.found \cup {r.root}
                         ELSE v[m].todo = {}
    BY <1>15, <1>16 DEF Calls
  <2>1. CASE v[m] = g
    BY <1>12, <1>14, <2>1
  <2>2. CASE \E n \in 1 .. Len(rest) : v[m] = rest[n]
    BY <1>23, <2>2
  <2> QED
    BY <1>20, <2>1, <2>2
<1>25. FromRoot(new)
  <2>1. PICK k \in 1 .. Len(w) : k = Len(w)
    BY <1>4
  <2>2. w[k].category = r.root
    BY <1>1, <2>1 DEF Walks, FromRoot
  <2>3. rest[k].category = r.root /\ k = Len(rest)
    <3>1. CASE k = 1
      BY <1>7, <1>10, <1>11, <2>1, <2>2, <3>1
    <3>2. CASE k # 1
      BY <1>11, <2>1, <2>2, <3>2
    <3> QED
      BY <3>1, <3>2
  <2>4. v[Len(v)].category = r.root
    <3>1. CASE cached
      BY <1>16, <2>3, <3>1
    <3>2. CASE ~cached
      <4>1. k \in 1 .. Len(rest)
        BY <1>11, <2>1
      <4>2. v[k + 1] = rest[k] /\ Len(v) = k + 1
        BY <1>17, <2>3, <3>2, <4>1
      <4> QED
        BY <2>3, <4>2
    <3> QED
      BY <3>1, <3>2
  <2> QED
    BY <1>15, <1>16, <2>4 DEF FromRoot
<1> QED
  BY <1>15, <1>16, <1>18, <1>22, <1>24, <1>25 DEF Walks

\* The search without its innermost call.
Returned(r) == [r EXCEPT !.stack = Tail(@)]

\* The innermost call returns: its category has been asked.
LEMMA ReturnWalks ==
    ASSUME NEW kids \in Trees, NEW r \in Searches, Walks(kids, r), r.stack # <<>>,
           Head(r.stack).asked, Head(r.stack).todo = {},
           NEW c, c = Head(r.stack).category,
           NEW new, new = Returned(r)
    PROVE  /\ new \in Searches /\ Walks(kids, new) /\ new.root = r.root
           /\ new.found = r.found /\ c \in CategoryId
           /\ kids[c] \subseteq r.found \cup {r.root}
           /\ new.stack = <<>> => c = r.root
<1>1. PICK w \in Seq(Frames) : w = r.stack
  BY DEF Searches
<1>2. PICK u : u = Tail(w)
  OBVIOUS
<1>3. /\ u \in Seq(Frames) /\ Len(w) = Len(u) + 1 /\ Head(w) = w[1] /\ w[1] \in Frames
      /\ \A n \in 1 .. Len(u) : n + 1 \in 1 .. Len(w) /\ u[n] = w[n + 1]
      /\ \A n \in 1 .. Len(w) : n # 1 => n - 1 \in 1 .. Len(u) /\ w[n] = u[n - 1]
  BY <1>1, <1>2, Popped
<1>4. w[1].asked /\ w[1].todo = {} /\ w[1].category = c /\ 1 \in 1 .. Len(w)
  BY <1>1, <1>3
<1>5. \A n \in 1 .. Len(w) :
          /\ w[n].category \in r.found \cup {r.root}
          /\ w[n].todo \subseteq r.found
          /\ IF w[n].asked THEN kids[w[n].category] \subseteq r.found \cup {r.root}
             ELSE w[n].todo = {}
  BY <1>1 DEF Walks, Calls
<1>6. new.root = r.root /\ new.found = r.found /\ new.stack = u /\ new \in Searches
  BY <1>1, <1>2, <1>3 DEF Searches, Returned
<1>7. c \in CategoryId /\ kids[c] \subseteq r.found \cup {r.root}
  BY <1>3, <1>4, <1>5 DEF Frames
<1>8. Complete(kids, new)
  <2> SUFFICES ASSUME NEW x \in r.found \cup {r.root}, Waits(w, x)
               PROVE  Waits(u, x)
    BY <1>1, <1>6 DEF Walks, Complete
  <2>1. PICK n \in 1 .. Len(w) : x \in w[n].todo \/ (w[n].category = x /\ ~w[n].asked)
    BY DEF Waits
  <2>2. n # 1
    BY <1>4, <2>1
  <2>3. n - 1 \in 1 .. Len(u) /\ u[n - 1] = w[n]
    BY <1>3, <2>2
  <2> QED
    BY <2>1, <2>3 DEF Waits
<1>9. Calls(kids, new)
  <2> SUFFICES ASSUME NEW n \in 1 .. Len(u)
               PROVE  /\ u[n].category \in r.found \cup {r.root}
                      /\ u[n].todo \subseteq r.found
                      /\ IF u[n].asked
                         THEN kids[u[n].category] \subseteq r.found \cup {r.root}
                         ELSE u[n].todo = {}
    BY <1>6 DEF Calls
  <2>1. n + 1 \in 1 .. Len(w) /\ u[n] = w[n + 1]
    BY <1>3
  <2> QED
    BY <1>5, <2>1
<1>10. w[Len(w)].category = r.root
  BY <1>1 DEF Walks, FromRoot
<1>11. FromRoot(new)
  <2> SUFFICES ASSUME u # <<>>
               PROVE  u[Len(u)].category = r.root
    BY <1>6 DEF FromRoot
  <2>1. PICK k \in 1 .. Len(u) : k = Len(u)
    BY <1>3
  <2>2. u[k] = w[k + 1]
    BY <1>3
  <2>3. u[k] = w[Len(w)]
    BY <1>3, <2>1, <2>2
  <2> QED
    BY <1>10, <2>1, <2>3
<1>12. u = <<>> => c = r.root
  BY <1>3, <1>4, <1>10
<1> QED
  BY <1>6, <1>7, <1>8, <1>9, <1>11, <1>12 DEF Walks

-----------------------------------------------------------------------------
(* The cache and the requests *)

ChangeRequests == [op : {"add", "update", "delete"}, id : CategoryId,
                   parent : CategoryId \cup {Top}, at : {"flush", "commit"}]
CategoryRequests ==
    [CategorySession -> {NoCatRequest} \cup Searches \cup ChangeRequests]
Caches ==
    [CategoryId \X CategoryId ->
        [by : CategorySession \cup {"none", "nobody"}, found : SUBSET CategoryId]]

\* Requests are of searches of different roots, or there is one.
Apart(req) ==
    \A s, o \in CategorySession :
        s # o /\ req[s] # NoCatRequest /\ req[o] # NoCatRequest =>
            req[s].op = "search" /\ req[o].op = "search" /\ req[s].root # req[o].root

\* What is changed and not committed is not in the cache.
Cleared(cache, req) ==
    (\E s \in CategorySession : Changing(req[s]) /\ req[s].at = "commit") =>
        \A c, i \in CategoryId : cache[<<c, i>>] = Uncached

\* The sets in the cache that a search has put there are those it fills.
Owned(cache, req) ==
    \A c, i \in CategoryId, s \in CategorySession :
        cache[<<c, i>>].by = s =>
            req[s].op = "search" /\ req[s].root = i /\ cache[<<c, i>>].found = req[s].found

OnTheWay(req, s, i) == req[s].op = "search" /\ req[s].root = i /\ req[s].stack # <<>>

\* While a root is searched the cache has what this search has asked for; else all
\* that is below the root, of which the root is cached too.
Cached(kids, cache, req) ==
    \A c, i \in CategoryId : cache[<<c, i>>] # Uncached =>
        /\ \A s \in CategorySession : OnTheWay(req, s, i) =>
               cache[<<c, i>>].by = s /\ kids[c] \subseteq req[s].found \cup {i}
        /\ (\A s \in CategorySession : ~OnTheWay(req, s, i)) =>
               cache[<<c, i>>].found = Below(kids, i) /\ cache[<<i, i>>] # Uncached

Fits(kids, cache, req) ==
    /\ cache \in Caches /\ req \in CategoryRequests
    /\ Apart(req) /\ Cleared(cache, req) /\ Owned(cache, req) /\ Cached(kids, cache, req)
    /\ \A s \in CategorySession : req[s].op = "search" => Walks(kids, req[s])

\* The kinds of requests.
LEMMA RequestKinds ==
    ASSUME NEW req \in CategoryRequests, NEW s \in CategorySession
    PROVE  /\ req[s].op = "search" => req[s] \in Searches /\ req[s] # NoCatRequest
                                      /\ ~Changing(req[s])
           /\ Changing(req[s]) => req[s] \in ChangeRequests /\ req[s] # NoCatRequest
           /\ NoCatRequest.op # "search" /\ ~Changing(NoCatRequest)
           /\ req[s] # NoCatRequest => req[s].op = "search" \/ Changing(req[s])
BY DEF CategoryRequests, Searches, ChangeRequests, NoCatRequest, Changing

\* An empty cache fits all requests that keep apart.
LEMMA EmptyCacheFits ==
    ASSUME NEW kids \in Trees, NEW cache \in Caches, NEW req \in CategoryRequests,
           Apart(req), \A c, i \in CategoryId : cache[<<c, i>>] = Uncached,
           \A s \in CategorySession : req[s].op = "search" => Walks(kids, req[s])
    PROVE  Fits(kids, cache, req)
<1>1. Cleared(cache, req)
  BY DEF Cleared
<1>2. Owned(cache, req)
  BY CategoryAssumption DEF Owned, Uncached
<1>3. Cached(kids, cache, req)
  BY DEF Cached
<1> QED
  BY <1>1, <1>2, <1>3 DEF Fits

\* The requests when that of a session is another one.
With(req, s, r) == [req EXCEPT ![s] = r]

\* A request that begins: others go on as they did, and are none of those it would
\* overlap with.
LEMMA RequestBegins ==
    ASSUME NEW req \in CategoryRequests, Apart(req), NEW s \in CategorySession,
           req[s] = NoCatRequest, NEW r \in Searches \cup ChangeRequests,
           NEW new, new = With(req, s, r),
           \A o \in CategorySession \ {s} : req[o] # NoCatRequest =>
               ~Changing(req[o]) /\ ~Changing(r) /\ req[o].root # r.root
    PROVE  /\ new \in CategoryRequests /\ Apart(new) /\ new[s] = r
           /\ \A o \in CategorySession : o # s => new[o] = req[o]
<1>1. /\ new \in CategoryRequests /\ new[s] = r
      /\ \A o \in CategorySession : o # s => new[o] = req[o]
  BY DEF CategoryRequests, With
<1>2. ASSUME NEW o \in CategorySession, o # s, req[o] # NoCatRequest
      PROVE  req[o].op = "search" /\ r.op = "search" /\ req[o].root # r.root
  <2>1. ~Changing(req[o]) /\ ~Changing(r) /\ req[o].root # r.root
    BY <1>2
  <2>2. req[o].op = "search"
    BY <1>2, <2>1, RequestKinds
  <2>3. r.op = "search"
    BY <2>1 DEF Changing, Searches, ChangeRequests
  <2> QED
    BY <2>1, <2>2, <2>3
<1>3. Apart(new)
  BY <1>1, <1>2 DEF Apart
<1> QED
  BY <1>1, <1>3

\* A request that ends.
LEMMA RequestEnds ==
    ASSUME NEW req \in CategoryRequests, Apart(req), NEW s \in CategorySession,
           NEW new, new = With(req, s, NoCatRequest)
    PROVE  /\ new \in CategoryRequests /\ Apart(new) /\ new[s] = NoCatRequest
           /\ \A o \in CategorySession : o # s => new[o] = req[o]
<1>1. /\ new \in CategoryRequests /\ new[s] = NoCatRequest
      /\ \A o \in CategorySession : o # s => new[o] = req[o]
  BY DEF CategoryRequests, With
<1>2. Apart(new)
  BY <1>1 DEF Apart
<1> QED
  BY <1>1, <1>2

\* A search that goes on.
LEMMA SearchGoesOn ==
    ASSUME NEW req \in CategoryRequests, Apart(req), NEW s \in CategorySession,
           req[s].op = "search", NEW r \in Searches, r.root = req[s].root,
           NEW new, new = With(req, s, r)
    PROVE  /\ new \in CategoryRequests /\ Apart(new) /\ new[s] = r
           /\ \A o \in CategorySession : o # s => new[o] = req[o]
<1>1. /\ new \in CategoryRequests /\ new[s] = r /\ r.op = "search"
      /\ \A o \in CategorySession : o # s => new[o] = req[o]
  BY DEF CategoryRequests, Searches, With
<1>2. req[s] # NoCatRequest
  BY RequestKinds
<1>3. Apart(new)
  BY <1>1, <1>2 DEF Apart
<1> QED
  BY <1>1, <1>3

-----------------------------------------------------------------------------
(* Each step *)

\* While there is a search nothing is changed.
LEMMA NothingChanges ==
    ASSUME NEW req \in CategoryRequests, Apart(req), NEW s \in CategorySession,
           req[s].op = "search", NEW cache
    PROVE  Cleared(cache, req)
<1>1. req[s] # NoCatRequest /\ ~Changing(req[s])
  BY RequestKinds
<1>2. ASSUME NEW o \in CategorySession, Changing(req[o])
      PROVE  FALSE
  <2>1. req[o] # NoCatRequest /\ o # s
    BY <1>1, <1>2, RequestKinds
  <2>2. req[o].op = "search"
    BY <1>1, <2>1 DEF Apart
  <2> QED
    BY <1>2, <2>2, RequestKinds
<1> QED
  BY <1>2 DEF Cleared

\* What is cached by somebody is cached.
LEMMA ByIsCached ==
    ASSUME NEW s \in CategorySession, NEW e, e.by = s
    PROVE  e # Uncached
BY CategoryAssumption DEF Uncached

\* A search that is on its way and goes on, with the set that is in the cache.
LEMMA GoingOnFits ==
    ASSUME NEW kids \in Trees, NEW cache, NEW req, Fits(kids, cache, req),
           NEW s \in CategorySession, req[s].op = "search", req[s].stack # <<>>,
           NEW q \in Searches, Walks(kids, q), q.root = req[s].root, q.stack # <<>>,
           req[s].found \subseteq q.found,
           NEW new, new = With(req, s, q),
           NEW filled \in Caches,
           \A c, i \in CategoryId :
               IF cache[<<c, i>>].by = s
               THEN filled[<<c, i>>].by = s /\ filled[<<c, i>>].found = q.found
               ELSE filled[<<c, i>>] = cache[<<c, i>>]
    PROVE  Fits(kids, filled, new)
<1>1. cache \in Caches /\ req \in CategoryRequests /\ Apart(req)
  BY DEF Fits
<1>2. Owned(cache, req) /\ Cached(kids, cache, req)
  BY DEF Fits
<1>3. /\ new \in CategoryRequests /\ Apart(new) /\ new[s] = q
      /\ \A o \in CategorySession : o # s => new[o] = req[o]
  BY <1>1, SearchGoesOn
<1>4. q.op = "search"
  BY DEF Searches
<1>5. \A c, i \in CategoryId : filled[<<c, i>>] # Uncached => cache[<<c, i>>] # Uncached
  BY ByIsCached
<1>6. \A c, i \in CategoryId : cache[<<c, i>>] # Uncached => filled[<<c, i>>] # Uncached
  BY ByIsCached
<1>7. Cleared(filled, new)
  BY <1>3, <1>4, NothingChanges
<1>8. Owned(filled, new)
  <2> SUFFICES ASSUME NEW c \in CategoryId, NEW i \in CategoryId, NEW o \in CategorySession,
                      filled[<<c, i>>].by = o
               PROVE  /\ new[o].op = "search" /\ new[o].root = i
                      /\ filled[<<c, i>>].found = new[o].found
    BY DEF Owned
  <2>1. CASE cache[<<c, i>>].by = s
    <3>1. o = s /\ filled[<<c, i>>].found = q.found
      BY <2>1
    <3>2. req[s].root = i
      BY <1>2, <2>1 DEF Owned
    <3> QED
      BY <1>3, <1>4, <3>1, <3>2
  <2>2. CASE cache[<<c, i>>].by # s
    <3>1. filled[<<c, i>>] = cache[<<c, i>>] /\ o # s
      BY <2>2
    <3>2. req[o].op = "search" /\ req[o].root = i /\ cache[<<c, i>>].found = req[o].found
      BY <1>2, <3>1 DEF Owned
    <3> QED
      BY <1>3, <3>1, <3>2
  <2> QED
    BY <2>1, <2>2
<1>9. \A i : OnTheWay(new, s, i) <=> OnTheWay(req, s, i)
  BY <1>3, <1>4 DEF OnTheWay
<1>10. \A i, o : o \in CategorySession => (OnTheWay(new, o, i) <=> OnTheWay(req, o, i))
  BY <1>3, <1>9 DEF OnTheWay
<1>11. Cached(kids, filled, new)
  <2> SUFFICES ASSUME NEW c \in CategoryId, NEW i \in CategoryId, filled[<<c, i>>] # Uncached
               PROVE  /\ \A o \in CategorySession : OnTheWay(new, o, i) =>
                             /\ filled[<<c, i>>].by = o
                             /\ kids[c] \subseteq new[o].found \cup {i}
                      /\ (\A o \in CategorySession : ~OnTheWay(new, o, i)) =>
                             /\ filled[<<c, i>>].found = Below(kids, i)
                             /\ filled[<<i, i>>] # Uncached
    BY DEF Cached
  <2>1. cache[<<c, i>>] # Uncached
    BY <1>5
  <2>2. ASSUME NEW o \in CategorySession, OnTheWay(new, o, i)
        PROVE  filled[<<c, i>>].by = o /\ kids[c] \subseteq new[o].found \cup {i}
    <3>1. cache[<<c, i>>].by = o /\ kids[c] \subseteq req[o].found \cup {i}
      BY <1>2, <1>10, <2>1, <2>2 DEF Cached
    <3>2. filled[<<c, i>>].by = o
      BY <3>1
    <3> QED
      BY <1>3, <3>1, <3>2
  <2>3. ASSUME \A o \in CategorySession : ~OnTheWay(new, o, i)
        PROVE  filled[<<c, i>>].found = Below(kids, i) /\ filled[<<i, i>>] # Uncached
    <3>1. \A o \in CategorySession : ~OnTheWay(req, o, i)
      BY <1>10, <2>3
    <3>2. cache[<<c, i>>].found = Below(kids, i) /\ cache[<<i, i>>] # Uncached
      BY <1>2, <2>1, <3>1 DEF Cached
    <3>3. cache[<<c, i>>].by # s
      BY <1>2, <3>1 DEF Owned, OnTheWay
    <3> QED
      BY <1>6, <3>2, <3>3
  <2> QED
    BY <2>2, <2>3
<1>12. \A o \in CategorySession : new[o].op = "search" => Walks(kids, new[o])
  BY <1>3 DEF Fits
<1> QED
  BY <1>3, <1>7, <1>8, <1>11, <1>12 DEF Fits

\* A search whose innermost call has returned, with what the cache gets then.
LEMMA ReturnFits ==
    ASSUME NEW kids \in Trees, NEW cache, NEW req, Fits(kids, cache, req),
           NEW s \in CategorySession, req[s].op = "search", req[s].stack # <<>>,
           NEW q \in Searches, Walks(kids, q), q.root = req[s].root,
           q.found = req[s].found, NEW a \in CategoryId,
           kids[a] \subseteq q.found \cup {q.root}, q.stack = <<>> => a = q.root,
           NEW new, new = With(req, s, q),
           NEW filled, filled = [cache EXCEPT ![<<a, q.root>>] = [by |-> s, found |-> q.found]]
    PROVE  Fits(kids, filled, new)
<1>1. cache \in Caches /\ req \in CategoryRequests /\ Apart(req)
  BY DEF Fits
<1>2. Owned(cache, req) /\ Cached(kids, cache, req)
  BY DEF Fits
<1>3. /\ new \in CategoryRequests /\ Apart(new) /\ new[s] = q
      /\ \A o \in CategorySession : o # s => new[o] = req[o]
  BY <1>1, SearchGoesOn
<1>4. q.op = "search" /\ q.root \in CategoryId /\ q.found \in SUBSET CategoryId
  BY DEF Searches
<1>5. /\ filled \in Caches
      /\ filled[<<a, q.root>>].by = s /\ filled[<<a, q.root>>].found = q.found
      /\ \A c, i \in CategoryId : c # a \/ i # q.root => filled[<<c, i>>] = cache[<<c, i>>]
  BY <1>1, <1>4 DEF Caches
<1>6. Cleared(filled, new)
  BY <1>3, <1>4, NothingChanges
<1>7. Owned(filled, new)
  <2> SUFFICES ASSUME NEW c \in CategoryId, NEW i \in CategoryId, NEW o \in CategorySession,
                      filled[<<c, i>>].by = o
               PROVE  /\ new[o].op = "search" /\ new[o].root = i
                      /\ filled[<<c, i>>].found = new[o].found
    BY DEF Owned
  <2>1. CASE c = a /\ i = q.root
    BY <1>3, <1>4, <1>5, <2>1
  <2>2. CASE c # a \/ i # q.root
    <3>1. req[o].op = "search" /\ req[o].root = i /\ filled[<<c, i>>].found = req[o].found
      BY <1>2, <1>5, <2>2 DEF Owned
    <3> QED
      BY <1>3, <1>4, <3>1
  <2> QED
    BY <2>1, <2>2
<1>8. \A i, o : o \in CategorySession /\ o # s => (OnTheWay(new, o, i) <=> OnTheWay(req, o, i))
  BY <1>3 DEF OnTheWay
<1>9. \A o \in CategorySession : o # s => ~OnTheWay(req, o, q.root)
  <2>1. req[s] # NoCatRequest
    BY <1>1, RequestKinds
  <2>2. \A o \in CategorySession : req[o].op = "search" => req[o] # NoCatRequest
    BY <1>1, RequestKinds
  <2> QED
    BY <1>1, <2>1, <2>2 DEF Apart, OnTheWay
<1>10. OnTheWay(req, s, q.root) /\ \A i : OnTheWay(req, s, i) => i = q.root
  BY DEF OnTheWay
<1>11. Cached(kids, filled, new)
  <2> SUFFICES ASSUME NEW c \in CategoryId, NEW i \in CategoryId, filled[<<c, i>>] # Uncached
               PROVE  /\ \A o \in CategorySession : OnTheWay(new, o, i) =>
                             /\ filled[<<c, i>>].by = o
                             /\ kids[c] \subseteq new[o].found \cup {i}
                      /\ (\A o \in CategorySession : ~OnTheWay(new, o, i)) =>
                             /\ filled[<<c, i>>].found = Below(kids, i)
                             /\ filled[<<i, i>>] # Uncached
    BY DEF Cached
  <2>1. CASE i = q.root
    <3>1. filled[<<c, i>>].by = s /\ kids[c] \subseteq q.found \cup {i}
      <4>1. CASE c = a
        BY <1>5, <2>1, <4>1
      <4>2. CASE c # a
        <5>1. cache[<<c, i>>] # Uncached /\ filled[<<c, i>>] = cache[<<c, i>>]
          BY <1>5, <4>2
        <5>2. OnTheWay(req, s, i)
          BY <1>10, <2>1
        <5>3. cache[<<c, i>>].by = s /\ kids[c] \subseteq req[s].found \cup {i}
          BY <1>2, <5>1, <5>2 DEF Cached
        <5> QED
          BY <5>1, <5>3
      <4> QED
        BY <4>1, <4>2
    <3>2. \A o \in CategorySession : OnTheWay(new, o, i) => o = s
      BY <1>8, <1>9, <2>1
    <3>3. ASSUME \A o \in CategorySession : ~OnTheWay(new, o, i)
          PROVE  filled[<<c, i>>].found = Below(kids, i) /\ filled[<<i, i>>] # Uncached
      <4>1. q.stack = <<>>
        BY <1>3, <1>4, <2>1, <3>3 DEF OnTheWay
      <4>2. q.found = Below(kids, i)
        BY <2>1, <4>1, WalkEnds
      <4>3. filled[<<c, i>>].found = q.found
        BY <1>3, <1>7, <3>1 DEF Owned
      <4>4. filled[<<i, i>>].by = s
        BY <1>5, <2>1, <4>1
      <4> QED
        BY <4>2, <4>3, <4>4, ByIsCached
    <3> QED
      BY <1>3, <3>1, <3>2, <3>3
  <2>2. CASE i # q.root
    <3>1. filled[<<c, i>>] = cache[<<c, i>>] /\ filled[<<i, i>>] = cache[<<i, i>>]
      BY <1>5, <2>2
    <3>2. ~OnTheWay(req, s, i) /\ ~OnTheWay(new, s, i)
      BY <1>3, <1>10, <2>2 DEF OnTheWay
    <3>3. \A o \in CategorySession : OnTheWay(new, o, i) <=> OnTheWay(req, o, i)
      BY <1>8, <3>2
    <3>4. ASSUME NEW o \in CategorySession, OnTheWay(new, o, i)
          PROVE  cache[<<c, i>>].by = o /\ kids[c] \subseteq new[o].found \cup {i}
      <4>1. cache[<<c, i>>].by = o /\ kids[c] \subseteq req[o].found \cup {i}
        BY <1>2, <3>1, <3>3, <3>4 DEF Cached
      <4> QED
        BY <1>3, <3>2, <3>4, <4>1
    <3>5. ASSUME \A o \in CategorySession : ~OnTheWay(new, o, i)
          PROVE  cache[<<c, i>>].found = Below(kids, i) /\ cache[<<i, i>>] # Uncached
      <4>1. \A o \in CategorySession : ~OnTheWay(req, o, i)
        BY <3>3, <3>5
      <4> QED
        BY <1>2, <3>1, <4>1 DEF Cached
    <3> QED
      BY <3>1, <3>4, <3>5
  <2> QED
    BY <2>1, <2>2
<1>12. \A o \in CategorySession : new[o].op = "search" => Walks(kids, new[o])
  BY <1>3 DEF Fits
<1> QED
  BY <1>3, <1>5, <1>6, <1>7, <1>11, <1>12 DEF Fits

\* A search that begins: it asks for its root, or answers what is cached of it.
LEMMA SearchFits ==
    ASSUME NEW kids \in Trees, NEW cache, NEW req, Fits(kids, cache, req),
           NEW s \in CategorySession, req[s] = NoCatRequest, NEW i \in CategoryId,
           NEW stack,
           stack = IF cache[<<i, i>>] = Uncached THEN <<Frame(i)>> ELSE <<>>,
           NEW r, r = [op |-> "search", root |-> i, found |-> cache[<<i, i>>].found,
                       stack |-> stack],
           \A o \in CategorySession \ {s} : req[o] # NoCatRequest =>
               ~Changing(req[o]) /\ ~Changing(r) /\ req[o].root # r.root,
           NEW new, new = With(req, s, r)
    PROVE  Fits(kids, cache, new)
<1>1. cache \in Caches /\ req \in CategoryRequests /\ Apart(req)
  BY DEF Fits
<1>2. Owned(cache, req) /\ Cached(kids, cache, req)
  BY DEF Fits
<1>3. \A o \in CategorySession : ~OnTheWay(req, o, i)
  <2> SUFFICES ASSUME NEW o \in CategorySession, OnTheWay(req, o, i)
               PROVE  FALSE
    OBVIOUS
  <2>1. req[o] # NoCatRequest /\ req[s].op # "search"
    BY <1>1, RequestKinds DEF OnTheWay
  <2>2. o # s /\ req[o].root = i
    BY <2>1 DEF OnTheWay
  <2> QED
    BY <2>1, <2>2
<1>4. PICK found \in SUBSET CategoryId : found = cache[<<i, i>>].found
  BY <1>1 DEF Caches
<1>5. \/ found = {} /\ stack = <<Frame(i)>>
      \/ found = Below(kids, i) /\ stack = <<>>
  <2>1. CASE cache[<<i, i>>] = Uncached
    BY <1>4, <2>1 DEF Uncached
  <2>2. CASE cache[<<i, i>>] # Uncached
    BY <1>2, <1>3, <1>4, <2>2 DEF Cached
  <2> QED
    BY <2>1, <2>2
<1>6. r \in Searches /\ Walks(kids, r)
  <2>1. r = [op |-> "search", root |-> i, found |-> found, stack |-> stack]
    BY <1>4
  <2> QED
    BY <1>5, <2>1, SearchBegins
<1>7. /\ new \in CategoryRequests /\ Apart(new) /\ new[s] = r
      /\ \A o \in CategorySession : o # s => new[o] = req[o]
  <2>1. r \in Searches \cup ChangeRequests
    BY <1>6
  <2> QED
    BY <1>1, <2>1, RequestBegins
<1>8. r.op = "search" /\ r.root = i /\ r.stack = stack
  OBVIOUS
<1>9. Cleared(cache, new)
  BY <1>7, <1>8, NothingChanges
<1>10. \A o \in CategorySession : req[o].op = "search" => o # s
  BY <1>1, RequestKinds
<1>11. Owned(cache, new)
  BY <1>2, <1>7, <1>10 DEF Owned
<1>12. Cached(kids, cache, new)
  <2> SUFFICES ASSUME NEW c \in CategoryId, NEW j \in CategoryId, cache[<<c, j>>] # Uncached
               PROVE  /\ \A o \in CategorySession : OnTheWay(new, o, j) =>
                             /\ cache[<<c, j>>].by = o
                             /\ kids[c] \subseteq new[o].found \cup {j}
                      /\ (\A o \in CategorySession : ~OnTheWay(new, o, j)) =>
                             /\ cache[<<c, j>>].found = Below(kids, j)
                             /\ cache[<<j, j>>] # Uncached
    BY DEF Cached
  <2>1. ~OnTheWay(new, s, j)
    <3> SUFFICES ASSUME OnTheWay(new, s, j)
                 PROVE  FALSE
      OBVIOUS
    <3>1. j = i /\ cache[<<i, i>>] = Uncached
      BY <1>7, <1>8 DEF OnTheWay
    <3>2. cache[<<i, i>>] # Uncached
      BY <1>2, <1>3, <3>1 DEF Cached
    <3> QED
      BY <3>1, <3>2
  <2>2. ASSUME NEW o \in CategorySession, OnTheWay(new, o, j)
        PROVE  cache[<<c, j>>].by = o /\ kids[c] \subseteq new[o].found \cup {j}
    <3>1. new[o] = req[o] /\ OnTheWay(req, o, j)
      BY <1>7, <2>1, <2>2 DEF OnTheWay
    <3>2. cache[<<c, j>>].by = o /\ kids[c] \subseteq req[o].found \cup {j}
      BY <1>2, <3>1 DEF Cached
    <3> QED
      BY <3>1, <3>2
  <2>3. ASSUME \A o \in CategorySession : ~OnTheWay(new, o, j)
        PROVE  cache[<<c, j>>].found = Below(kids, j) /\ cache[<<j, j>>] # Uncached
    <3>1. \A o \in CategorySession : ~OnTheWay(req, o, j)
      BY <1>7, <1>10, <2>3 DEF OnTheWay
    <3> QED
      BY <1>2, <3>1 DEF Cached
  <2> QED
    BY <2>2, <2>3
<1>13. \A o \in CategorySession : new[o].op = "search" => Walks(kids, new[o])
  BY <1>6, <1>7 DEF Fits
<1> QED
  BY <1>1, <1>7, <1>9, <1>11, <1>12, <1>13 DEF Fits

\* A search that ends: what it has put into the cache is nobody's.
LEMMA AnswerFits ==
    ASSUME NEW kids \in Trees, NEW cache, NEW req, Fits(kids, cache, req),
           NEW s \in CategorySession, req[s].op = "search", req[s].stack = <<>>,
           NEW new, new = With(req, s, NoCatRequest),
           NEW left \in Caches,
           \A c, i \in CategoryId :
               IF cache[<<c, i>>].by = s
               THEN /\ left[<<c, i>>].by = "nobody"
                    /\ left[<<c, i>>].found = cache[<<c, i>>].found
               ELSE left[<<c, i>>] = cache[<<c, i>>]
    PROVE  Fits(kids, left, new)
<1>1. cache \in Caches /\ req \in CategoryRequests /\ Apart(req)
  BY DEF Fits
<1>2. Owned(cache, req) /\ Cached(kids, cache, req)
  BY DEF Fits
<1>3. /\ new \in CategoryRequests /\ Apart(new) /\ new[s] = NoCatRequest
      /\ \A o \in CategorySession : o # s => new[o] = req[o]
  BY <1>1, RequestEnds
<1>4. NoCatRequest.op # "search" /\ ~Changing(NoCatRequest)
  BY DEF NoCatRequest, Changing
<1>5. \A c, i \in CategoryId : left[<<c, i>>] # Uncached <=> cache[<<c, i>>] # Uncached
  <2>1. \A e : e.by = "nobody" => e # Uncached
    BY DEF Uncached
  <2> QED
    BY <2>1, ByIsCached
<1>6. Cleared(left, new)
  <2>1. \A o \in CategorySession : o # s => ~Changing(req[o])
    <3> SUFFICES ASSUME NEW o \in CategorySession, o # s, Changing(req[o])
                 PROVE  FALSE
      OBVIOUS
    <3>1. req[o] # NoCatRequest /\ req[s] # NoCatRequest
      BY <1>1, RequestKinds
    <3>2. req[o].op = "search"
      BY <1>1, <3>1 DEF Apart
    <3> QED
      BY <1>1, <3>2, RequestKinds
  <2> QED
    BY <1>3, <1>4, <2>1 DEF Cleared
<1>7. Owned(left, new)
  <2> SUFFICES ASSUME NEW c \in CategoryId, NEW i \in CategoryId, NEW o \in CategorySession,
                      left[<<c, i>>].by = o
               PROVE  /\ new[o].op = "search" /\ new[o].root = i
                      /\ left[<<c, i>>].found = new[o].found
    BY DEF Owned
  <2>1. cache[<<c, i>>].by # s /\ left[<<c, i>>] = cache[<<c, i>>]
    BY CategoryAssumption
  <2>2. req[o].op = "search" /\ req[o].root = i /\ cache[<<c, i>>].found = req[o].found
    BY <1>2, <2>1 DEF Owned
  <2> QED
    BY <1>3, <2>1, <2>2
<1>8. \A i, o : o \in CategorySession => (OnTheWay(new, o, i) <=> OnTheWay(req, o, i))
  BY <1>3, <1>4 DEF OnTheWay
<1>9. \A i : ~OnTheWay(req, s, i)
  BY DEF OnTheWay
<1>10. Cached(kids, left, new)
  <2> SUFFICES ASSUME NEW c \in CategoryId, NEW i \in CategoryId, left[<<c, i>>] # Uncached
               PROVE  /\ \A o \in CategorySession : OnTheWay(new, o, i) =>
                             /\ left[<<c, i>>].by = o
                             /\ kids[c] \subseteq new[o].found \cup {i}
                      /\ (\A o \in CategorySession : ~OnTheWay(new, o, i)) =>
                             /\ left[<<c, i>>].found = Below(kids, i)
                             /\ left[<<i, i>>] # Uncached
    BY DEF Cached
  <2>1. cache[<<c, i>>] # Uncached
    BY <1>5
  <2>2. ASSUME NEW o \in CategorySession, OnTheWay(new, o, i)
        PROVE  left[<<c, i>>].by = o /\ kids[c] \subseteq new[o].found \cup {i}
    <3>1. OnTheWay(req, o, i) /\ o # s /\ new[o] = req[o]
      BY <1>3, <1>8, <1>9, <2>2
    <3>2. cache[<<c, i>>].by = o /\ kids[c] \subseteq req[o].found \cup {i}
      BY <1>2, <2>1, <3>1 DEF Cached
    <3> QED
      BY <3>1, <3>2
  <2>3. ASSUME \A o \in CategorySession : ~OnTheWay(new, o, i)
        PROVE  left[<<c, i>>].found = Below(kids, i) /\ left[<<i, i>>] # Uncached
    <3>1. \A o \in CategorySession : ~OnTheWay(req, o, i)
      BY <1>8, <2>3
    <3>2. cache[<<c, i>>].found = Below(kids, i) /\ cache[<<i, i>>] # Uncached
      BY <1>2, <2>1, <3>1 DEF Cached
    <3> QED
      BY <1>5, <3>2
  <2> QED
    BY <2>2, <2>3
<1>11. \A o \in CategorySession : new[o].op = "search" => Walks(kids, new[o])
  BY <1>3, <1>4 DEF Fits
<1> QED
  BY <1>3, <1>6, <1>7, <1>10, <1>11 DEF Fits

\* A change that begins, alone.
LEMMA ChangeFits ==
    ASSUME NEW kids \in Trees, NEW cache, NEW req, Fits(kids, cache, req),
           NEW s \in CategorySession, req[s] = NoCatRequest,
           NEW r \in ChangeRequests, r.at = "flush",
           \A o \in CategorySession \ {s} : req[o] # NoCatRequest =>
               ~Changing(req[o]) /\ ~Changing(r) /\ req[o].root # r.root,
           NEW new, new = With(req, s, r)
    PROVE  Fits(kids, cache, new)
<1>1. cache \in Caches /\ req \in CategoryRequests /\ Apart(req)
  BY DEF Fits
<1>2. Owned(cache, req) /\ Cached(kids, cache, req)
  BY DEF Fits
<1>3. /\ new \in CategoryRequests /\ Apart(new) /\ new[s] = r
      /\ \A o \in CategorySession : o # s => new[o] = req[o]
  <2>1. r \in Searches \cup ChangeRequests
    OBVIOUS
  <2> QED
    BY <1>1, <2>1, RequestBegins
<1>4. Changing(r) /\ r.op # "search" /\ NoCatRequest.op # "search"
      /\ ~Changing(NoCatRequest)
  BY DEF ChangeRequests, Changing, NoCatRequest
<1>5. \A o \in CategorySession : o # s => req[o] = NoCatRequest
  BY <1>4
<1>6. \A o \in CategorySession : req[o].op # "search" /\ new[o].op # "search"
  BY <1>3, <1>4, <1>5
<1>7. Cleared(cache, new)
  BY <1>3, <1>4, <1>5 DEF Cleared
<1>8. Owned(cache, new)
  BY <1>2, <1>6 DEF Owned
<1>9. Cached(kids, cache, new)
  BY <1>2, <1>6 DEF Cached, OnTheWay
<1> QED
  BY <1>1, <1>3, <1>6, <1>7, <1>8, <1>9 DEF Fits

\* A change that clears the cache.
LEMMA FlushFits ==
    ASSUME NEW kids \in Trees, NEW cache, NEW req, Fits(kids, cache, req),
           NEW s \in CategorySession, Changing(req[s]),
           NEW new, new = [req EXCEPT ![s].at = "commit"],
           NEW cleared \in Caches, \A c, i \in CategoryId : cleared[<<c, i>>] = Uncached
    PROVE  Fits(kids, cleared, new)
<1>1. req \in CategoryRequests /\ Apart(req)
  BY DEF Fits
<1>2. req[s] \in ChangeRequests /\ req[s] # NoCatRequest /\ req[s].op # "search"
  BY <1>1, RequestKinds
<1>3. PICK r : r = [req[s] EXCEPT !.at = "commit"]
  OBVIOUS
<1>4. r \in ChangeRequests /\ r.op = req[s].op
  BY <1>2, <1>3 DEF ChangeRequests
<1>5. /\ new \in CategoryRequests /\ new[s] = r
      /\ \A o \in CategorySession : o # s => new[o] = req[o]
  BY <1>1, <1>3, <1>4 DEF CategoryRequests
<1>6. \A o \in CategorySession : o # s => req[o] = NoCatRequest
  BY <1>1, <1>2 DEF Apart
<1>7. NoCatRequest.op # "search"
  BY DEF NoCatRequest
<1>8. Apart(new)
  BY <1>5, <1>6 DEF Apart
<1>9. \A o \in CategorySession : new[o].op # "search"
  BY <1>2, <1>4, <1>5, <1>6, <1>7
<1> QED
  BY <1>5, <1>8, <1>9, EmptyCacheFits

\* A change that is committed, whatever it does to the tree.
LEMMA CommitFits ==
    ASSUME NEW kids, NEW cache, NEW req, Fits(kids, cache, req), NEW changed \in Trees,
           NEW s \in CategorySession, Changing(req[s]), req[s].at = "commit",
           NEW new, new = With(req, s, NoCatRequest)
    PROVE  Fits(changed, cache, new)
<1>1. cache \in Caches /\ req \in CategoryRequests /\ Apart(req)
  BY DEF Fits
<1>2. req[s] # NoCatRequest /\ req[s].op # "search"
  BY <1>1, RequestKinds
<1>3. /\ new \in CategoryRequests /\ Apart(new) /\ new[s] = NoCatRequest
      /\ \A o \in CategorySession : o # s => new[o] = req[o]
  BY <1>1, RequestEnds
<1>4. \A o \in CategorySession : o # s => req[o] = NoCatRequest
  BY <1>1, <1>2 DEF Apart
<1>5. NoCatRequest.op # "search"
  BY DEF NoCatRequest
<1>6. \A o \in CategorySession : new[o].op # "search"
  BY <1>3, <1>4, <1>5
<1>7. \A c, i \in CategoryId : cache[<<c, i>>] = Uncached
  BY DEF Fits, Cleared
<1> QED
  BY <1>1, <1>3, <1>6, <1>7, EmptyCacheFits

-----------------------------------------------------------------------------
(* The state *)

Kids == [x \in CategoryId |-> ChildrenOf(x)]

Answers ==
    /\ answered = [s \in CategorySession |-> answered[s]]
    /\ \A s \in CategorySession : answered[s].found = answered[s].right

CategoryInv == overlapped = {} => Answers /\ Fits(Kids, catCache, catRequest)

\* The children as a function; Descendants is Below of it.
LEMMA KidsAre ==
    /\ Kids \in Trees
    /\ \A x \in CategoryId : Kids[x] = ChildrenOf(x)
    /\ \A i \in CategoryId : Descendants(i) = Below(Kids, i)
<1>1. Kids \in Trees /\ \A x \in CategoryId : Kids[x] = ChildrenOf(x)
  BY DEF Kids, Trees, ChildrenOf
<1>2. ASSUME NEW found \in SUBSET CategoryId
      PROVE  WithTheirChildren(found) <=> Closed(Kids, found)
  BY <1>1 DEF WithTheirChildren, Closed
<1>3. ASSUME NEW i \in CategoryId
      PROVE  Descendants(i) = Below(Kids, i)
  BY <1>1, <1>2 DEF Descendants, Below
<1> QED
  BY <1>1, <1>3

\* Children are those of the rows.
LEMMA SameKids == UNCHANGED categories => Kids' = Kids
BY DEF Kids, ChildrenOf, Known

\* A request that begins and overlaps with none it would disturb.
LEMMA BeginsApart ==
    ASSUME NEW s \in CategorySession, NEW r, CategoryBegins(s, r), overlapped' = {}
    PROVE  /\ overlapped = {} /\ catRequest[s] = NoCatRequest
           /\ \A o \in CategorySession \ {s} : catRequest[o] # NoCatRequest =>
                  ~Changing(catRequest[o]) /\ ~Changing(r) /\ catRequest[o].root # r.root
           /\ catRequest' = With(catRequest, s, r)
<1>1. overlapped = {} /\ Overlaps(s, r) = {}
  BY DEF CategoryBegins
<1>2. ASSUME NEW o \in CategorySession \ {s}, catRequest[o] # NoCatRequest
      PROVE  ~Changing(catRequest[o]) /\ ~Changing(r) /\ catRequest[o].root # r.root
  BY <1>1, <1>2 DEF Overlaps
<1>3. catRequest[s] = NoCatRequest /\ catRequest' = With(catRequest, s, r)
  BY DEF CategoryBegins, With
<1> QED
  BY <1>1, <1>2, <1>3

\* At the start nothing is cached and nothing asked for.
LEMMA CategoryInit == InitCategories => CategoryInv
<1> SUFFICES ASSUME InitCategories
             PROVE  Answers /\ Fits(Kids, catCache, catRequest)
  BY DEF CategoryInv
<1>1. Answers
  BY DEF InitCategories, Answers, NoAnswer
<1>2. PICK kids \in Trees : kids = Kids
  BY KidsAre
<1>3. catCache \in Caches /\ \A c, i \in CategoryId : catCache[<<c, i>>] = Uncached
  BY DEF InitCategories, Caches, Uncached
<1>4. /\ catRequest \in CategoryRequests
      /\ \A s \in CategorySession : catRequest[s] = NoCatRequest /\ catRequest[s].op # "search"
  BY DEF InitCategories, CategoryRequests, NoCatRequest
<1>5. Apart(catRequest)
  BY <1>4 DEF Apart
<1>6. Fits(kids, catCache, catRequest)
  BY <1>3, <1>4, <1>5, EmptyCacheFits
<1> QED
  BY <1>1, <1>2, <1>6

\* A search begins.
LEMMA SearchKeeps ==
    ASSUME CategoryInv, NEW s \in CategorySession, NEW root \in SearchedRoots,
           Search(s, root)
    PROVE  CategoryInv'
<1> SUFFICES ASSUME overlapped' = {}
             PROVE  Answers' /\ Fits(Kids, catCache, catRequest)'
  BY DEF CategoryInv
<1>1. root \in CategoryId
  BY CategoryAssumption
<1>2. PICK stack : stack = IF catCache[<<root, root>>] = Uncached THEN <<Frame(root)>>
                           ELSE <<>>
  OBVIOUS
<1>3. PICK r : r = [op |-> "search", root |-> root, found |-> catCache[<<root, root>>].found,
                    stack |-> stack]
  OBVIOUS
<1>4. CategoryBegins(s, r) /\ UNCHANGED <<categories, catCache, answered>>
  BY <1>2, <1>3 DEF Search, CacheKey
<1>5. /\ overlapped = {} /\ catRequest[s] = NoCatRequest
      /\ \A o \in CategorySession \ {s} : catRequest[o] # NoCatRequest =>
             ~Changing(catRequest[o]) /\ ~Changing(r) /\ catRequest[o].root # r.root
      /\ catRequest' = With(catRequest, s, r)
  BY <1>4, BeginsApart
<1>6. PICK kids \in Trees : kids = Kids
  BY KidsAre
<1>7. PICK cache : cache = catCache
  OBVIOUS
<1>8. PICK req : req = catRequest
  OBVIOUS
<1>9. Fits(kids, cache, req)
  BY <1>5, <1>6, <1>7, <1>8 DEF CategoryInv
<1>10. PICK new : new = With(req, s, r)
  OBVIOUS
<1>11. Fits(kids, cache, new)
  <2>1. stack = IF cache[<<root, root>>] = Uncached THEN <<Frame(root)>> ELSE <<>>
    BY <1>2, <1>7
  <2>2. r = [op |-> "search", root |-> root, found |-> cache[<<root, root>>].found,
             stack |-> stack]
    BY <1>3, <1>7
  <2>3. /\ req[s] = NoCatRequest
        /\ \A o \in CategorySession \ {s} : req[o] # NoCatRequest =>
               ~Changing(req[o]) /\ ~Changing(r) /\ req[o].root # r.root
    BY <1>5, <1>8
  <2> QED
    BY <1>1, <1>9, <1>10, <2>1, <2>2, <2>3, SearchFits
<1>12. Kids' = kids /\ catCache' = cache /\ catRequest' = new
  BY <1>4, <1>5, <1>6, <1>7, <1>8, <1>10, SameKids
<1>13. Answers'
  BY <1>4, <1>5 DEF CategoryInv, Answers
<1> QED
  BY <1>11, <1>12, <1>13

\* A search asks for the children of a category.
LEMMA QueryKeeps ==
    ASSUME CategoryInv, NEW s \in CategorySession, Query(s)
    PROVE  CategoryInv'
<1> SUFFICES ASSUME overlapped' = {}
             PROVE  Answers' /\ Fits(Kids, catCache, catRequest)'
  BY DEF CategoryInv
<1>1. overlapped = {} /\ UNCHANGED <<categories, answered>>
  BY DEF Query
<1>2. PICK kids \in Trees : kids = Kids /\ \A x \in CategoryId : kids[x] = ChildrenOf(x)
  BY KidsAre
<1>3. PICK cache : cache = catCache
  OBVIOUS
<1>4. PICK req : req = catRequest
  OBVIOUS
<1>5. Fits(kids, cache, req)
  BY <1>1, <1>2, <1>3, <1>4 DEF CategoryInv
<1>6. cache \in Caches /\ req \in CategoryRequests
  BY <1>5 DEF Fits
<1>7. req[s].op = "search" /\ req[s].stack # <<>> /\ ~Head(req[s].stack).asked
  BY <1>4 DEF Query
<1>8. PICK r \in Searches : r = req[s]
  BY <1>6, <1>7, RequestKinds
<1>9. Walks(kids, r)
  BY <1>5, <1>7, <1>8 DEF Fits
<1>10. PICK c : c = Head(r.stack).category
  OBVIOUS
<1>11. c \in CategoryId
  <2>1. PICK w \in Seq(Frames) : w = r.stack
    BY DEF Searches
  <2>2. PICK f \in Frames : f = Head(w)
    BY <1>7, <1>8, <2>1
  <2> QED
    BY <1>10, <2>1, <2>2 DEF Frames
<1>12. PICK q : q = Asked(kids, r)
  OBVIOUS
<1>13. Unfound(kids, r) = ChildrenOf(c) \ (r.found \cup {c, r.root})
  BY <1>2, <1>10, <1>11 DEF Unfound
<1>14. /\ q \in Searches /\ Walks(kids, q) /\ q.root = r.root
       /\ q.stack # <<>> /\ q.found = r.found \cup Unfound(kids, r)
  <2>1. r.stack # <<>> /\ ~Head(r.stack).asked
    BY <1>7, <1>8
  <2> QED
    BY <1>9, <1>12, <2>1, QueryWalks
<1>16. catRequest' = With(req, s, q)
  BY <1>4, <1>8, <1>10, <1>12, <1>13 DEF Query, With, Asked
<1>17. PICK filled : filled = [k \in DOMAIN cache |->
           IF cache[k].by = s THEN [cache[k] EXCEPT !.found = q.found] ELSE cache[k]]
  OBVIOUS
<1>18. catCache' = filled
  BY <1>3, <1>4, <1>8, <1>10, <1>13, <1>14, <1>17 DEF Query, CacheFound
<1>19. q.found \in SUBSET CategoryId
  BY <1>14 DEF Searches
<1>20. /\ filled \in Caches
       /\ \A a, i \in CategoryId :
              IF cache[<<a, i>>].by = s
              THEN filled[<<a, i>>].by = s /\ filled[<<a, i>>].found = q.found
              ELSE filled[<<a, i>>] = cache[<<a, i>>]
  BY <1>6, <1>17, <1>19 DEF Caches
<1>21. PICK new : new = With(req, s, q)
  OBVIOUS
<1>22. Fits(kids, filled, new)
  <2>1. q.root = req[s].root /\ req[s].found \subseteq q.found
    BY <1>8, <1>14
  <2>2. q \in Searches /\ Walks(kids, q) /\ q.stack # <<>>
    BY <1>14
  <2>3. req[s].op = "search" /\ req[s].stack # <<>>
    BY <1>7
  <2> QED
    BY <1>5, <1>20, <1>21, <2>1, <2>2, <2>3, GoingOnFits
<1>23. Kids' = kids
  BY <1>1, <1>2, SameKids
<1>24. Answers'
  BY <1>1 DEF CategoryInv, Answers
<1> QED
  BY <1>16, <1>18, <1>21, <1>22, <1>23, <1>24

\* The call for a child: a cached set means that its children are found.
LEMMA DescendKeeps ==
    ASSUME CategoryInv, NEW s \in CategorySession, Descend(s)
    PROVE  CategoryInv'
<1> SUFFICES ASSUME overlapped' = {}
             PROVE  Answers' /\ Fits(Kids, catCache, catRequest)'
  BY DEF CategoryInv
<1>1. overlapped = {} /\ UNCHANGED <<categories, answered, catCache>>
  BY DEF Descend
<1>2. PICK kids \in Trees : kids = Kids
  BY KidsAre
<1>3. PICK cache : cache = catCache
  OBVIOUS
<1>4. PICK req : req = catRequest
  OBVIOUS
<1>5. Fits(kids, cache, req)
  BY <1>1, <1>2, <1>3, <1>4 DEF CategoryInv
<1>6. cache \in Caches /\ req \in CategoryRequests /\ Owned(cache, req)
      /\ Cached(kids, cache, req)
  BY <1>5 DEF Fits
<1>7. req[s].op = "search" /\ req[s].stack # <<>> /\ Head(req[s].stack).asked
  BY <1>4 DEF Descend
<1>8. PICK r \in Searches : r = req[s]
  BY <1>6, <1>7, RequestKinds
<1>9. Walks(kids, r)
  BY <1>5, <1>7, <1>8 DEF Fits
<1>10. PICK child \in Head(r.stack).todo :
           catRequest' = [catRequest EXCEPT ![s].stack =
               IF catCache[<<child, r.root>>] = Uncached
               THEN <<Frame(child)>> \o ChildDone(r, child) ELSE ChildDone(r, child)]
  BY <1>4, <1>8 DEF Descend, ChildDone, CacheKey
<1>11. child \in CategoryId /\ r.root \in CategoryId
  <2>1. PICK w \in Seq(Frames) : w = r.stack
    BY DEF Searches
  <2>2. PICK f \in Frames : f = Head(w)
    BY <1>7, <1>8, <2>1
  <2> QED
    BY <1>10, <2>1, <2>2 DEF Frames, Searches
<1>12. PICK cached \in BOOLEAN : cached = (cache[<<child, r.root>>] # Uncached)
  OBVIOUS
<1>13. cached => kids[child] \subseteq r.found \cup {r.root}
  <2>1. OnTheWay(req, s, r.root)
    BY <1>7, <1>8 DEF OnTheWay
  <2> QED
    BY <1>6, <1>8, <1>11, <1>12, <2>1 DEF Cached
<1>14. PICK q : q = GoesOn(r, child, cached)
  OBVIOUS
<1>15. /\ q \in Searches /\ Walks(kids, q) /\ q.root = r.root
       /\ q.stack # <<>> /\ q.found = r.found
  <2>1. r.stack # <<>> /\ Head(r.stack).asked
    BY <1>7, <1>8
  <2> QED
    BY <1>9, <1>13, <1>14, <2>1, DescendWalks
<1>16. catRequest' = With(req, s, q)
  BY <1>3, <1>4, <1>8, <1>10, <1>12, <1>14 DEF With, GoesOn
<1>17. \A a, i \in CategoryId :
           IF cache[<<a, i>>].by = s
           THEN cache[<<a, i>>].by = s /\ cache[<<a, i>>].found = q.found
           ELSE cache[<<a, i>>] = cache[<<a, i>>]
  BY <1>6, <1>8, <1>15 DEF Owned
<1>18. PICK new : new = With(req, s, q)
  OBVIOUS
<1>19. Fits(kids, cache, new)
  <2>1. q.root = req[s].root /\ req[s].found \subseteq q.found
    BY <1>8, <1>15
  <2>2. q \in Searches /\ Walks(kids, q) /\ q.stack # <<>>
    BY <1>15
  <2>3. req[s].op = "search" /\ req[s].stack # <<>> /\ cache \in Caches
    BY <1>6, <1>7
  <2> QED
    BY <1>5, <1>17, <1>18, <2>1, <2>2, <2>3, GoingOnFits
<1>20. Kids' = kids /\ catCache' = cache
  BY <1>1, <1>2, <1>3, SameKids
<1>21. Answers'
  BY <1>1 DEF CategoryInv, Answers
<1> QED
  BY <1>16, <1>18, <1>19, <1>20, <1>21

\* A call that returns, with its result in the cache.
LEMMA ReturnKeeps ==
    ASSUME CategoryInv, NEW s \in CategorySession, Return(s)
    PROVE  CategoryInv'
<1> SUFFICES ASSUME overlapped' = {}
             PROVE  Answers' /\ Fits(Kids, catCache, catRequest)'
  BY DEF CategoryInv
<1>1. overlapped = {} /\ UNCHANGED <<categories, answered>>
  BY DEF Return
<1>2. PICK kids \in Trees : kids = Kids
  BY KidsAre
<1>3. PICK cache : cache = catCache
  OBVIOUS
<1>4. PICK req : req = catRequest
  OBVIOUS
<1>5. Fits(kids, cache, req)
  BY <1>1, <1>2, <1>3, <1>4 DEF CategoryInv
<1>6. req \in CategoryRequests
  BY <1>5 DEF Fits
<1>7. /\ req[s].op = "search" /\ req[s].stack # <<>> /\ Head(req[s].stack).asked
      /\ Head(req[s].stack).todo = {}
  BY <1>4 DEF Return
<1>8. PICK r \in Searches : r = req[s]
  BY <1>6, <1>7, RequestKinds
<1>9. Walks(kids, r)
  BY <1>5, <1>7, <1>8 DEF Fits
<1>10. PICK c : c = Head(r.stack).category
  OBVIOUS
<1>11. PICK q : q = Returned(r)
  OBVIOUS
<1>12. /\ q \in Searches /\ Walks(kids, q) /\ q.root = r.root
       /\ q.found = r.found /\ c \in CategoryId
       /\ kids[c] \subseteq r.found \cup {r.root}
       /\ q.stack = <<>> => c = r.root
  <2>1. r.stack # <<>> /\ Head(r.stack).asked /\ Head(r.stack).todo = {}
    BY <1>7, <1>8
  <2> QED
    BY <1>9, <1>10, <1>11, <2>1, ReturnWalks
<1>13. catRequest' = With(req, s, q)
  BY <1>4, <1>8, <1>11 DEF Return, With, Returned
<1>14. PICK filled : filled = [cache EXCEPT ![<<c, q.root>>] = [by |-> s, found |-> q.found]]
  OBVIOUS
<1>15. catCache' = filled
  BY <1>3, <1>4, <1>8, <1>10, <1>12, <1>14 DEF Return, CacheKey
<1>16. PICK new : new = With(req, s, q)
  OBVIOUS
<1>17. Fits(kids, filled, new)
  <2>1. q \in Searches /\ Walks(kids, q) /\ c \in CategoryId
    BY <1>12
  <2>2. q.root = req[s].root /\ q.found = req[s].found
    BY <1>8, <1>12
  <2>3. kids[c] \subseteq q.found \cup {q.root} /\ (q.stack = <<>> => c = q.root)
    BY <1>12
  <2>4. req[s].op = "search" /\ req[s].stack # <<>>
    BY <1>7
  <2> QED
    BY <1>5, <1>14, <1>16, <2>1, <2>2, <2>3, <2>4, ReturnFits
<1>18. Kids' = kids
  BY <1>1, <1>2, SameKids
<1>19. Answers'
  BY <1>1 DEF CategoryInv, Answers
<1> QED
  BY <1>13, <1>15, <1>16, <1>17, <1>18, <1>19

\* A search answers: what it has found is all that is below its root.
LEMMA AnswerKeeps ==
    ASSUME CategoryInv, NEW s \in CategorySession, Answer(s)
    PROVE  CategoryInv'
<1> SUFFICES ASSUME overlapped' = {}
             PROVE  Answers' /\ Fits(Kids, catCache, catRequest)'
  BY DEF CategoryInv
<1>1. overlapped = {} /\ UNCHANGED categories
  BY DEF Answer, Finishes
<1>2. PICK kids \in Trees :
          kids = Kids /\ \A i \in CategoryId : Descendants(i) = Below(kids, i)
  BY KidsAre
<1>3. PICK cache : cache = catCache
  OBVIOUS
<1>4. PICK req : req = catRequest
  OBVIOUS
<1>5. Fits(kids, cache, req)
  BY <1>1, <1>2, <1>3, <1>4 DEF CategoryInv
<1>6. cache \in Caches /\ req \in CategoryRequests
  BY <1>5 DEF Fits
<1>7. req[s].op = "search" /\ req[s].stack = <<>>
  BY <1>4 DEF Answer
<1>8. PICK r \in Searches : r = req[s]
  BY <1>6, <1>7, RequestKinds
<1>9. r.found = Descendants(r.root)
  <2>1. Walks(kids, r) /\ r.stack = <<>> /\ r.root \in CategoryId
    BY <1>5, <1>7, <1>8 DEF Fits, Searches
  <2> QED
    BY <1>2, <2>1, WalkEnds
<1>10. Answers'
  <2>1. answered' = [answered EXCEPT ![s] =
            [root |-> r.root, found |-> r.found, right |-> Descendants(r.root)]]
    BY <1>4, <1>8 DEF Answer
  <2> QED
    BY <1>1, <1>9, <2>1 DEF CategoryInv, Answers
<1>11. catRequest' = With(req, s, NoCatRequest)
  BY <1>4 DEF Answer, Finishes, With
<1>12. PICK left : left = [k \in DOMAIN cache |->
           IF cache[k].by = s THEN [cache[k] EXCEPT !.by = "nobody"] ELSE cache[k]]
  OBVIOUS
<1>13. catCache' = left
  BY <1>3, <1>12 DEF Answer
<1>14. /\ left \in Caches
       /\ \A c, i \in CategoryId :
              IF cache[<<c, i>>].by = s
              THEN /\ left[<<c, i>>].by = "nobody"
                   /\ left[<<c, i>>].found = cache[<<c, i>>].found
              ELSE left[<<c, i>>] = cache[<<c, i>>]
  BY <1>6, <1>12 DEF Caches
<1>15. PICK new : new = With(req, s, NoCatRequest)
  OBVIOUS
<1>16. Fits(kids, left, new)
  BY <1>5, <1>7, <1>14, <1>15, AnswerFits
<1>17. Kids' = kids
  BY <1>1, <1>2, SameKids
<1> QED
  BY <1>10, <1>11, <1>13, <1>15, <1>16, <1>17

\* The entries of the cache expire.
LEMMA ExpireKeeps ==
    ASSUME CategoryInv, Expire
    PROVE  CategoryInv'
<1> SUFFICES ASSUME overlapped' = {}
             PROVE  Answers' /\ Fits(Kids, catCache, catRequest)'
  BY DEF CategoryInv
<1>1. overlapped = {} /\ UNCHANGED <<categories, answered, catRequest>>
  BY DEF Expire
<1>2. PICK kids \in Trees : kids = Kids
  BY KidsAre
<1>3. Fits(kids, catCache, catRequest)
  BY <1>1, <1>2 DEF CategoryInv
<1>4. PICK req : req = catRequest
  OBVIOUS
<1>5. PICK cache : cache = catCache
  OBVIOUS
<1>6. PICK gone : gone = [k \in DOMAIN cache |-> Uncached]
  OBVIOUS
<1>7. gone \in Caches /\ \A c, i \in CategoryId : gone[<<c, i>>] = Uncached
  BY <1>3, <1>5, <1>6 DEF Fits, Caches, Uncached
<1>8. Fits(kids, gone, req)
  <2>1. /\ req \in CategoryRequests /\ Apart(req)
        /\ \A s \in CategorySession : req[s].op = "search" => Walks(kids, req[s])
    BY <1>3, <1>4 DEF Fits
  <2> QED
    BY <1>7, <2>1, EmptyCacheFits
<1>9. Kids' = kids /\ catCache' = gone /\ catRequest' = req
  BY <1>1, <1>2, <1>4, <1>5, <1>6, SameKids DEF Expire
<1>10. Answers'
  BY <1>1 DEF CategoryInv, Answers
<1> QED
  BY <1>8, <1>9, <1>10

\* A change begins.
LEMMA ChangeKeeps ==
    ASSUME CategoryInv, NEW s \in CategorySession, NEW r \in ChangeRequests, r.at = "flush",
           CategoryBegins(s, r), UNCHANGED <<categories, catCache, answered>>
    PROVE  CategoryInv'
<1> SUFFICES ASSUME overlapped' = {}
             PROVE  Answers' /\ Fits(Kids, catCache, catRequest)'
  BY DEF CategoryInv
<1>1. /\ overlapped = {} /\ catRequest[s] = NoCatRequest
      /\ \A o \in CategorySession \ {s} : catRequest[o] # NoCatRequest =>
             ~Changing(catRequest[o]) /\ ~Changing(r) /\ catRequest[o].root # r.root
      /\ catRequest' = With(catRequest, s, r)
  BY BeginsApart
<1>2. PICK kids \in Trees : kids = Kids
  BY KidsAre
<1>3. PICK cache : cache = catCache
  OBVIOUS
<1>4. PICK req : req = catRequest
  OBVIOUS
<1>5. Fits(kids, cache, req)
  BY <1>1, <1>2, <1>3, <1>4 DEF CategoryInv
<1>6. PICK new : new = With(req, s, r)
  OBVIOUS
<1>7. Fits(kids, cache, new)
  <2>1. /\ req[s] = NoCatRequest
        /\ \A o \in CategorySession \ {s} : req[o] # NoCatRequest =>
               ~Changing(req[o]) /\ ~Changing(r) /\ req[o].root # r.root
    BY <1>1, <1>4
  <2> QED
    BY <1>5, <1>6, <2>1, ChangeFits
<1>8. Kids' = kids /\ catCache' = cache /\ catRequest' = new
  BY <1>1, <1>2, <1>3, <1>4, <1>6, SameKids
<1>9. Answers'
  BY <1>1 DEF CategoryInv, Answers
<1> QED
  BY <1>7, <1>8, <1>9

\* POST, PUT and DELETE begin.
LEMMA WriteKeeps ==
    ASSUME CategoryInv, NEW s \in CategorySession, NEW i \in CategoryId,
           NEW p \in CategoryId \cup {Top},
           AddCategory(s, i, p) \/ UpdateCategory(s, i, p) \/ DeleteCategory(s, i)
    PROVE  CategoryInv'
<1>1. \A op \in {"add", "update", "delete"}, q \in CategoryId \cup {Top} :
          [op |-> op, id |-> i, parent |-> q, at |-> "flush"] \in ChangeRequests
  BY DEF ChangeRequests
<1>2. PICK r \in ChangeRequests :
          /\ r.at = "flush"
          /\ CategoryBegins(s, r) /\ UNCHANGED <<categories, catCache, answered>>
  <2>1. CASE AddCategory(s, i, p)
    BY <1>1, <2>1 DEF AddCategory
  <2>2. CASE UpdateCategory(s, i, p)
    BY <1>1, <2>2 DEF UpdateCategory
  <2>3. CASE DeleteCategory(s, i)
    BY <1>1, <2>3 DEF DeleteCategory
  <2> QED
    BY <2>1, <2>2, <2>3
<1> QED
  BY <1>2, ChangeKeeps

\* A change is flushed, and clears the cache.
LEMMA FlushKeeps ==
    ASSUME CategoryInv, NEW s \in CategorySession, Flush(s)
    PROVE  CategoryInv'
<1> SUFFICES ASSUME overlapped' = {}
             PROVE  Answers' /\ Fits(Kids, catCache, catRequest)'
  BY DEF CategoryInv
<1>1. overlapped = {} /\ UNCHANGED <<categories, answered>>
  BY DEF Flush
<1>2. PICK kids \in Trees : kids = Kids
  BY KidsAre
<1>3. PICK cache : cache = catCache
  OBVIOUS
<1>4. PICK req : req = catRequest
  OBVIOUS
<1>5. Fits(kids, cache, req)
  BY <1>1, <1>2, <1>3, <1>4 DEF CategoryInv
<1>6. Changing(req[s])
  BY <1>4 DEF Flush
<1>7. PICK cleared : cleared = [k \in DOMAIN cache |-> Uncached]
  OBVIOUS
<1>8. cleared \in Caches /\ \A c, i \in CategoryId : cleared[<<c, i>>] = Uncached
  BY <1>5, <1>7 DEF Fits, Caches, Uncached
<1>9. PICK new : new = [req EXCEPT ![s].at = "commit"]
  OBVIOUS
<1>10. Fits(kids, cleared, new)
  BY <1>5, <1>6, <1>8, <1>9, FlushFits
<1>11. Kids' = kids /\ catCache' = cleared /\ catRequest' = new
  BY <1>1, <1>2, <1>3, <1>4, <1>7, <1>9, SameKids DEF Flush
<1>12. Answers'
  BY <1>1 DEF CategoryInv, Answers
<1> QED
  BY <1>10, <1>11, <1>12

\* A change is committed: nothing is cached then.
LEMMA CommitKeeps ==
    ASSUME CategoryInv, NEW s \in CategorySession, Commit(s)
    PROVE  CategoryInv'
<1> SUFFICES ASSUME overlapped' = {}
             PROVE  Answers' /\ Fits(Kids, catCache, catRequest)'
  BY DEF CategoryInv
<1>1. /\ overlapped = {} /\ UNCHANGED <<catCache, answered>>
      /\ catRequest' = With(catRequest, s, NoCatRequest)
      /\ Changing(catRequest[s]) /\ catRequest[s].at = "commit"
  BY DEF Commit, Finishes, With
<1>2. PICK kids : kids = Kids
  OBVIOUS
<1>3. PICK cache : cache = catCache
  OBVIOUS
<1>4. PICK req : req = catRequest
  OBVIOUS
<1>5. Fits(kids, cache, req)
  BY <1>1, <1>2, <1>3, <1>4 DEF CategoryInv
<1>6. Kids' \in Trees
  BY DEF Kids, Trees, ChildrenOf
<1>7. PICK changed \in Trees : changed = Kids'
  BY <1>6
<1>8. PICK new : new = With(req, s, NoCatRequest)
  OBVIOUS
<1>9. Fits(changed, cache, new)
  <2>1. Changing(req[s]) /\ req[s].at = "commit"
    BY <1>1, <1>4
  <2> QED
    BY <1>5, <1>8, <2>1, CommitFits
<1>10. catCache' = cache /\ catRequest' = new
  BY <1>1, <1>3, <1>4, <1>8
<1>11. Answers'
  BY <1>1 DEF CategoryInv, Answers
<1> QED
  BY <1>7, <1>9, <1>10, <1>11

\* Every step keeps it.
LEMMA CategoryNext == CategoryInv /\ [NextCategories]_categoriesVars => CategoryInv'
<1> SUFFICES ASSUME CategoryInv, [NextCategories]_categoriesVars
             PROVE  CategoryInv'
  OBVIOUS
<1>1. ASSUME NEW s \in CategorySession, NEW root \in SearchedRoots, Search(s, root)
      PROVE  CategoryInv'
  BY <1>1, SearchKeeps
<1>2. ASSUME NEW s \in CategorySession, Query(s)
      PROVE  CategoryInv'
  BY <1>2, QueryKeeps
<1>3. ASSUME NEW s \in CategorySession, Descend(s)
      PROVE  CategoryInv'
  BY <1>3, DescendKeeps
<1>4. ASSUME NEW s \in CategorySession, Return(s)
      PROVE  CategoryInv'
  BY <1>4, ReturnKeeps
<1>5. ASSUME NEW s \in CategorySession, Answer(s)
      PROVE  CategoryInv'
  BY <1>5, AnswerKeeps
<1>6. ASSUME NEW s \in CategorySession, NEW i \in CategoryId,
             NEW p \in CategoryId \cup {Top},
             AddCategory(s, i, p) \/ UpdateCategory(s, i, p) \/ DeleteCategory(s, i)
      PROVE  CategoryInv'
  BY <1>6, WriteKeeps
<1>7. ASSUME NEW s \in CategorySession, Flush(s)
      PROVE  CategoryInv'
  BY <1>7, FlushKeeps
<1>8. ASSUME NEW s \in CategorySession, Commit(s)
      PROVE  CategoryInv'
  BY <1>8, CommitKeeps
<1>9. ASSUME Expire
      PROVE  CategoryInv'
  BY <1>9, ExpireKeeps
<1>10. ASSUME UNCHANGED categoriesVars
       PROVE  CategoryInv'
  BY <1>10, SameKids DEF categoriesVars, CategoryInv, Answers
<1> QED
  BY <1>1, <1>2, <1>3, <1>4, <1>5, <1>6, <1>7, <1>8, <1>9, <1>10 DEF NextCategories

\* The cache of subcategories stays current: as long as no request overlaps with a
\* change and no two searches are of the same root, a search answers all that is
\* below its root when it answers, from the cache or not, for any tree (cycles
\* too), any searches of different roots at a time and any expiry
\* (recursive_subcategory_search, clear_child_categories_cache).
THEOREM CacheStaysCurrent == CategoriesSpec => []CacheIsCurrent
<1>1. CategoryInv => CacheIsCurrent
  BY DEF CategoryInv, CacheIsCurrent, Answers
<1> QED
  BY <1>1, CategoryInit, CategoryNext, PTL DEF CategoriesSpec

=============================================================================
