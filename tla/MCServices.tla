------------------------------ MODULE MCServices ------------------------------
(***************************************************************************)
(* Small instances of Services for TLC, with two requests of each part     *)
(* that overlap and are interchangeable.                                   *)
(***************************************************************************)
EXTENDS Services, TLC

CONSTANTS s1, s2

Sessions == {s1, s2}
Interchangeable == Permutations(Sessions)

\* Jobs: one of extraction, one of annotation, and two of both.
ThreeUsers == Sessions \cup {"u3"}
SomeJobs ==
    {[type |-> "ExtractionJob", draft |-> FALSE, auto |-> FALSE],
     [type |-> "AnnotationJob", draft |-> FALSE, auto |-> FALSE],
     [type |-> "ExtractionWithAnnotationJob", draft |-> TRUE, auto |-> FALSE],
     [type |-> "ExtractionWithAnnotationJob", draft |-> FALSE, auto |-> TRUE]}
SomeChanges ==
    {[type |-> "ExtractionWithAnnotationJob", fields |-> "none"],
     [type |-> "none", fields |-> "categories"]}

\* Files: the number of the second begins with that of the first.
SomeUploads == {<<"zip", "", "tiff">>, <<"html">>}
SomeImports == {<<"pdf", "zip", "pdf">>, <<"zip">>}

\* Tenants: two administrators.
Callers ==
    {[client |-> "web", tenants |-> {"t2"}, roles |-> {"admin"}, current |-> "home"],
     [client |-> "web", tenants |-> {"home"}, roles |-> {"admin"}, current |-> "home"]}

\* Taxonomies: one request for links.
OneLink == {{[id |-> "a", version |-> 1, job |-> "j1", category |-> "c1"]}}

\* Pipelines of four steps in two branches, and of two steps side by side.
Branches == [top |-> <<"x">>,
             model |-> [x |-> "m1", y |-> "m1", z |-> "m2", v |-> "m1"],
             below |-> [x |-> <<"y", "v">>, y |-> <<"z">>, z |-> <<>>, v |-> <<>>]]
SideBySide == [top |-> <<"x", "y">>, model |-> [x |-> "m1", y |-> "m2"],
               below |-> [x |-> <<>>, y |-> <<>>]]
TwoTrees == {Branches, SideBySide}

\* What a step finds: one object, one that leads to another, one on each of two
\* pages of which the second leads to one that another step has to find.
Obj(id, keys, link, children) ==
    [id |-> id, keys |-> keys, link |-> link, children |-> children]
OneObject == <<[num |-> 1, objs |-> <<Obj("x", {"a"}, "none", <<>>)>>]>>
LinkedObjects == <<[num |-> 1, objs |-> <<Obj("y", {"b"}, "x", <<"x">>),
                                          Obj("x", {}, "none", <<>>)>>]>>
TwoPages == <<[num |-> 2, objs |-> <<Obj("x", {"b"}, "none", <<>>)>>],
              [num |-> 1, objs |-> <<Obj("z", {}, "none", <<"x">>)>>]>>
ThreeShapes == {OneObject, LinkedObjects, TwoPages}
TwoDirs == {[t |-> 1, u |-> 2], [t |-> 1, u |-> 12]}
TwoSteps == [t |-> <<13, 14>>, u |-> <<9, 10>>]

\* Up to three files, of one batch of pages and of two, in datasets that overlap
\* and one that does not exist.
PagesOfFour == <<1, 2, 3, 5>>
SomeRequests == {[datasets |-> <<1>>, files |-> <<4, 2>>],
                 [datasets |-> <<1, 2>>, files |-> <<1>>],
                 [datasets |-> <<2>>, files |-> <<2, 3, 4>>],
                 [datasets |-> <<1>>, files |-> <<1, 2, 3, 4>>]}

\* Files of one batch of pages and of two, with an id that assets does not have.
PagesOfTwo == <<1, 3>>
SomeRuns == {<<1, <<2>>>>, <<2, <<1>>>>, <<2, <<2, 1, 3>>>>}

\* The parts that are not chosen start in one way.
MCInit ==
    /\ Init
    /\ IF part = "trainings" THEN basements["b1"].archive /\ ~basements["b2"].archive
       ELSE ~(basements["b1"].row \/ basements["b2"].row)
    /\ part = "merging" \/ dirOf["u"] = 2
    /\ part = "tenants" \/ ~persons["u"].known
    /\ part = "files" \/ (1 \notin inAssets /\ members[1] = {})

\* Bound: three requests of users when no call fails, two when one does.
FewRequests == jobFaults' > 0 => Cardinality(asked') <= 2

MCSpec == MCInit /\ [][Next /\ FewRequests]_servicesVars

=============================================================================
