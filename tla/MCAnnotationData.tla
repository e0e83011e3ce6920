--------------------------- MODULE MCAnnotationData ---------------------------
(***************************************************************************)
(* Small instances, for TLC, of the revisions of a file, of the            *)
(* distribution of a job, of the agreement of its annotators, of the       *)
(* categories, of the index of the search service, and of the tasks of     *)
(* three jobs whose requests do not overlap: one whose manager makes any   *)
(* two calls, one that is started again while two users work on it, and    *)
(* one of extensive coverage.  A behaviour is one of these, chosen at its  *)
(* start; the others keep their initial values.                            *)
(***************************************************************************)
EXTENDS Categories, Integers, FiniteSets, TLC

CONSTANTS
    Parts,  \* the parts to check
    s1, s2, \* two concurrent requests, which are interchangeable
    w1      \* the only thread that serves requests for tasks

Interchangeable == Permutations({s1, s2})

VARIABLES
    part,
    extensive, docs, started, finished, objects, manifest, saveRequest, clock, saves,
    crossing, unstored, brought, snapshots, refused, revFaults,
    crew, status, tasks, given, answer, patched,
    enabled, standing, drawn, firsts, metrics, ended, agreed, cut, agreementFaults,
    written, unsent, topic, position, committed, harvest, harvests, visible, fresh,
    crashes, missed, blurred,
    rows, names, titles, stats, query, writes, queries, renames, opened,
    told,
    table, files, load, job, reported, req, admin

revisionsVars == <<extensive, docs, started, finished, objects, manifest, saveRequest,
                   clock, saves, crossing, unstored, brought, snapshots, refused, revFaults>>
redistributionVars == <<crew, status, tasks, given, answer, patched>>
agreementVars == <<enabled, standing, drawn, firsts, metrics, ended, agreed, cut,
                   agreementFaults>>
searchVars == <<written, unsent, topic, position, committed, harvest, harvests,
                visible, fresh, crashes, missed, blurred>>
queriesVars == <<rows, names, titles, stats, query, writes, queries, renames, opened,
                 told>>
tasksVars == <<table, files, load, job, reported, req, admin>>

-----------------------------------------------------------------------------
Body(pages, validated, failed) ==
    [pages |-> pages, validated |-> validated, failed |-> failed, categories |-> {}]

R == INSTANCE Revisions WITH
        RevUser <- {"a", "v"}, RevPage <- {1, 2}, RevSession <- {s1, s2},
        RevTask <- [a |-> [pages |-> {1}, validation |-> FALSE],
                    v |-> [pages |-> {1, 2}, validation |-> TRUE]],
        UserSaves <- [a |-> {Body(1 :> "x", {}, {})}, v |-> {Body(2 :> "y", {1}, {2})}],
        PipelineSaves <- {Body(1 :> "z", {}, {})},
        MaxSaves <- 3, RevFaults <- {"assets", "s3", "crash"}, MaxRevFaults <- 1

-----------------------------------------------------------------------------
FilesOf(counts) == [k \in DOMAIN counts |-> [id |-> k, left |-> 1 .. counts[k]]]
AnyFiles == {FilesOf(c) : c \in [{1} -> 1 .. 4] \cup [1 .. 2 -> 1 .. 3]}

Names(ids, overall) == [k \in DOMAIN ids |-> [id |-> ids[k], overall |-> overall[k]]]
Idle(ids) == Names(ids, [k \in DOMAIN ids |-> 0])
Annotators(n) == {Names(SubSeq(<<"a", "b", "c">>, 1, n), o) : o \in [1 .. n -> {0, 3}]}
Validators(n) == {Names(SubSeq(<<"v", "w">>, 1, n), o) : o \in [1 .. n -> {0, 1}]}

Crews(type, sequences, annotators, validators, coverage, followed) ==
    {[type |-> type, files |-> f, annotators |-> a, validators |-> w,
      coverage |-> coverage, followed |-> followed] :
        f \in sequences, a \in annotators, w \in validators}

\* Jobs that are posted, for what their distribution gives.
NewJobs ==
    Crews("hierarchical", AnyFiles, UNION {Annotators(n) : n \in 1 .. 3}, Validators(1),
          1, FALSE)
    \cup Crews("hierarchical", AnyFiles, Annotators(1), Validators(2), 1, FALSE)
    \cup Crews("hierarchical", {FilesOf(<<3>>)}, {Idle(<<"a", "b", "c", "d", "e">>)},
               Validators(1), 1, FALSE)
    \cup Crews("validation_only", AnyFiles, {<<>>}, Validators(1) \cup Validators(2),
               1, FALSE)
    \cup Crews("cross", AnyFiles, Annotators(2) \cup Annotators(3), {<<>>}, 1, FALSE)
    \cup Crews("extensive_coverage", AnyFiles, Annotators(2) \cup Annotators(3),
               Validators(1), 2, FALSE)

\* Jobs that are worked on and changed.
ChangedJobs ==
    Crews("hierarchical", {FilesOf(<<3>>), FilesOf(<<1, 2>>)}, {Idle(<<"a", "b">>)},
          {Idle(<<"v">>)}, 1, TRUE)
    \cup Crews("cross", {FilesOf(<<3>>), FilesOf(<<1, 2>>)}, {Idle(<<"a", "b">>)},
               {<<>>}, 1, TRUE)
    \cup Crews("extensive_coverage", {FilesOf(<<2>>)}, {Idle(<<"a", "b">>)},
               {Idle(<<"v">>)}, 2, TRUE)
    \cup Crews("validation_only", {FilesOf(<<2>>)}, {<<>>}, {Idle(<<"v">>)}, 1, TRUE)

Change(fields, annotators, validators, coverage, added) ==
    [fields |-> fields, annotators |-> Idle(annotators), validators |-> Idle(validators),
     coverage |-> coverage, files |-> added]

Changes ==
    {Change({}, <<>>, <<>>, 1, <<>>), Change({"coverage"}, <<>>, <<>>, 1, <<>>),
     Change({"files"}, <<>>, <<>>, 1, <<[id |-> 3, left |-> {1, 2}]>>)}
    \cup {Change({"annotators"}, a, <<>>, 1, <<>>) :
              a \in {<<"a">>, <<"b", "a">>, <<"a", "c">>, <<"b", "c", "a">>}}
    \cup {Change({"validators"}, <<>>, w, 1, <<>>) : w \in {<<"w">>, <<"v", "w">>}}
    \cup {Change({"annotators", "validators"}, <<"a", "c">>, <<"v">>, 1, <<>>)}
    \cup {Change({"annotators", "validators", "coverage"}, a, <<"v">>, n, <<>>) :
              a \in {<<"a", "c">>, <<"a", "b", "c">>}, n \in 1 .. 3}

D == INSTANCE Redistribution WITH
        MaxPages <- 2, Posted <- NewJobs \cup ChangedJobs, Patches <- Changes,
        MaxPatches <- 1

-----------------------------------------------------------------------------
Task(file, validation, pages) == [file |-> file, validation |-> validation, pages |-> pages]
Drawing(pages, validated, cats) ==
    [pages |-> pages, validated |-> validated, categories |-> cats]

\* Two users annotate both pages of file f, which are then validated; file g is
\* annotated once.
A == INSTANCE Agreement WITH
        TaskOf <- <<Task("f", FALSE, {1, 2}), Task("f", FALSE, {1, 2}),
                    Task("f", TRUE, {1, 2}), Task("g", FALSE, {1})>>,
        Drawings <- {Drawing(1 :> <<"a">>, {}, {}),
                     Drawing(1 :> <<"b", "a">> @@ 2 :> <<"a">>, {}, {"c"}),
                     Drawing(1 :> <<"b">>, {2}, {"c"})},
        MaxDrawings <- 2, Coverage <- 2, Score <- {0, 1}, MinMatch <- 1,
        AgreementFaults <- {"score", "callback"}, MaxAgreementFaults <- 1

-----------------------------------------------------------------------------
\* Two files of one job and two jobs whose ids begin alike.
E == INSTANCE SearchIndex WITH
        Pair <- {<<1, 1>>, <<1, 12>>, <<12, 1>>}, Begins <- {<<1, 12>>},
        MaxChanges <- 2, MaxHarvests <- 2, MaxCrashes <- 1,
        CategoryOf <- [f \in {1, 12} |-> IF f = 1 THEN "c" ELSE "d"],
        Below <- [c |-> {"d"}, d |-> {}, e |-> {}],
        Queries <- {[include |-> {[field |-> "category", values |-> {"c", "e"}]},
                     exclude |-> {}],
                    [include |-> {[field |-> "category", values |-> {"d", "e"}]},
                     exclude |-> {[field |-> "job_id", values |-> {12}]}],
                    [include |-> {[field |-> "job_id", values |-> {1}]},
                     exclude |-> {[field |-> "category", values |-> {"d"}]}]}

-----------------------------------------------------------------------------
\* A user with a task in each of two jobs, which share a file.
Q == INSTANCE TaskQueries WITH
        QueryUser <- {"x"}, QuerySession <- {s1, s2},
        FirstTasks <- <<"in_progress", "ready">>, TaskIds <- 1 .. 3,
        OwnerOf <- <<"x", "x", "x">>, JobOf <- <<1, 2, 1>>,
        FilesIn <- <<{1}, {1}>>, PageSize <- 1,
        MaxWrites <- 2, MaxQueries <- 2, MaxRenames <- 1

-----------------------------------------------------------------------------
Managed == INSTANCE AnnotationTasks WITH
               tasks <- table,
               TaskId <- 1 .. 3, File <- {1}, Page <- {1}, User <- {"a", "v"},
               Annotator <- {"a"}, Validator <- {"v"}, Owner <- {"v"},
               ValidationType <- "hierarchical", Coverage <- 1, Worker <- {w1},
               Interleave <- FALSE, MaxAdmin <- 2,
               AdminOps <- {"post", "update", "delete", "delete_batch", "distribute",
                            "unassigned"}

Restarted == INSTANCE AnnotationTasks WITH
                 tasks <- table,
                 TaskId <- 1 .. 3, File <- {1}, Page <- {1, 2}, User <- {"a", "b", "v"},
                 Annotator <- {"a", "b"}, Validator <- {"v"}, Owner <- {},
                 ValidationType <- "hierarchical", Coverage <- 1, Worker <- {w1},
                 Interleave <- FALSE, MaxAdmin <- 1,
                 AdminOps <- {"start", "post", "delete"}

Extensive == INSTANCE AnnotationTasks WITH
                 tasks <- table,
                 TaskId <- 1 .. 5, File <- {1}, Page <- {1}, User <- {"a", "b", "v"},
                 Annotator <- {"a", "b"}, Validator <- {"v"}, Owner <- {},
                 ValidationType <- "extensive_coverage", Coverage <- 2,
                 Worker <- {w1}, Interleave <- FALSE, AdminOps <- {}, MaxAdmin <- 0

-----------------------------------------------------------------------------
Init ==
    /\ part \in Parts /\ R!Init /\ D!Init /\ InitCategories /\ A!Init /\ E!Init
    /\ Q!Init
    /\ CASE part = "extensive" -> Extensive!Init
         [] part = "restarted" -> Restarted!Init
         [] OTHER -> Managed!Init
    /\ part = "revisions" \/ ~extensive
    /\ part = "agreement" \/ ~enabled

\* The other parts stand still.
Only(p) ==
    /\ part = p /\ UNCHANGED part
    /\ IF p = "revisions" THEN TRUE ELSE UNCHANGED revisionsVars
    /\ IF p = "redistribution" THEN TRUE ELSE UNCHANGED redistributionVars
    /\ IF p = "categories" THEN TRUE ELSE UNCHANGED categoriesVars
    /\ IF p = "agreement" THEN TRUE ELSE UNCHANGED agreementVars
    /\ IF p = "search" THEN TRUE ELSE UNCHANGED searchVars
    /\ IF p = "queries" THEN TRUE ELSE UNCHANGED queriesVars
    /\ IF p \in {"managed", "restarted", "extensive"} THEN TRUE
       ELSE UNCHANGED tasksVars

Next ==
    \/ Only("revisions") /\ R!Next
    \/ Only("redistribution") /\ D!Next
    \/ Only("categories") /\ NextCategories
    \/ Only("agreement") /\ A!Next
    \/ Only("search") /\ E!Next
    \/ Only("queries") /\ Q!Next
    \/ Only("managed") /\ Managed!Next
    \/ Only("restarted") /\ Restarted!Next
    \/ Only("extensive") /\ Extensive!Next

Spec == Init /\ [][Next]_<<part, revisionsVars, redistributionVars, categoriesVars,
                           agreementVars, searchVars, queriesVars, tasksVars>>

-----------------------------------------------------------------------------
(* Properties: those of the parts, CacheIsCurrent of Categories among them *)

\* The manifest in the object storage shows what the revisions do.
ManifestIsCurrent == part = "revisions" => R!ManifestIsCurrent

\* What is read at a revision is what was saved up to it, every page a revision
\* names is in the object storage, and the ways to read revisions agree; searches
\* and facets find the newest pages of the manifests.
ReadersAgree ==
    /\ part = "revisions" =>
           R!ReadsAreSnapshots /\ R!PagesAreStored /\ R!ReadersAgree
    /\ part = "search" =>
           E!NewestIsIndexed /\ E!OnlyNewestIsIndexed /\ E!FacetsCountHits
    /\ part = "queries" =>
           /\ Q!ProgressIsSound /\ Q!ListIsComplete /\ Q!JobsAreNamed
           /\ Q!ClosedWasOpened /\ Q!NextIsPreviousBack

\* A save that is no conflict makes the revision it answers with.
SaveReturnsRevision == part = "revisions" => R!SaveReturnsRevision

\* A new job has its pages annotated and validated as often as it is to have,
\* and nobody validates in it what he annotates; what is in no task is known.
EveryPageIsGiven ==
    part = "redistribution" =>
        D!EveryPageIsGiven /\ D!NobodyChecksHimself /\ D!UnassignedHaveNoTask

\* No change of a job leaves a page without its tasks, and validation waits for
\* annotation whatever changes are made.
ChangesKeepThePages ==
    part = "redistribution" => D!NoPageIsLost /\ D!ValidationWaits

\* Each user's load counts the pages of his unfinished tasks whatever the manager
\* does, and the job of extensive coverage is finished with its last task.
TasksAreCounted ==
    /\ part = "managed" => Managed!LoadIsRemainingWork
    /\ part = "extensive" => Extensive!JobFinishesWithItsTasks

\* The manager may start the job again, post a task or delete one: validation still
\* opens only where the pages are annotated.
RestartsKeepValidationClosed ==
    [][ part = "restarted" => Restarted!StartsValidation ]_<<part, tasksVars>>


\* Nobody gets more than twice the average load.
DispersionIsBounded == part = "redistribution" => D!DispersionIsBounded

\* Who stays with a job keeps the work he has begun.
WhoStaysKeepsHisWork ==
    [][ part = "redistribution" => D!KeepsWork ]_<<part, redistributionVars>>

=============================================================================
