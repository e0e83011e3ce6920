------------------------------- MODULE Agreement -------------------------------
(***************************************************************************)
(* The end of a job of extensive coverage (annotation/tasks/resources.py,  *)
(* services.py, microservice_communication): several users annotate the    *)
(* same pages; when the last of them finishes a file their agreement may   *)
(* be measured, and what they have in common becomes the first revision of *)
(* its validation.  A request commits several times on its way: where it   *)
(* fails, what it has committed stays.  Failed pages and their tasks are   *)
(* in AnnotationTasks.                                                     *)
(***************************************************************************)
EXTENDS Naturals, FiniteSets, FiniteSetsExt, SequencesExt

CONSTANTS
    TaskOf,          \* function of task ids: [file, validation, pages]
    Drawings,        \* what an annotator may save: [pages, validated, categories],
                     \* pages a function to sequences of objects
    MaxDrawings,     \* bound on the saves of a task
    Coverage,        \* extensive_coverage
    Score, MinMatch, \* scores of two tasks; AGREEMENT_SCORE_MIN_MATCH
    AgreementFaults, \* "score", "callback": the service, or the job manager, fails
    MaxAgreementFaults

VARIABLES
    enabled,   \* AGREEMENT_SCORE_ENABLED
    standing,  \* status of each task
    drawn,     \* revisions of each task
    firsts,    \* first revision of each validation task, or NoFirst
    metrics,   \* agreement_metrics: <<task_from, task_to, score>>
    ended,     \* status of the job: here, and what the job manager was told
    agreed,    \* history: files whose annotators agreed
    cut,       \* history: files with a request that failed on its way
    agreementFaults

agreementVars == <<enabled, standing, drawn, firsts, metrics, ended, agreed, cut,
                   agreementFaults>>

NoFirst == [objs |-> <<>>]

Ids == DOMAIN TaskOf
Validation(t) == TaskOf[t].validation
Pages(t) == TaskOf[t].pages
SameFile(t) == {s \in Ids : TaskOf[s].file = TaskOf[t].file}
Annotations(t) == {s \in SameFile(t) : ~Validation(s)}

-----------------------------------------------------------------------------
(* What annotators have in common *)

\* find_all_revisions_pages: the revisions of a task with an entry for a page,
\* which one that only validates has when there is none before it.
Entries(t, p) ==
    {i \in DOMAIN drawn[t] :
        \/ p \in DOMAIN drawn[t][i].pages
        \/ /\ p \in drawn[t][i].validated
           /\ \A k \in 1 .. i - 1 : /\ p \notin DOMAIN drawn[t][k].pages
                                    /\ p \notin drawn[t][k].validated}

\* load_revisions: the objects of all revisions, and their categories.
Objects(t, p) ==
    FlattenSeq([i \in DOMAIN drawn[t] |->
                   IF p \in DOMAIN drawn[t][i].pages THEN drawn[t][i].pages[p] ELSE <<>>])
Categories(t, p) == UNION {drawn[t][i].categories : i \in Entries(t, p)}

\* The tasks that have something to say of a page.
Sayers(annotations, p) == {t \in annotations : Entries(t, p) # {}}

\* get_annotation_tasks, with the task that is being finished.
FinishedWithin(v, now) ==
    {t \in Annotations(v) : now[t] = "finished" /\ Pages(t) \subseteq Pages(v)}

\* tasks[0] of a page on which the first task has no entry: KeyError.
FirstIsSilent(first, annotations, pages) ==
    \E p \in pages : Sayers(annotations, p) # {} /\ first \notin Sayers(annotations, p)


\* The objects of the first task which all of them have.
CommonObjects(first, sayers, p) ==
    SelectSeq(Objects(first, p), LAMBDA o : \A t \in sayers : Contains(Objects(t, p), o))

\* find_common_values
CommonValues(first, annotations, pages) ==
    LET said == {p \in pages : Sayers(annotations, p) # {}}
    IN  [objs |-> [p \in said |-> CommonObjects(first, Sayers(annotations, p), p)],
         categories |->
             {c \in UNION {Categories(t, p) : t \in annotations, p \in said} :
                 \A p \in said : \A t \in Sayers(annotations, p) : c \in Categories(t, p)}]

Nothing(common) ==
    common.categories = {} /\ \A p \in DOMAIN common.objs : common.objs[p] = <<>>

-----------------------------------------------------------------------------
(* Agreement *)

\* evaluate_agreement_score: the tasks it is measured of.
Compared(t) == {s \in Annotations(t) \ {t} : Pages(s) \cap Pages(t) # {}} \cup {t}

\* get_unique_scores: of (1, 2, x) and (2, 1, x) the first.
UniqueScores(scores) ==
    {<<pair[1], pair[2], scores[pair]>> : pair \in DOMAIN scores}

\* compare_agreement_scores, for every answer of the service.
Pairs(ids) == {pair \in ids \X ids : pair[1] < pair[2]}
Comparisons(t) == {UniqueScores(scores) : scores \in [Pairs(Compared(t)) -> Score]}
Reached(unique) == \A a \in unique : a[3] >= MinMatch

-----------------------------------------------------------------------------
(* A request that finishes a task: its state [standing, firsts, metrics,   *)
(* ended, agreed] now, and as it was last committed.                       *)

Rows(now) == [standing |-> now, firsts |-> firsts, metrics |-> metrics,
              ended |-> ended, agreed |-> agreed]

Stopped(a) == [a EXCEPT !.ok = FALSE]
Committed(a) == [a EXCEPT !.kept = a.now]

\* save_agreement_metrics; the key of a row is its two tasks.
Stored(a, unique) ==
    IF \E m \in a.now.metrics, n \in unique : m[1] = n[1] /\ m[2] = n[2]
    THEN Stopped(a)
    ELSE Committed([a EXCEPT !.now.metrics = @ \cup unique])

\* update_job_status, then the job's own status.
JobTold(a) ==
    {[a EXCEPT !.now.ended = [job |-> TRUE, told |-> TRUE],
               !.kept.ended.told = TRUE]}
    \cup IF "callback" \in AgreementFaults THEN {[Stopped(a) EXCEPT !.fault = TRUE]}
         ELSE {}

Failing(a, fault) ==
    IF fault \in AgreementFaults THEN {[Stopped(a) EXCEPT !.fault = TRUE]} ELSE {}

\* A validation task of a job of extensive coverage is compared, too.
CompareValidation(a, t) ==
    IF ~Validation(t) \/ ~enabled \/ Coverage < 2 THEN {a}
    ELSE Failing(a, "score") \cup {Stored(a, unique) : unique \in Comparisons(t)}

\* finish_validation_task
ValidationFinished(a, t) ==
    Committed([a EXCEPT
        !.now.standing = [s \in Ids |-> IF s \in SameFile(t) \ Annotations(t)
                                        THEN "finished" ELSE @[s]],
        !.now.agreed = @ \cup {TaskOf[t].file}])

AllAnnotated_OfOthers(t) ==
    \A s \in Annotations(t) \ {t} : standing[s] # "pending"

\* len(finished_annotation_tasks) + current_task == annotated_count
AllAnnotated(t) == \A s \in Annotations(t) \ {t} : standing[s] = "finished"

\* The agreement of a file ends the job.
CompareAnnotations(a, t) ==
    IF ~enabled \/ ~AllAnnotated(t) THEN {a}
    ELSE Failing(a, "score") \cup
         UNION {IF Reached(unique)
                THEN {IF b.ok THEN Stored(b, unique) ELSE b :
                         b \in JobTold(ValidationFinished(a, t))}
                ELSE {Stored(a, unique)} : unique \in Comparisons(t)}

\* The two counts of the tasks of the job, and what follows from them.
CompareOrEnd(a, t) ==
    IF \A s \in Ids \ {t} : standing[s] = "finished" THEN JobTold(a)
    ELSE CompareAnnotations(a, t)

\* Pages annotated as often as they are to be.
FinishedPages(t) ==
    {p \in Pages(t) \cup UNION {Pages(s) : s \in Annotations(t)} :
        Cardinality({s \in Annotations(t) \ {t} : standing[s] = "finished" /\ p \in Pages(s)}
                    \cup ({t} \cap {s \in {t} : p \in Pages(s)})) = Coverage}

\* unblock_validation_tasks
ToUnblock(a, t) ==
    IF Validation(t) THEN {}
    ELSE {v \in SameFile(t) \ Annotations(t) :
             a.now.standing[v] = "pending" /\ Pages(v) \subseteq FinishedPages(t)}

\* create_validation_revisions for one task: the row, then its status.
FirstRevision(a, v) ==
    LET annotations == FinishedWithin(v, a.now.standing)
        made(first) == CommonValues(first, annotations, Pages(v))
    IN  IF ~a.ok \/ annotations = {} THEN {a}
        ELSE {IF FirstIsSilent(first, annotations, Pages(v)) THEN Stopped(a)
              ELSE IF Nothing(made(first)) THEN a
              ELSE Committed([a EXCEPT !.now.firsts[v] = made(first),
                                       !.now.standing[v] = "in_progress"]) :
                 first \in annotations}

\* The tasks are unblocked at once, their revisions made one after the other.
Unblock(a, t) ==
    LET unblocked == ToUnblock(a, t)
        ready == [a EXCEPT !.now.standing =
                     [s \in Ids |-> IF s \in unblocked THEN "ready" ELSE @[s]]]
    IN  FoldLeft(LAMBDA all, v : UNION {FirstRevision(b, v) : b \in all}, {ready},
                 SetToSortSeq(unblocked, <))

\* POST /tasks/{id}/finish
FinishTask(t) ==
    /\ standing[t] = "in_progress"
    /\ LET begun == [now |-> Rows([standing EXCEPT ![t] = "finished"]),
                     kept |-> Rows(standing), ok |-> TRUE, fault |-> FALSE]
           compared == CompareValidation(begun, t)
           counted == UNION {IF a.ok THEN CompareOrEnd(a, t) ELSE {a} : a \in compared}
           unblocked == UNION {IF a.ok THEN Unblock(a, t) ELSE {a} : a \in counted}
       IN  \E a \in unblocked : \E rows \in {IF a.ok THEN a.now ELSE a.kept} :
               /\ a.fault => agreementFaults < MaxAgreementFaults
               /\ agreementFaults' = IF a.fault THEN agreementFaults + 1
                                     ELSE agreementFaults
               /\ standing' = rows.standing /\ firsts' = rows.firsts
               /\ metrics' = rows.metrics /\ ended' = rows.ended
               /\ agreed' = rows.agreed
               /\ cut' = IF a.ok \/ rows.standing = standing THEN cut
                         ELSE cut \cup {TaskOf[t].file}
    /\ UNCHANGED <<enabled, drawn>>

\* POST /annotation/{task_id}: the first save of a task starts it.
Draw(t, drawing) ==
    /\ ~Validation(t) /\ standing[t] \in {"ready", "in_progress"}
    /\ DOMAIN drawing.pages \cup drawing.validated \subseteq Pages(t)
    /\ Len(drawn[t]) < MaxDrawings
    /\ standing' = [standing EXCEPT ![t] = "in_progress"]
    /\ drawn' = [drawn EXCEPT ![t] = Append(@, drawing)]
    /\ UNCHANGED <<enabled, firsts, metrics, ended, agreed, cut, agreementFaults>>

\* A validator who saves starts his task.
BeginValidation(v) ==
    /\ Validation(v) /\ standing[v] = "ready"
    /\ standing' = [standing EXCEPT ![v] = "in_progress"]
    /\ UNCHANGED <<enabled, drawn, firsts, metrics, ended, agreed, cut, agreementFaults>>

-----------------------------------------------------------------------------
Init ==
    /\ enabled \in BOOLEAN
    /\ standing = [t \in Ids |-> IF Validation(t) THEN "pending" ELSE "ready"]
    /\ drawn = [t \in Ids |-> <<>>]
    /\ firsts = [t \in Ids |-> NoFirst]
    /\ metrics = {} /\ agreed = {} /\ cut = {}
    /\ ended = [job |-> FALSE, told |-> FALSE]
    /\ agreementFaults = 0

Next ==
    \E t \in Ids : \/ \E drawing \in Drawings : Draw(t, drawing)
                   \/ BeginValidation(t) \/ FinishTask(t)

Spec == Init /\ [][Next]_agreementVars

-----------------------------------------------------------------------------
(* Properties *)

\* What an annotator has on a page at last, if anything.
LastObjects(t, p) ==
    LET own == {i \in DOMAIN drawn[t] : p \in DOMAIN drawn[t][i].pages}
    IN  IF own = {} THEN {} ELSE ToSet(drawn[t][Max(own)].pages[p])

\* The first revision of a validation task has what all annotators of a page
\* have on it at last, and nothing that one of them never had
\* (create_validation_revisions); one that has never looked at the page is
\* not asked.
FirstRevisionIsCommon ==
    \A v \in Ids : firsts[v] # NoFirst =>
        \A p \in DOMAIN firsts[v].objs :
            LET sayers == Sayers(FinishedWithin(v, standing), p)
            IN  /\ \A o \in UNION {LastObjects(t, p) : t \in sayers} :
                       (\A t \in sayers : o \in LastObjects(t, p))
                           => Contains(firsts[v].objs[p], o)
                /\ \A o \in ToSet(firsts[v].objs[p]) : \A t \in sayers :
                       Contains(Objects(t, p), o)

\* A job is finished when its tasks are, or when the annotators of one of its
\* files agree; it is finished here only if the job manager was told.
JobEndsWithItsTasks ==
    /\ ended.job => ended.told
    /\ ended.told => (\A t \in Ids : standing[t] = "finished") \/ agreed # {}
                         \/ agreementFaults > 0

\* The validation of a file that is annotated can begin, unless the request
\* that finished the last annotation stopped on its way.
ValidationBegins ==
    \A v \in Ids : Validation(v) /\ TaskOf[v].file \notin cut =>
        ( (\A t \in Annotations(v) : standing[t] = "finished") <=> standing[v] # "pending" )

=============================================================================
