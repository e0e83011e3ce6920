---------------------------- MODULE Redistribution ----------------------------
(***************************************************************************)
(* A job with auto distribution: its tasks are made when it is posted      *)
(* (post_job), worked on, and made anew when the job is changed            *)
(* (update_job, redistribute).  Who works on a task, and what a finished   *)
(* task leads to beyond the statuses below, is in AnnotationTasks.         *)
(*                                                                         *)
(* A crew is [type, annotators, validators, coverage, files], its users    *)
(* [id, overall] with the pages they have in other jobs.  A patch gives    *)
(* some of the fields "annotators", "validators", "coverage", "files".     *)
(***************************************************************************)
EXTENDS Distribution

CONSTANTS
    Posted,    \* the jobs that are posted; bound: only those with .followed are
               \* started and changed
    Patches,   \* the changes [fields, annotators, validators, coverage, files]
    MaxPatches \* bound: the changes of one job

VARIABLES
    crew,    \* the row of the job, without its status
    status,  \* its status; "none" before it is posted
    tasks,   \* its tasks, in the order of their ids
    given,   \* the rows of its files: the pages that count as distributed
    answer,  \* how the last request ended
    patched  \* how many changes there were

redistributionVars == <<crew, status, tasks, given, answer, patched>>

NoJob == [type |-> "none"]

Ids(users) == {users[i].id : i \in DOMAIN users}
Indices(Test(_)) == {i \in DOMAIN tasks : Test(tasks[i])}
Unfinished(rows, user) == SelectSeq(rows, LAMBDA t : t.user = user /\ t.status # "finished")

\* update_user_overall_load
Loaded(users, rows) ==
    [i \in DOMAIN users |->
        [users[i] EXCEPT !.overall =
            @ + SumOver(Unfinished(rows, users[i].id), LAMBDA t : Cardinality(t.pages))]]

\* create_tasks
Created(new) ==
    [i \in DOMAIN new |->
        [file |-> new[i].file, user |-> new[i].user, pages |-> new[i].pages,
         validation |-> new[i].validation, status |-> "pending"]]

\* recalculate_file_pages
PagesOfTasks(rows, file) ==
    [k \in BOOLEAN |-> UNION {rows[i].pages : i \in {j \in DOMAIN rows :
                                  rows[j].file = file /\ rows[j].validation = k}}]

\* The rows of new files: in a job of validation all pages count as annotated.
NewFiles(files, type) ==
    [k \in DOMAIN files |->
        [v \in BOOLEAN |-> IF ~v /\ type = "validation_only" THEN files[k].left ELSE {}]]

WithTasks_Last(rows, files, new) ==
    [k \in DOMAIN files |-> PagesOfTasks(new, files[k].id)]

\* update_files
WithTasks(rows, files, new) ==
    [k \in DOMAIN files |->
        [v \in BOOLEAN |-> rows[k][v] \cup PagesOfTasks(new, files[k].id)[v]]]

Init ==
    /\ crew = NoJob /\ status = "none" /\ tasks = <<>> /\ given = <<>>
    /\ answer = "none" /\ patched = 0

\* post_job: the tasks of a new job.
Post(x) ==
    /\ status = "none" /\ answer = "none"
    /\ \E result \in {Distribute(x.files, x.files, x.annotators, x.validators, x.type,
                                 x.coverage, <<>>)} :
           IF result.failed
           THEN answer' = "500" /\ UNCHANGED <<crew, status, tasks, given>>
           ELSE /\ crew' = x
                /\ status' = "pending"
                /\ tasks' = SubSeq(Created(result.tasks), 1, Len(result.tasks))
                /\ given' = WithTasks(NewFiles(x.files, x.type), x.files, tasks')
                /\ answer' = "ok"
    /\ UNCHANGED patched

\* start_job
Start ==
    /\ status = "pending" /\ crew.followed
    /\ status' = "in_progress"
    /\ tasks' = [i \in DOMAIN tasks |->
                    IF tasks[i].validation = (crew.type = "validation_only")
                    THEN [tasks[i] EXCEPT !.status = "ready"] ELSE tasks[i]]
    /\ UNCHANGED <<crew, given, answer, patched>>

FinishedOn(rows, file, p) ==
    Cardinality({i \in DOMAIN rows : /\ ~rows[i].validation /\ rows[i].file = file
                                     /\ rows[i].status = "finished" /\ p \in rows[i].pages})

\* The user of a task saves his first pages: update_task_status.
Begin(i) ==
    /\ status = "in_progress" /\ tasks[i].status = "ready"
    /\ tasks' = [tasks EXCEPT ![i].status = "in_progress"]
    /\ UNCHANGED <<crew, status, given, answer, patched>>

\* finish_task without its follow-ups: unblock_validation_tasks.
Finish(i) ==
    /\ tasks[i].status = "in_progress"
    /\ LET done == [tasks EXCEPT ![i].status = "finished"]
           unblocked(t) ==
               /\ ~tasks[i].validation
               /\ t.validation /\ t.status = "pending" /\ t.file = tasks[i].file
               /\ \A p \in t.pages : FinishedOn(done, t.file, p) = crew.coverage
       IN  /\ tasks' = [k \in DOMAIN done |->
                           IF unblocked(done[k]) THEN [done[k] EXCEPT !.status = "ready"]
                           ELSE done[k]]
           /\ status' = IF \A k \in DOMAIN done : done[k].status = "finished"
                        THEN "finished" ELSE status
    /\ UNCHANGED <<crew, given, answer, patched>>

-----------------------------------------------------------------------------
(* update_job *)

Gives(x, field) == field \in x.fields
NewUsers(x) ==
    (IF Gives(x, "annotators") THEN Ids(x.annotators) ELSE {})
    \cup (IF Gives(x, "validators") THEN Ids(x.validators) ELSE {})
CrewUsers(c) == Ids(c.annotators) \cup Ids(c.validators)

\* find_deleted_users: those of the job that the change does not name.
RemovedUsers(x) == CrewUsers(crew) \ NewUsers(x)

\* check_annotators, check_validators
Allowed(x) ==
    /\ Gives(x, "annotators") =>
           CASE crew.type = "cross" -> Len(x.annotators) > 1
             [] crew.type = "hierarchical" -> x.annotators # <<>>
             [] crew.type = "validation_only" -> x.annotators = <<>>
             [] OTHER -> TRUE
    /\ Gives(x, "validators") =>
           CASE crew.type = "cross" -> x.validators = <<>>
             [] crew.type \in {"hierarchical", "validation_only"} -> x.validators # <<>>
             [] OTHER -> TRUE

\* validate_job_extensive_coverage reads the annotators of the change even if
\* it has none.
CoverageAnswer(x) ==
    IF ~Gives(x, "coverage") THEN "ok"
    ELSE IF ~Gives(x, "annotators") THEN "500"
    ELSE IF Len(IF x.annotators # <<>> THEN x.annotators ELSE crew.annotators) < x.coverage
    THEN "400" ELSE "ok"

Patched(x) ==
    [crew EXCEPT !.annotators = IF Gives(x, "annotators") THEN x.annotators ELSE @,
                 !.validators = IF Gives(x, "validators") THEN x.validators ELSE @,
                 !.coverage = IF Gives(x, "coverage") THEN x.coverage ELSE @,
                 !.files = IF Gives(x, "files") THEN x.files ELSE @]

\* delete_tasks_for_removed_users keeps what they have finished.
Remaining(x) ==
    SelectSeq(tasks, LAMBDA t : t.user \notin RemovedUsers(x) \/ t.status = "finished")

\* add_users: those of them that are kept as users for it.
WithSaved(users, old, removed) ==
    users \o SelectSeq(old, LAMBDA u : /\ u.id \in removed \ Ids(users)
                                       /\ \E i \in DOMAIN tasks : /\ tasks[i].user = u.id
                                                   /\ tasks[i].status = "finished")

-----------------------------------------------------------------------------
(* redistribute *)

IsUnstarted(t) == t.status \in {"pending", "ready"}
IsStartedAnnotation(t) == ~IsUnstarted(t) /\ ~t.validation

\* get_tasks_to_delete: a validation task stays as soon as any annotation is
\* started, for the condition on its file and pages is a tuple.
ToDelete(rows, t) ==
    /\ IsUnstarted(t)
    /\ t.validation => ~\E i \in DOMAIN rows : IsStartedAnnotation(rows[i])

SetStatuses_All(rows, c) ==
    [i \in DOMAIN rows |->
        IF rows[i].status = "pending" THEN [rows[i] EXCEPT !.status = "ready"]
        ELSE rows[i]]

\* set_task_statuses: the finished annotations of a page are used up, one by
\* one, by the validation tasks they make ready, the longest first.
SetStatuses(rows, c) ==
    LET indexed == [i \in DOMAIN rows |-> [i |-> i, n |-> Cardinality(rows[i].pages)]]
        order == Reordered(indexed, LAMBDA x, y : x.n > y.n)
        used(acc, file, p) ==
            Cardinality({i \in acc.unblocked : rows[i].file = file /\ p \in rows[i].pages})
        ready(acc, t) ==
            \/ ~t.validation \/ c.type = "validation_only"
            \/ \A p \in t.pages :
                   LET n == FinishedOn(rows, t.file, p)
                   IN  n > 0 /\ (IF n > used(acc, t.file, p)
                                 THEN n - used(acc, t.file, p) ELSE 0) >= c.coverage
        one(acc, x) ==
            LET t == rows[x.i]
            IN  IF t.status # "pending" \/ ~ready(acc, t) THEN acc
                ELSE [ready |-> acc.ready \cup {x.i},
                      unblocked |-> IF t.validation /\ c.type # "validation_only"
                                    THEN acc.unblocked \cup {x.i} ELSE acc.unblocked]
        all == FoldLeft(one, [ready |-> {}, unblocked |-> {}], order)
    IN  [i \in DOMAIN rows |->
            IF i \in all.ready THEN [rows[i] EXCEPT !.status = "ready"] ELSE rows[i]]

WithNew(kept, new, c) ==
    LET all == kept \o Created(new.tasks)
    IN  [failed |-> new.failed,
         tasks |-> IF status = "in_progress" THEN SetStatuses(all, c) ELSE all]

Redistribute_AllInWork(rows, c) ==
    LET kept == SelectSeq(rows, LAMBDA t : ~ToDelete(rows, t))
        new == Distribute(c.files, c.files, Loaded(c.annotators, kept),
                          Loaded(c.validators, kept), c.type, c.coverage, rows)
    IN  WithNew(kept, new, c)

\* The tasks as redistribute leaves them.
Redistribute(rows, c) ==
    LET kept == SelectSeq(rows, LAMBDA t : ~ToDelete(rows, t))
        new == Distribute(c.files, c.files, Loaded(c.annotators, kept),
                          Loaded(c.validators, kept), c.type, c.coverage, kept)
    IN  WithNew(kept, new, c)

\* The rows of the files when redistribute has left these tasks: those of files
\* that lost a task are counted anew, then the new tasks are added (delete_tasks,
\* create_tasks).  New files come without pages that count as annotated.
GivenAfter(x, rows) ==
    LET kept == SelectSeq(Remaining(x), LAMBDA t : ~ToDelete(Remaining(x), t))
        new == SubSeq(rows, Len(kept) + 1, Len(rows))
        on(seq, file) == Cardinality({i \in DOMAIN seq : seq[i].file = file})
        left == [k \in DOMAIN crew.files |->
                    LET file == crew.files[k].id
                    IN  IF on(kept, file) < on(tasks, file) THEN PagesOfTasks(kept, file)
                        ELSE given[k]]
    IN  IF Gives(x, "files") THEN WithTasks(NewFiles(x.files, "any"), x.files, new)
        ELSE WithTasks(left, crew.files, new)

\* get_unassigned_files: the pages of a file that are not distributed, for
\* annotation and for validation; files without any are not listed.
Unassigned(k) == [v \in BOOLEAN |-> crew.files[k].left \ given[k][v]]

\* calculate_users_load does not return when there are less annotators than
\* each page is to have.
Endless(c) ==
    /\ c.type = "extensive_coverage" /\ c.annotators # <<>>
    /\ c.coverage > Len(c.annotators)

Refuse(a) == answer' = a /\ UNCHANGED <<crew, status, tasks, given>>

\* update_job; the job is finished when all tasks that are left are, unless
\* the jobs service cannot be told.
Patch(x) ==
    /\ status \in {"pending", "in_progress"} /\ crew.followed /\ patched < MaxPatches
    /\ patched' = patched + 1
    /\ IF Gives(x, "files") /\ status # "pending" THEN Refuse("422")
       ELSE IF ~Allowed(x) THEN Refuse("400")
       ELSE IF CoverageAnswer(x) # "ok" THEN Refuse(CoverageAnswer(x))
       ELSE IF Endless(Patched(x)) THEN Refuse("never")
       ELSE \E result \in {Redistribute(Remaining(x), Patched(x))} :
            LET removed == RemovedUsers(x)
                rows == SubSeq(result.tasks, 1, Len(result.tasks))
                done == \A i \in DOMAIN rows : rows[i].status = "finished"
            IN  \/ result.failed /\ Refuse("500")
                \/ ~result.failed /\ done /\ Refuse("500")
                \/ /\ ~result.failed
                   /\ crew' = [Patched(x) EXCEPT
                          !.annotators = WithSaved(@, crew.annotators, removed),
                          !.validators = WithSaved(@, crew.validators, removed)]
                   /\ tasks' = rows
                   /\ given' = GivenAfter(x, rows)
                   /\ status' = IF done THEN "finished" ELSE status
                   /\ answer' = "ok"

Next ==
    \/ \E x \in Posted : Post(x)
    \/ Start
    \/ \E i \in DOMAIN tasks : Begin(i) \/ Finish(i)
    \/ \E x \in Patches : Patch(x)

Spec == Init /\ [][Next]_redistributionVars

-----------------------------------------------------------------------------
(* Properties *)

TasksWith(validation, file, p) ==
    Indices(LAMBDA t : t.validation = validation /\ t.file = file.id /\ p \in t.pages)
UsersOf(S) == {tasks[i].user : i \in S}
AsManyDiffer(S, n) == Cardinality(S) = n /\ Cardinality(UsersOf(S)) = n
Fresh == status # "none" /\ patched = 0

\* However the shares round and the files fall to the users, every page of a
\* new job is annotated by as many different users as it is to be and validated
\* by one, in tasks that are neither empty nor too long (distribute).
EveryPageIsGiven ==
    Fresh =>
        /\ \A k \in DOMAIN crew.files : \A p \in crew.files[k].left :
               /\ crew.annotators # <<>> =>
                      AsManyDiffer(TasksWith(FALSE, crew.files[k], p), crew.coverage)
               /\ AsManyDiffer(TasksWith(TRUE, crew.files[k], p), 1)
        /\ \A i \in DOMAIN tasks : Cardinality(tasks[i].pages) \in 1 .. MaxPages

\* Pages are listed as unassigned when they are in no task and only then, through
\* all changes of a job; a page that need not be annotated is listed at most when
\* its file has been counted anew (get_unassigned_files, recalculate_file_pages).
UnassignedHaveNoTask ==
    crew # NoJob =>
        \A k \in DOMAIN crew.files : \A v \in BOOLEAN :
            IF ~v /\ crew.type = "validation_only" THEN Fresh => Unassigned(k)[v] = {}
            ELSE Unassigned(k)[v] = crew.files[k].left \ PagesOfTasks(tasks, crew.files[k].id)[v]

\* No page of a job of validation is ever listed for annotation.
NothingIsToBeAnnotated ==
    crew # NoJob /\ crew.type = "validation_only" =>
        \A k \in DOMAIN crew.files : Unassigned(k)[FALSE] = {}

\* In cross validation nobody validates a page he annotates, in a new job.
NobodyChecksHimself ==
    Fresh /\ crew.type = "cross" =>
        \A i, k \in DOMAIN tasks :
            ( /\ tasks[i].validation /\ ~tasks[k].validation
              /\ tasks[i].user = tasks[k].user /\ tasks[i].file = tasks[k].file )
                => tasks[i].pages \cap tasks[k].pages = {}

\* After any changes every page still has someone to annotate and someone to
\* validate it (redistribute takes off what is in work, and only that).
NoPageIsLost ==
    status \in {"pending", "in_progress"} =>
        \A k \in DOMAIN crew.files : \A p \in crew.files[k].left :
            /\ crew.annotators # <<>> => TasksWith(FALSE, crew.files[k], p) # {}
            /\ crew.type # "extensive_coverage" => TasksWith(TRUE, crew.files[k], p) # {}

\* A validation task is worked on only when each of its pages has been
\* annotated.
ValidationWaits ==
    crew # NoJob /\ crew.type # "validation_only" =>
        \A i \in DOMAIN tasks :
            tasks[i].validation /\ tasks[i].status # "pending" =>
                \A p \in tasks[i].pages : FinishedOn(tasks, tasks[i].file, p) > 0

\* find_users_share_loads: "Maximum dispersion may not exceed average load for
\* this job", so that nobody gets more than twice the average, rounded up.
DispersionIsBounded ==
    Fresh /\ crew.type = "hierarchical" =>
        LET n == Len(crew.annotators)
            pages(u) == SumOver(SelectSeq(tasks, LAMBDA t : ~t.validation /\ t.user = u),
                                LAMBDA t : Cardinality(t.pages))
        IN  \A i \in 1 .. n :
                pages(crew.annotators[i].id) <= (2 * PagesIn(crew.files) + n - 1) \div n

\* A step leaves to who stays in the job what he has in progress.
KeepsWork ==
    \A i \in DOMAIN tasks :
        tasks[i].status = "in_progress" /\ tasks[i].user \in CrewUsers(crew') =>
            \E k \in DOMAIN tasks' : /\ tasks'[k].user = tasks[i].user
                                     /\ tasks'[k].file = tasks[i].file
                                     /\ tasks'[k].pages = tasks[i].pages
                                     /\ tasks'[k].validation = tasks[i].validation
                                     /\ ~IsUnstarted(tasks'[k])

\* delete_tasks_for_removed_users: "Deletes tasks for users that have been
\* removed from job's annotators or validators": who stays keeps what he has
\* begun.
WhoStaysKeepsHisWork == [][KeepsWork]_redistributionVars

\* test_update_jobs_delete_annotator: after a change each page is in as many
\* annotation tasks as the job asks for and in one validation task.
CoveredExactly ==
    status = "in_progress" =>
        \A k \in DOMAIN crew.files : \A p \in crew.files[k].left :
            /\ Cardinality(TasksWith(FALSE, crew.files[k], p)) = crew.coverage
            /\ Cardinality(TasksWith(TRUE, crew.files[k], p)) = 1

=============================================================================
