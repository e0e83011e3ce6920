-------------------------- MODULE AnnotationTasks --------------------------
(***************************************************************************)
(* Manual tasks of one annotation job, as the annotation microservice      *)
(* keeps them (annotation/annotation/tasks, jobs and distribution).        *)
(*                                                                         *)
(* Every handler is a request against PostgreSQL under READ COMMITTED:     *)
(* a statement sees what other transactions have committed, the rows a     *)
(* transaction writes become visible at its commit, and a row it has       *)
(* written, or taken with FOR UPDATE, is held until then.  The handlers in *)
(* which this matters most, finish_task, start_job and                     *)
(* post_tasks_for_unassigned_files, are split at the statements other      *)
(* requests can slip in between; each of the others is one action.         *)
(*                                                                         *)
(* A definition named D_Something is D with a mistake in it, kept to show  *)
(* that a property would notice.                                           *)
(***************************************************************************)
EXTENDS Naturals, FiniteSets

CONSTANTS
    TaskId,          \* ids the tasks sequence can hand out (bounds the tasks)
    File,            \* files of the job
    Page,            \* page numbers of a file (every file has the same ones)
    User,            \* users known to the service
    Annotator,       \* job.annotators
    Validator,       \* job.validators
    Owner,           \* job.owners
    ValidationType,  \* job.validation_type
    Coverage,        \* job.extensive_coverage
    Worker,          \* threads serving the requests that are split
    Interleave,      \* may other requests run between their statements?
    AdminOps,        \* manager's operations enabled in the instance
    MaxAdmin         \* bound on how many of them are called

ValidationTypes ==
    {"cross", "hierarchical", "validation_only", "extensive_coverage"}

\* The shapes check_users_and_validation lets a manual job have.
ASSUME JobAssumption ==
    /\ IsFiniteSet(User)
    /\ Annotator \subseteq User /\ Validator \subseteq User
    /\ Owner \subseteq User
    /\ ValidationType \in ValidationTypes
    /\ Coverage \in Nat \ {0}
    /\ ValidationType = "validation_only" => Annotator = {} /\ Validator # {}
    /\ ValidationType = "cross" => Validator = {} /\ Cardinality(Annotator) >= 2
    /\ ValidationType = "hierarchical" => Annotator # {} /\ Validator # {}
    /\ ValidationType = "extensive_coverage" =>
           Coverage <= Cardinality(Annotator)

ASSUME BoundAssumption ==
    Interleave \in BOOLEAN /\ MaxAdmin \in Nat /\ IsFiniteSet(TaskId)

VARIABLES
    tasks,     \* the tasks table
    files,     \* the files table, rows of this job
    load,      \* users.overall_load: the pages of tasks it counts
    job,       \* jobs.status in the annotation service
    reported,  \* status the jobs service was last told over callback_url
    req,       \* what the request each thread serves has read and written
    admin      \* how many manager's operations were called

vars == <<tasks, files, load, job, reported, req, admin>>

-----------------------------------------------------------------------------
(* Rows *)

Status == {"pending", "ready", "in_progress", "finished"}

\* What the latest revision of a task says of a page.
Mark == {"none", "annotated", "validated", "failed"}

Task == [file : File, pages : SUBSET Page, user : User, validation : BOOLEAN,
         status : Status \cup {"deleted"},
         marks : [Page -> Mark],   \* latest mark of each page
         edited : SUBSET Page]     \* pages some revision has content for

Absent == [status |-> "absent"]    \* an id not handed out yet

FileRow == [distributed_annotating : SUBSET Page,
            distributed_validating : SUBSET Page,
            annotated_pages : SUBSET Page,
            validated_pages : SUBSET Page,
            status : {"pending", "annotated", "validated"}]

Work == SUBSET (TaskId \X Page)

NewTask(f, ps, u, v, s) ==
    [file |-> f, pages |-> ps, user |-> u, validation |-> v, status |-> s,
     marks |-> [p \in Page |-> "none"], edited |-> {}]

Live == {t \in TaskId : tasks[t].status \in Status}

TasksOf(f, v) ==
    {t \in Live : tasks[t].file = f /\ tasks[t].validation = v}

FinishedTasks == {t \in Live : tasks[t].status = "finished"}

\* The tasks table once the rows of r are inserted or updated.
With(r) == [t \in TaskId |-> IF t \in DOMAIN r THEN r[t] ELSE tasks[t]]

RemainingWork_Finished(tt, u) ==
    {w \in TaskId \X Page : /\ tt[w[1]].status \in Status
                            /\ tt[w[1]].user = u
                            /\ w[2] \in tt[w[1]].pages}

\* Pages of user u's tasks that are not finished, in tasks table tt.
RemainingWork(tt, u) ==
    {w \in TaskId \X Page : /\ tt[w[1]].status \in Status \ {"finished"}
                            /\ tt[w[1]].user = u
                            /\ w[2] \in tt[w[1]].pages}

\* update_user_overall_load for the users in us, once tt is flushed.
UpdateLoad(tt, us) ==
    [u \in User |-> IF u \in us THEN RemainingWork(tt, u) ELSE load[u]]

UsersOf(r) == {r[t].user : t \in DOMAIN r}

PagesOf(r, f, v) ==
    UNION {r[t].pages : t \in {s \in DOMAIN r : /\ r[s].file = f
                                                /\ r[s].validation = v}}

\* update_files: the distributed pages grow by those of the new rows.
UpdateFile(row, f, r) ==
    [row EXCEPT !.distributed_annotating = @ \cup PagesOf(r, f, FALSE),
                !.distributed_validating = @ \cup PagesOf(r, f, TRUE)]

RecalculateFile_Unflushed(row, f, tt) ==
    LET left == [t \in Live |-> tasks[t]]
    IN  [row EXCEPT !.distributed_annotating = PagesOf(left, f, FALSE),
                    !.distributed_validating = PagesOf(left, f, TRUE)]

\* recalculate_file_pages: they are what the tasks left in table tt cover.
RecalculateFile(row, f, tt) ==
    LET left == [t \in {s \in TaskId : tt[s].status \in Status} |-> tt[t]]
    IN  [row EXCEPT !.distributed_annotating = PagesOf(left, f, FALSE),
                    !.distributed_validating = PagesOf(left, f, TRUE)]

-----------------------------------------------------------------------------
(* Requests in progress *)

Idle == [pc |-> "idle"]

RowsOK(r) == DOMAIN r \subseteq TaskId /\ \A t \in DOMAIN r : r[t] \in Task

LoadsOK(l) == DOMAIN l \subseteq User /\ \A u \in DOMAIN l : l[u] \in Work

(***************************************************************************)
(* A request of finish_task is "checked" when it has read the task and its *)
(* revisions, "counted" when it has inserted the follow-up tasks and       *)
(* counted the job's tasks, "reported" when it has told the jobs service   *)
(* that the job is finished, "applied" when it has written every row but   *)
(* not committed.  One of start_job is "starting" when it has updated the  *)
(* tasks, and "started" when it has told the jobs service so.  One of      *)
(* post_tasks_for_unassigned_files is "distributing" when it has read      *)
(* job.files.                                                              *)
(***************************************************************************)
RequestOK(r) ==
    /\ r.pc \in {"idle", "checked", "counted", "reported", "applied",
                  "starting", "started", "distributing"}
    /\ r.pc = "idle" => r = Idle
    /\ r.pc \in {"checked", "counted", "reported", "applied"} =>
           r.task \in TaskId /\ r.file \in File
    /\ r.pc \in {"checked", "counted", "reported"} => r.validated \in SUBSET Page
    /\ r.pc = "checked" =>
           r.failed \in SUBSET Page /\ r.edited \in SUBSET Page
    /\ r.pc \in {"counted", "reported", "applied"} =>
           RowsOK(r.created) /\ r.last \in BOOLEAN /\ LoadsOK(r.loads)
    /\ r.pc \in {"counted", "reported"} => r.finished_pages \in SUBSET Page
    /\ r.pc = "reported" => r.last
    /\ r.pc = "applied" => r.row \in FileRow /\ RowsOK(r.unblocked)
    /\ r.pc \in {"starting", "started"} => r.started \in SUBSET TaskId
    /\ r.pc = "distributing" => r.rows \in [File -> FileRow]

Writing(w) == req[w].pc \in {"counted", "reported", "applied"}

Starting(w) == req[w].pc \in {"starting", "started"}

\* update_files and finish_task take the File row FOR UPDATE.
HoldsFile(w, f) ==
    /\ Writing(w)
    /\ req[w].file = f
    /\ req[w].pc \in {"reported", "applied"} \/ DOMAIN req[w].created # {}

FileLocked_Never(f) == FALSE

FileLocked(f) == \E w \in Worker : HoldsFile(w, f)

\* create_tasks flushes the users' overall_load.
UserLocked(u) == \E w \in Worker : Writing(w) /\ u \in UsersOf(req[w].created)

\* start_job has updated the task, or finish_task has: its own task, or one
\* that it unblocks.
TaskLocked(t) ==
    \E w \in Worker :
        \/ Starting(w) /\ t \in req[w].started
        \/ /\ req[w].pc = "applied"
           /\ t = req[w].task \/ t \in DOMAIN req[w].unblocked

\* finish_task has updated the job.
JobLocked == \E w \in Worker : req[w].pc = "applied" /\ req[w].last

\* A handler runs on its own when the instance is not interleaved.
Free == Interleave \/ \A w \in Worker : req[w] = Idle

(* Ids for a set of new tasks, from those no row has. *)

Fresh ==
    {t \in TaskId : /\ tasks[t].status = "absent"
                    /\ \A w \in Worker :
                           Writing(w) => t \notin DOMAIN req[w].created}

Numberings(new) ==
    {m \in [new -> Fresh] : \A a, b \in new : m[a] = m[b] => a = b}

NumberedRows(new) ==
    LET m == CHOOSE m \in Numberings(new) : TRUE
    IN  [t \in {m[n] : n \in new} |-> CHOOSE n \in new : m[n] = t]

(***************************************************************************)
(* Distribution (distribution/main.py).  The loads of the users decide who *)
(* gets which page; here anybody eligible may.  A user's pages of a file   *)
(* make one task (the code cuts it into tasks of MAX_PAGES = 50 pages).    *)
(***************************************************************************)

\* Each page goes to k of the users eligible for it, or to nobody if none is.
Shares(eligible, k) ==
    {c \in [DOMAIN eligible -> SUBSET User] :
        \A p \in DOMAIN eligible :
            /\ c[p] \subseteq eligible[p]
            /\ Cardinality(c[p]) = IF eligible[p] = {} THEN 0 ELSE k}

TasksFor(f, choice, v, s) ==
    {NewTask(f, {p \in DOMAIN choice : u \in choice[p]}, u, v, s) :
        u \in UNION {choice[p] : p \in DOMAIN choice}}

Distributions(f, eligible, k, v, s) ==
    {TasksFor(f, c, v, s) : c \in Shares(eligible, k)}

\* choose_validators_users, and filter_validation_files_pages: in a cross
\* validation job nobody validates a page this batch lets him annotate.
Reviewers(batch, p, annotators, validators) ==
    IF ValidationType = "cross"
    THEN annotators \ {n.user : n \in {b \in batch : p \in b.pages}}
    ELSE validators

WithValidation(batch, f, ps, annotators, validators) ==
    {batch \cup val : val \in Distributions(f,
         [p \in ps |-> Reviewers(batch, p, annotators, validators)],
         1, TRUE, "pending")}

Distribute(f, annotate, validate, annotators, validators, k) ==
    UNION {WithValidation(ann, f, validate, annotators, validators) :
               ann \in Distributions(f, [p \in annotate |-> annotators],
                                     k, FALSE, "pending")}

\* One batch for every file of fs.
Batches(fs, Options) ==
    {UNION {b[f] : f \in fs} :
        b \in {c \in [fs -> UNION {Options[f] : f \in fs}] :
                  \A f \in fs : c[f] \in Options[f]}}

-----------------------------------------------------------------------------
(* The job *)

NewFile_TaskStatus ==
    [distributed_annotating |-> {}, distributed_validating |-> {},
     annotated_pages |-> {}, validated_pages |-> {}, status |-> "ready"]

NewFile ==
    LET done == IF ValidationType = "validation_only" THEN Page ELSE {}
    IN  [distributed_annotating |-> done, distributed_validating |-> {},
         annotated_pages |-> done, validated_pages |-> {},
         status |-> "pending"]

Init ==
    /\ tasks = [t \in TaskId |-> Absent]
    /\ files = [f \in File |-> NewFile]
    /\ load = [u \in User |-> {}]
    /\ job = "absent"
    /\ reported = "pending"
    /\ req = [w \in Worker |-> Idle]
    /\ admin = 0

\* Rows r are inserted by a handler that is a single action.
InsertTasks(r) ==
    /\ \A f \in {r[t].file : t \in DOMAIN r} : ~FileLocked(f)
    /\ \A u \in UsersOf(r) : ~UserLocked(u)
    /\ tasks' = With(r)
    /\ load' = UpdateLoad(With(r), UsersOf(r))
    /\ files' = [f \in File |-> UpdateFile(files[f], f, r)]

\* post_job, with or without is_auto_distribution.
PostJob ==
    LET k == IF ValidationType = "extensive_coverage" THEN Coverage ELSE 1
        auto == Batches(File, [f \in File |->
                    Distribute(f, Page, Page, Annotator, Validator, k)])
    IN  /\ Free /\ job = "absent"
        /\ job' = "pending"
        /\ \E new \in {{}} \cup auto :
               /\ Numberings(new) # {}
               /\ InsertTasks(NumberedRows(new))
        /\ UNCHANGED <<reported, req, admin>>

\* start_job: the tasks of the kind the job begins with.
LeadingTasks ==
    {t \in Live : tasks[t].validation = (ValidationType = "validation_only")}

\* The tasks are updated, and stay locked.
StartJob(w) ==
    /\ Free /\ req[w] = Idle
    /\ job # "absent" /\ Live # {}
    /\ \A t \in LeadingTasks : ~TaskLocked(t)
    /\ req' = [req EXCEPT ![w] = [pc |-> "starting", started |-> LeadingTasks]]
    /\ UNCHANGED <<tasks, files, load, job, reported>>

\* start_job has no guard on the job's status: the restarts are budgeted.
FirstStart(w) == job = "pending" /\ StartJob(w) /\ UNCHANGED admin

\* The jobs service is told; it may have acted when the call raises.
StartReport(w) ==
    /\ req[w].pc = "starting"
    /\ \/ /\ reported' = "in_progress"
          /\ req' = [req EXCEPT ![w] = [pc |-> "started", started |-> req[w].started]]
       \/ /\ reported' \in {reported, "in_progress"}
          /\ req' = [req EXCEPT ![w] = Idle]
    /\ UNCHANGED <<tasks, files, load, job, admin>>

StartedTasks_All(ts) ==
    [t \in TaskId |-> IF t \in Live THEN [tasks[t] EXCEPT !.status = "ready"]
                     ELSE tasks[t]]

\* The tasks table once those of ts are started.
StartedTasks(ts) ==
    [t \in TaskId |-> IF t \in ts THEN [tasks[t] EXCEPT !.status = "ready"]
                     ELSE tasks[t]]

\* The job is updated, and the transaction committed.
StartCommit(w) ==
    /\ req[w].pc = "started"
    /\ ~JobLocked
    /\ tasks' = StartedTasks(req[w].started)
    /\ job' = "in_progress"
    /\ req' = [req EXCEPT ![w] = Idle]
    /\ UNCHANGED <<files, load, reported, admin>>

(* Working on a task *)

\* get_next_annotation_task
NextAnnotationTask(u) ==
    LET own(s) == {t \in Live : /\ tasks[t].user = u
                                /\ ~tasks[t].validation
                                /\ tasks[t].status = s}
    IN  /\ Free /\ own("in_progress") = {}
        /\ \E t \in own("ready") :
               /\ ~TaskLocked(t)
               /\ tasks' = [tasks EXCEPT ![t].status = "in_progress"]
        /\ UNCHANGED <<files, load, job, reported, req, admin>>

\* post_annotation_by_user: update_task_status commits before the revision
\* is saved, or refused (then ann, val and fail are empty).
SaveAnnotation(t, ann, val, fail) ==
    LET mark(p) == IF p \in ann THEN "annotated"
                   ELSE IF p \in val THEN "validated"
                   ELSE IF p \in fail THEN "failed" ELSE tasks[t].marks[p]
    IN  /\ Free /\ t \in Live
        /\ tasks[t].status \in {"ready", "in_progress"}
        /\ tasks[t].status = "ready" => ~TaskLocked(t)
        /\ ann \cup val \cup fail \subseteq tasks[t].pages
        /\ tasks[t].validation \/ val \cup fail = {}
        /\ tasks' = [tasks EXCEPT
               ![t].status = "in_progress",
               ![t].marks = [p \in Page |-> mark(p)],
               ![t].edited = @ \cup ann]
        /\ UNCHANGED <<files, load, job, reported, req, admin>>

-----------------------------------------------------------------------------
(* finish_task *)

\* Up to validate_user_actions.  The task's row is read without a lock.
FinishCheck(w, t) ==
    LET marked(m) == {p \in tasks[t].pages :
                         tasks[t].validation /\ tasks[t].marks[p] = m}
    IN  /\ Free /\ req[w] = Idle
        /\ t \in Live /\ tasks[t].status = "in_progress"
        /\ marked("none") = {}
        /\ req' = [req EXCEPT ![w] =
               [pc |-> "checked", task |-> t, file |-> tasks[t].file,
                validated |-> marked("validated"), failed |-> marked("failed"),
                edited |-> marked("annotated")]]
        /\ UNCHANGED <<tasks, files, load, job, reported, admin>>

JobUsers == Annotator \cup Validator \cup Owner

\* Users who put content on page p of file f in a task other than t.
Editors(t, f, p) ==
    {tasks[s].user : s \in {r \in TaskId \ {t} :
        /\ tasks[r].status # "absent"
        /\ tasks[r].file = f /\ p \in tasks[r].edited}}

\* annotation_user_for_failed_pages: "auto" shares the failed pages out,
\* "initial" gives them back, a user id gives them all to that user.
Reworkers(t, f, failed) ==
    {[p \in failed |-> Annotator], [p \in failed |-> Editors(t, f, p)]}
        \cup {[p \in failed |-> {u}] : u \in JobUsers}

Rework_Pending(t, f, failed) ==
    IF failed = {} \/ ValidationType = "validation_only" THEN {{}}
    ELSE UNION {WithValidation(ann, f, failed, Annotator, Validator) :
                   ann \in UNION {Distributions(f, e, 1, FALSE, "pending") :
                                      e \in Reworkers(t, f, failed)}}

\* create_annotation_tasks: then they are to be validated again.
Rework(t, f, failed) ==
    IF failed = {} \/ ValidationType = "validation_only" THEN {{}}
    ELSE UNION {WithValidation(ann, f, failed, Annotator, Validator) :
                   ann \in UNION {Distributions(f, e, 1, FALSE, "ready") :
                                      e \in Reworkers(t, f, failed)}}

\* validation_user_for_reannotated_pages, when validator u edited pages:
\* "auto" or a user id.
Checkers(u, edited) ==
    LET others == IF ValidationType = "cross" THEN Annotator \ {u} ELSE Validator
        chosen == IF ValidationType = "hierarchical" THEN JobUsers
                  ELSE JobUsers \ {u}
    IN  {[p \in edited |-> others]} \cup {[p \in edited |-> {x}] : x \in chosen}

\* create_validation_tasks; "not_required" is for an owner of the job.
Recheck(u, f, edited) ==
    IF edited = {} THEN {{}}
    ELSE UNION {Distributions(f, e, 1, TRUE, "ready") : e \in Checkers(u, edited)}
         \cup IF u \in Owner THEN {{}} ELSE {}

FollowUps_CheckFailed(r) ==
    {a \cup b : a \in Rework(r.task, r.file, r.failed),
                b \in Recheck(tasks[r.task].user, r.file, r.edited \cup r.failed)}

FollowUps(r) ==
    {a \cup b : a \in Rework(r.task, r.file, r.failed),
                b \in Recheck(tasks[r.task].user, r.file, r.edited)}

AnnotationsOf_NotThis(t, f, p) ==
    Cardinality({s \in TasksOf(f, FALSE) \cap FinishedTasks : p \in tasks[s].pages})

AnnotationsOf_Unfinished(t, f, p) ==
    Cardinality({s \in TasksOf(f, FALSE) : p \in tasks[s].pages})

\* In how many annotation tasks of the file page p is done, with task t's.
AnnotationsOf(t, f, p) ==
    Cardinality({s \in {t} : p \in tasks[s].pages})
    + Cardinality({s \in TasksOf(f, FALSE) \cap FinishedTasks :
                       p \in tasks[s].pages})

AllFinishedBut1_NotCounted(new) ==
    Cardinality(Live) + Cardinality(new) = Cardinality(FinishedTasks)

AllFinishedBut1_OldTasks(new) ==
    Cardinality(Live) = Cardinality(FinishedTasks) + 1

\* same_job_tasks_amount = same_job_finished_tasks_amount
AllFinishedBut1(new) ==
    Cardinality(Live) + Cardinality(new) = Cardinality(FinishedTasks) + 1

\* From create_annotation_tasks to the two counts of the job's tasks.
FinishPrepare(w) ==
    /\ req[w].pc = "checked"
    /\ LET r == req[w]
       IN  \E new \in FollowUps(r) :
               LET created == NumberedRows(new)
               IN  /\ Numberings(new) # {}
                   /\ new # {} => ~FileLocked(r.file)
                   /\ \A n \in new : ~UserLocked(n.user)
                   /\ req' = [req EXCEPT ![w] =
                       [pc |-> "counted", task |-> r.task, file |-> r.file,
                        validated |-> r.validated, created |-> created,
                        finished_pages |->
                            {p \in Page :
                                AnnotationsOf(r.task, r.file, p) = Coverage},
                        last |-> AllFinishedBut1(new),
                        loads |-> [u \in UsersOf(created) |->
                                       RemainingWork(With(created), u)]]]
    /\ UNCHANGED <<tasks, files, load, job, reported, admin>>

ApprovedPages_All(r) == tasks[r.task].pages

\* page for page in task.pages if page in validated
ApprovedPages(r) == tasks[r.task].pages \cap r.validated

\* The file's row once the task is finished.
FinishedRow(r) ==
    LET row == UpdateFile(files[r.file], r.file, r.created)
        validated == row.validated_pages \cup ApprovedPages(r)
    IN  IF tasks[r.task].validation
        THEN [row EXCEPT !.validated_pages = validated,
                         !.status = IF validated = Page THEN "validated" ELSE @]
        ELSE [row EXCEPT !.annotated_pages = r.finished_pages,
                         !.status = IF r.finished_pages = Page
                                    THEN "annotated" ELSE @]

\* unblock_validation_tasks
UnblockedTasks(r) ==
    IF tasks[r.task].validation THEN {}
    ELSE {s \in TasksOf(r.file, TRUE) : /\ tasks[s].status = "pending"
                                        /\ tasks[s].pages \subseteq r.finished_pages}

\* create_validation_revisions starts those whose annotators agree on
\* something.
Unblocked(s) ==
    LET ready == [tasks[s] EXCEPT !.status = "ready"]
        started == [tasks[s] EXCEPT
            !.status = "in_progress", !.edited = tasks[s].pages,
            !.marks = [p \in Page |-> IF p \in tasks[s].pages
                                      THEN "annotated" ELSE @[p]]]
    IN  IF ValidationType = "extensive_coverage"
        THEN {ready, started} ELSE {ready}

\* The tasks table as request r leaves it.
FinishedTable(r, unblocked) ==
    [t \in TaskId |->
        IF t \in DOMAIN r.created THEN r.created[t]
        ELSE IF t \in DOMAIN unblocked THEN unblocked[t]
        ELSE IF t = r.task THEN [tasks[t] EXCEPT !.status = "finished"]
        ELSE tasks[t]]

\* The File row is locked; the jobs service is told that the job is finished.
FinishReport(w) ==
    LET r == req[w]
    IN  /\ r.pc = "counted" /\ r.last
        /\ \A x \in Worker \ {w} : ~HoldsFile(x, r.file)
        /\ req' = [req EXCEPT ![w] =
               [pc |-> "reported", task |-> r.task, file |-> r.file,
                validated |-> r.validated, created |-> r.created,
                finished_pages |-> r.finished_pages, last |-> TRUE,
                loads |-> r.loads]]
        /\ reported' = "finished"
        /\ UNCHANGED <<tasks, files, load, job, admin>>

\* A request that need not tell the jobs service goes on without it.
ReadyToApply(r) == r.pc = "reported" \/ (r.pc = "counted" /\ ~r.last)

\* The job's row and the tasks' are updated, under the File row's lock.
FinishApply(w) ==
    LET r == req[w]
        u == tasks[r.task].user
    IN  /\ ReadyToApply(r)
        /\ \A x \in Worker \ {w} : ~HoldsFile(x, r.file)
        /\ r.last => ~JobLocked
        /\ r.task \in Live
        /\ \A s \in {r.task} \cup UnblockedTasks(r) : ~TaskLocked(s)
        /\ \E unblocked \in [UnblockedTasks(r) ->
                                UNION {Unblocked(s) : s \in UnblockedTasks(r)}] :
               /\ \A s \in UnblockedTasks(r) : unblocked[s] \in Unblocked(s)
               /\ req' = [req EXCEPT ![w] =
                   [pc |-> "applied", task |-> r.task, file |-> r.file,
                    created |-> r.created, row |-> FinishedRow(r),
                    unblocked |-> unblocked, last |-> r.last,
                    loads |-> [x \in DOMAIN r.loads \cup {u} |->
                        IF x = u THEN RemainingWork(FinishedTable(r, unblocked), u)
                        ELSE r.loads[x]]]]
        /\ UNCHANGED <<tasks, files, load, job, reported, admin>>

\* update_job_status raised (the jobs service may have acted all the same),
\* or the task was deleted meanwhile and its update finds no row: rollback.
FinishFails(w) ==
    LET r == req[w]
    IN  /\ r.pc \in {"counted", "reported"}
        /\ \A x \in Worker \ {w} : ~HoldsFile(x, r.file)
        /\ \/ /\ r.pc = "counted" /\ r.last
              /\ reported' \in {reported, "finished"}
           \/ /\ ReadyToApply(r) /\ r.task \notin Live
              /\ UNCHANGED reported
        /\ req' = [req EXCEPT ![w] = Idle]
        /\ UNCHANGED <<tasks, files, load, job, admin>>

\* The commit.  construct_annotated_doc commits before the user's load is
\* recomputed, so a crash then loses only that.
FinishCommit(w) ==
    LET r == req[w]
        u == tasks[r.task].user
        early == \E s \in DOMAIN r.unblocked : r.unblocked[s].status = "in_progress"
    IN  /\ r.pc = "applied"
        /\ \A x \in Worker \ {w} : Writing(x) => u \notin UsersOf(req[x].created)
        /\ tasks' = FinishedTable(r, r.unblocked)
        /\ files' = [files EXCEPT ![r.file] = r.row]
        /\ job' = IF r.last THEN "finished" ELSE job
        /\ \E lost \in IF early THEN {{}, {u}} ELSE {{}} :
               load' = [x \in User |-> IF x \in DOMAIN r.loads \ lost
                                       THEN r.loads[x] ELSE load[x]]
        /\ req' = [req EXCEPT ![w] = Idle]
        /\ UNCHANGED <<reported, admin>>

\* A refused parameter, a dead process, a lost connection, or a transaction
\* chosen as the victim of a deadlock: nothing of it is committed.
Abandon(w) ==
    /\ req[w] # Idle
    /\ req' = [req EXCEPT ![w] = Idle]
    /\ UNCHANGED <<tasks, files, load, job, reported, admin>>

-----------------------------------------------------------------------------
(* The manager's operations, at most MaxAdmin calls in all *)

Manage(op) ==
    /\ op \in AdminOps /\ Free /\ job # "absent"
    /\ admin < MaxAdmin /\ admin' = admin + 1

Restart(w) == Manage("start") /\ StartJob(w)

AnnotationPages(f, u, but) ==
    UNION {tasks[s].pages : s \in {x \in TasksOf(f, FALSE) \ but : tasks[x].user = u}}

\* validate_task_info, for a new task or for the one in but.
ValidTask(f, ps, u, v, but) ==
    /\ ValidationType = "validation_only" => v
    /\ ValidationType = "cross" /\ v => AnnotationPages(f, u, but) \cap ps = {}
    /\ u \in IF v /\ ValidationType # "cross" THEN Validator ELSE Annotator

\* post_task
PostTask(f, ps, u, v) ==
    /\ Manage("post")
    /\ ValidTask(f, ps, u, v, {})
    /\ LET new == {NewTask(f, ps, u, v, "pending")}
       IN  Numberings(new) # {} /\ InsertTasks(NumberedRows(new))
    /\ UNCHANGED <<job, reported, req>>

\* update_task: the file left is recalculated, the file entered extended.
UpdateTask(t, f, ps, u, v) ==
    LET old == tasks[t]
        new == [old EXCEPT !.file = f, !.pages = ps, !.user = u, !.validation = v]
        tt == [tasks EXCEPT ![t] = new]
        left == [files EXCEPT ![old.file] = RecalculateFile(@, old.file, tt)]
    IN  /\ Manage("update")
        /\ t \in Live /\ old.status = "pending" /\ new # old
        /\ ValidTask(f, ps, u, v, {t})
        /\ ~FileLocked(old.file) /\ ~FileLocked(f) /\ ~TaskLocked(t)
        /\ ~UserLocked(old.user) /\ ~UserLocked(u)
        /\ tasks' = tt
        /\ files' = IF f = old.file THEN left
                    ELSE [left EXCEPT ![f] = UpdateFile(@, f, [x \in {t} |-> new])]
        /\ load' = UpdateLoad(tt, {u, old.user})
        /\ UNCHANGED <<job, reported, req>>

\* delete_tasks; what the revisions of a deleted task say stays known.
DeleteTasks(ts) ==
    LET tt == [t \in TaskId |-> IF t \in ts THEN [tasks[t] EXCEPT !.status = "deleted"]
                                ELSE tasks[t]]
        touched == {tasks[t].file : t \in ts}
        owners == {tasks[t].user : t \in ts}
    IN  /\ \A f \in touched : ~FileLocked(f)
        /\ \A u \in owners : ~UserLocked(u)
        /\ \A t \in ts : ~TaskLocked(t)
        /\ tasks' = tt
        /\ files' = [f \in File |-> IF f \in touched
                                    THEN RecalculateFile(files[f], f, tt) ELSE files[f]]
        /\ load' = UpdateLoad(tt, owners)
        /\ UNCHANGED <<job, reported, req>>

\* delete_task: whatever the task's status.
DeleteTask(t) ==
    /\ Manage("delete")
    /\ t \in Live
    /\ DeleteTasks({t})

\* delete_batch_tasks
DeleteBatch(ts) ==
    /\ Manage("delete_batch")
    /\ ts # {} /\ ts \subseteq Live
    /\ \A t \in ts : tasks[t].status \in {"pending", "ready"}
    /\ DeleteTasks(ts)

\* check_annotators and check_validators
CrewAllowed(annotators, validators) ==
    /\ ValidationType = "cross" =>
           Cardinality(annotators) >= 2 /\ validators = {}
    /\ ValidationType = "hierarchical" => annotators # {} /\ validators # {}
    /\ ValidationType = "validation_only" => annotators = {} /\ validators # {}

\* post_tasks: whole files are shared out among chosen users, whatever is
\* distributed already.
PostTasks(fs, us) ==
    /\ Manage("distribute")
    /\ us \subseteq Annotator \cup Validator
    /\ CrewAllowed(us \cap Annotator, us \cap Validator)
    /\ \E new \in Batches(fs, [f \in fs |->
                    Distribute(f, Page, Page, us \cap Annotator, us \cap Validator, 1)]) :
           /\ Numberings(new) # {}
           /\ InsertTasks(NumberedRows(new))
    /\ UNCHANGED <<job, reported, req>>

\* post_tasks_for_unassigned_files: job.files is read ...
FindUnassigned(w) ==
    /\ Manage("unassigned")
    /\ req[w] = Idle
    /\ req' = [req EXCEPT ![w] = [pc |-> "distributing", rows |-> files]]
    /\ UNCHANGED <<tasks, files, load, job, reported>>

\* ... and what it lacked is distributed.  update_files locks the rows, but
\* the objects keep the pages read before.
DistributeUnassigned(w) ==
    LET rows == req[w].rows
        options == [f \in File |->
            Distribute(f, Page \ rows[f].distributed_annotating,
                       Page \ rows[f].distributed_validating,
                       Annotator, Validator, 1)]
    IN  /\ req[w].pc = "distributing"
        /\ \E new \in Batches(File, options) :
               LET r == NumberedRows(new)
                   filled == {n.file : n \in new}
                   grown(f) == UpdateFile(rows[f], f, r)
               IN  /\ Numberings(new) # {}
                   /\ \A f \in filled : ~FileLocked(f)
                   /\ \A u \in UsersOf(r) : ~UserLocked(u)
                   /\ tasks' = With(r)
                   /\ load' = UpdateLoad(With(r), UsersOf(r))
                   /\ files' = [f \in File |->
                        IF f \notin filled THEN files[f]
                        ELSE [files[f] EXCEPT
                            !.distributed_annotating =
                                IF grown(f).distributed_annotating
                                     # rows[f].distributed_annotating
                                THEN grown(f).distributed_annotating ELSE @,
                            !.distributed_validating =
                                IF grown(f).distributed_validating
                                     # rows[f].distributed_validating
                                THEN grown(f).distributed_validating ELSE @]]
        /\ req' = [req EXCEPT ![w] = Idle]
        /\ UNCHANGED <<job, reported, admin>>

-----------------------------------------------------------------------------
Next ==
    \/ PostJob
    \/ \E u \in User : NextAnnotationTask(u)
    \/ \E t \in TaskId, ann, val, fail \in SUBSET Page :
           /\ ann \cap val = {} /\ ann \cap fail = {} /\ val \cap fail = {}
           /\ SaveAnnotation(t, ann, val, fail)
    \/ \E w \in Worker :
           \/ FirstStart(w)
           \/ Restart(w)
           \/ StartReport(w)
           \/ StartCommit(w)
           \/ \E t \in TaskId : FinishCheck(w, t)
           \/ FinishPrepare(w)
           \/ FinishReport(w)
           \/ FinishApply(w)
           \/ FinishFails(w)
           \/ FinishCommit(w)
           \/ FindUnassigned(w)
           \/ DistributeUnassigned(w)
           \/ Abandon(w)
    \/ \E f \in File, ps \in (SUBSET Page) \ {{}}, u \in User, v \in BOOLEAN :
           \/ PostTask(f, ps, u, v)
           \/ \E t \in TaskId : UpdateTask(t, f, ps, u, v)
    \/ \E t \in TaskId : DeleteTask(t)
    \/ \E ts \in SUBSET TaskId : DeleteBatch(ts)
    \/ \E fs \in (SUBSET File) \ {{}}, us \in SUBSET User : PostTasks(fs, us)

Spec == Init /\ [][Next]_vars

-----------------------------------------------------------------------------
(* Properties *)

(***************************************************************************)
(* Every table holds rows of its type and every request in progress what   *)
(* its handler has computed so far (models.py, finish_task's locals).      *)
(***************************************************************************)
TypeOK ==
    /\ tasks \in [TaskId -> Task \cup {Absent}]
    /\ files \in [File -> FileRow]
    /\ load \in [User -> Work]
    /\ job \in {"absent", "pending", "in_progress", "finished"}
    /\ reported \in {"pending", "in_progress", "finished"}
    /\ DOMAIN req = Worker /\ \A w \in Worker : RequestOK(req[w])
    /\ admin \in 0..MaxAdmin

(***************************************************************************)
(* distributed_annotating_pages and distributed_validating_pages of a file *)
(* are the pages its tasks cover, whichever handlers created, moved and    *)
(* deleted tasks meanwhile: update_files extends them, and                 *)
(* recalculate_file_pages rebuilds them, under the row's lock.             *)
(***************************************************************************)
DistributedPagesMatchTasks ==
    ValidationType # "validation_only" =>
        \A f \in File :
            /\ files[f].distributed_annotating =
                   UNION {tasks[t].pages : t \in TasksOf(f, FALSE)}
            /\ files[f].distributed_validating =
                   UNION {tasks[t].pages : t \in TasksOf(f, TRUE)}

(***************************************************************************)
(* A user's overall_load counts the pages of his unfinished tasks, which   *)
(* is what update_user_overall_load recomputes wherever tasks come and go. *)
(***************************************************************************)
LoadIsRemainingWork ==
    \A u \in User :
        load[u] = {w \in TaskId \X Page :
                      /\ w[1] \in Live \ FinishedTasks
                      /\ tasks[w[1]].user = u /\ w[2] \in tasks[w[1]].pages}

(***************************************************************************)
(* "If all tasks associated with job are finished" the job is finished     *)
(* (finish_task): once the last task is committed the job's row says so.   *)
(***************************************************************************)
JobFinishesWithItsTasks ==
    Live # {} /\ Live = FinishedTasks => job = "finished"

\* What is left when a step finishes the job.
FinishesJob == job # "finished" /\ job' = "finished" => Live' = FinishedTasks'

(***************************************************************************)
(* The same condition the other way: the job becomes finished only when no *)
(* task of it is left, the follow-up tasks this commit brings included.    *)
(***************************************************************************)
JobFinishedOnlyWhenAllFinished == [][FinishesJob]_vars

Annotated(f, p) ==
    Cardinality({t \in TasksOf(f, FALSE) \cap FinishedTasks :
                    p \in tasks[t].pages}) >= Coverage

\* What a step does to validation tasks.
StartsValidation ==
    ValidationType # "validation_only" =>
        \A t \in TaskId :
            /\ tasks[t].status = "pending" /\ tasks[t].validation
            /\ tasks'[t].status \in {"ready", "in_progress", "finished"}
            => \A f \in File, p \in Page :
                   /\ tasks'[t].file = f
                   /\ p \in tasks'[t].pages
                   => Annotated(f, p)'

(***************************************************************************)
(* A validation task leaves "pending" only when each of its pages is in as *)
(* many finished annotation tasks as extensive_coverage asks for           *)
(* (unblock_validation_tasks); start_job opens a validation_only job.      *)
(***************************************************************************)
ValidationStartsAfterAnnotation == [][StartsValidation]_vars

(***************************************************************************)
(* With no request in progress no validation task is left "pending" whose  *)
(* pages are all annotated, as long as they are in their first round: a    *)
(* page is in one validation task and in no more annotation tasks than     *)
(* extensive_coverage.  finish_task searches for tasks to unblock each     *)
(* time an annotation task is finished.                                    *)
(***************************************************************************)
Stuck(t) ==
    /\ tasks[t].validation /\ tasks[t].status = "pending"
    /\ \A p \in tasks[t].pages : Annotated(tasks[t].file, p)

FirstRound(f, p) ==
    /\ Cardinality({s \in TasksOf(f, FALSE) : p \in tasks[s].pages}) <= Coverage
    /\ Cardinality({s \in TasksOf(f, TRUE) : p \in tasks[s].pages}) = 1

FirstRoundUnblocks ==
    (\A w \in Worker : req[w] = Idle) =>
        \A t \in Live :
            Stuck(t) => \E p \in tasks[t].pages : ~FirstRound(tasks[t].file, p)

\* What a step does to the pages a validation task failed.
Reworks ==
    \A t \in Live \cap Live' :
        /\ ValidationType # "validation_only"
        /\ tasks[t].validation
        /\ tasks[t].status # "finished" /\ tasks'[t].status = "finished"
        => \A p \in tasks[t].pages :
               /\ tasks[t].marks[p] = "failed"
               /\ Editors(t, tasks[t].file, p) # {}
               => \E s \in Live' : /\ tasks'[s].file = tasks[t].file
                                   /\ ~tasks'[s].validation
                                   /\ tasks'[s].status = "ready"
                                   /\ p \in tasks'[s].pages

(***************************************************************************)
(* A finished validation task leaves every page it failed, and somebody    *)
(* else put content on, in a task to annotate it again that is ready:      *)
(* create_annotation_tasks, whichever user or users the validator chose.   *)
(***************************************************************************)
FailedPagesAreReworked == [][Reworks]_vars

(***************************************************************************)
(* "Saves annotated/validated pages in the file" (finish_task): a page     *)
(* once saved as annotated stays so while its finished tasks stand.        *)
(***************************************************************************)
AnnotatedPagesStayAnnotated ==
    [][\A f \in File : files[f].annotated_pages
                           \subseteq files'[f].annotated_pages]_vars

(***************************************************************************)
(* A page counts as validated only if some validation task was finished    *)
(* whose latest word on that page is that it is valid.                     *)
(***************************************************************************)
ValidatedPagesWereApproved ==
    \A f \in File : \A p \in files[f].validated_pages :
        \E t \in FinishedTasks :
            /\ tasks[t].file = f /\ tasks[t].validation
            /\ tasks[t].marks[p] = "validated"

(***************************************************************************)
(* A page is in the hands of one validator at a time, however often it     *)
(* fails: finish_task opens a validation task for a page only as it closes *)
(* the one that asked for it.  (Two annotators may have it: a validation   *)
(* task opens for every page that is in Coverage finished tasks, one that  *)
(* is being annotated again included, and may fail the page once more.)    *)
(***************************************************************************)
OneValidatorPerPage ==
    \A s, t \in Live \ FinishedTasks :
        /\ s # t /\ tasks[s].file = tasks[t].file
        /\ tasks[s].validation /\ tasks[t].validation
        => tasks[s].pages \cap tasks[t].pages = {}

=============================================================================
